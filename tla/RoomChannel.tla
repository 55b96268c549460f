----------------------------- MODULE RoomChannel -----------------------------
(***************************************************************************)
(* What a room subscription promises its reader: what the channel delivered *)
(* is handed over in order, each broadcast once, and nothing waits for ever  *)
(* while the reader keeps asking, until the subscription ends.               *)
(***************************************************************************)
EXTENDS Sequences

CONSTANT Broadcast

VARIABLES
    open,       \* a subscription is running
    pending     \* delivered and not yet handed over

Init == ~open /\ pending = <<>>

Start == ~open /\ open' = TRUE /\ UNCHANGED pending

Put == open /\ \E b \in Broadcast : pending' = Append(pending, b) /\ UNCHANGED open

Take == open /\ pending # <<>> /\ pending' = Tail(pending) /\ UNCHANGED open

\* The reader is gone or Redis refused: what was pending is dropped.
End == open /\ open' = FALSE /\ pending' = <<>>

HandOver == pending # <<>> /\ (Take \/ End)

Next == Start \/ Put \/ Take \/ End

Spec == Init /\ [][Next]_<<open, pending>> /\ WF_<<open, pending>>(HandOver)
=============================================================================
