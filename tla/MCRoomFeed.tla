------------------------------ MODULE MCRoomFeed ------------------------------
(* Small instances of RoomFeed for TLC.                                       *)
EXTENDS RoomFeed

CONSTANTS m1, m2

OneMessage == {m1}
TwoMessages == {m1, m2}
OneBroadcast == [kind : {"message", "tombstone"}, id : {m1}]
                  \union {[kind |-> "system", id |-> None]}
TwoBroadcasts == [kind : {"message", "tombstone"}, id : {m1, m2}]
                  \union {[kind |-> "system", id |-> None]}
=============================================================================
