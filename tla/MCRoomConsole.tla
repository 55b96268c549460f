----------------------------- MODULE MCRoomConsole -----------------------------
(* A small instance of RoomConsole for TLC.                                   *)
EXTENDS OperatorConsole

Slugs == [n \in {"Lobby", "tea"} |-> IF n = "tea" THEN "tea" ELSE "lobby"]
Starters == <<"lobby", "random">>

\* The open policy, one of scripts/seed-rooms.ts, and one no builder can read.
AccountAge ==
    Policy("badge", "account-age", "olderThanMonths" :> Json("number", "12"), 0, <<>>)
Stored == {Policy("allOf", Blank, <<>>, 0, <<AccountAge>>), UnknownPolicy}

Others ==
    {Request("seed", NoRoom, <<>>), Request("delete", 1, <<>>),
     Request("create", NoRoom, RoomRow("Lobby", "lobby", "PLAINTEXT", "", FALSE, OpenPolicy))}

\* Of the calls and of what goes another way, one may be at its bound, not both.
SmallSpec == Init /\ [][Next /\ (calls + events < MaxCalls + MaxEvents)']_vars
=============================================================================
