----------------------------- MODULE MCFeedClient -----------------------------
(* A small instance of FeedClient for TLC.                                   *)
EXTENDS FeedClient

CONSTANTS c1, c2, home

OneClient == {c1}
TwoClients == {c1, c2}
OneAddress == {home}
AllAtHome == [c \in Client |-> home]
=============================================================================
