----------------------------- MODULE MCRoomVisit ------------------------------
(* Small instances of RoomVisit for TLC.                                     *)
EXTENDS RoomVisit, TLC

CONSTANTS t1, t2, ada, bob

OneTab == {t1}
TwoTabs == {t1, t2}
OneAccount == {ada}
TwoAccounts == {ada, bob}

\* Two parts of the state space: identities come and go among all accounts while
\* nobody has joined, or one account that is never re-rooted joins and sends, with one
\* session answer or derivation under way at a time, and with fewer documents the more
\* it discloses and sends, and the later.
Quiet == clock = 0 /\ (\A a \in Account : leaf[a] = None) /\ (\A t \in Tab : roomToken[t] = None)

OneAtATime(pending) ==
    \A t, u \in Tab : pending[t] # {} /\ pending[u] # {} => t = u /\ Cardinality(pending[t]) = 1

Alone ==
    /\ Cardinality({a \in Account : idToken[a] > 0}) <= 1
    /\ \A a \in Account : anonEpoch[a] = 1
    /\ OneAtATime([t \in Tab |-> jobs[t] \union asked[t]])
    /\ loads + clock + Cardinality(sending) + Cardinality(signed)
         + Cardinality({t \in Tab : roomToken[t] # None}) < MaxLoads + MaxSends

\* A disturbed browser, which is promised nothing, is followed no further.
SmallSpec == Init /\ [][Next /\ ~disturbed /\ (Quiet \/ Alone)']_vars

\* Tabs and accounts are interchangeable.
Symmetry == Permutations(Tab) \union Permutations(Account)
=============================================================================
