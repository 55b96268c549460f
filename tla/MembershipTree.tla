---------------------------- MODULE MembershipTree ----------------------------
(***************************************************************************)
(* What the message pipeline can see of the membership operations: the tree *)
(* of a room, one leaf per member, changing under every send.               *)
(*                                                                          *)
(* A leaf may be given any identity that no leaf holds, one that was in the *)
(* tree before included: a rotation compares the new commitment with the    *)
(* leaves of the moment only, and a member whose leaf was pruned may, after *)
(* an unban, join again with the commitment of before.  Which member may do *)
(* what, and when, is MembershipContract's; here any member may.            *)
(***************************************************************************)
CONSTANTS Member, Identity, None

VARIABLE leaf       \* the identity of each member's leaf, None without one

Holds(m, id) == leaf[m] = id

Vacant(id) == \A m \in Member : ~Holds(m, id)

\* Any tree of a room's life: no identity has two leaves.
Init ==
    /\ leaf \in [Member -> Identity \union {None}]
    /\ \A m, n \in Member : leaf[m] = leaf[n] /\ leaf[m] # None => m = n

\* joinRoom made a leaf.
Enter(m) ==
    /\ leaf[m] = None
    /\ \E id \in Identity : Vacant(id) /\ leaf' = [leaf EXCEPT ![m] = id]

\* rotateDevice replaced one.
Replace(m) ==
    /\ leaf[m] # None
    /\ \E id \in Identity : Vacant(id) /\ leaf' = [leaf EXCEPT ![m] = id]

\* A ban pruned one.
Leave(m) ==
    /\ leaf[m] # None
    /\ leaf' = [leaf EXCEPT ![m] = None]

Next == \E m \in Member : Enter(m) \/ Replace(m) \/ Leave(m)

Spec == Init /\ [][Next]_leaf
=============================================================================
