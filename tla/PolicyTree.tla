------------------------------ MODULE PolicyTree ------------------------------
(***************************************************************************)
(* What the console's policy builder and the procedures on rooms both know   *)
(* of an access policy: the shape of a stored policy, and of a node of the   *)
(* builder's tree.                                                          *)
(*                                                                          *)
(* A policy is a tree of records of one shape.  The value a `where` names    *)
(* keeps the JSON type it was stored with.                                   *)
(***************************************************************************)
EXTENDS Naturals, Sequences

Blank == "blank"    \* the empty text of an input

Json(type, text) == [type |-> type, text |-> text]
Policy(kind, badge, where, n, of) ==
    [kind |-> kind, badge |-> badge, where |-> where, n |-> n, of |-> of]
OpenPolicy == Policy("allOf", Blank, <<>>, 0, <<>>)

\* What deserializeNode cannot read: no known key, so it dereferences undefined.
UnknownPolicy == Policy("unknown", Blank, <<>>, 0, <<>>)

Node(id, kind, badge, where, n, children) ==
    [id |-> id, kind |-> kind, badge |-> badge, where |-> where, n |-> n,
     children |-> children]

\* nextId, `seq` being the ids handed out so far.
NextId(seq) == seq + 1

MakeBadge(seq, badge) == Node(NextId(seq), "badge", badge, <<>>, 0, <<>>)
MakeAllOf(seq) == Node(NextId(seq), "allOf", Blank, <<>>, 0, <<>>)
MakeAnyOf(seq) == Node(NextId(seq), "anyOf", Blank, <<>>, 0, <<>>)
MakeAtLeast(seq) == Node(NextId(seq), "atLeast", Blank, <<>>, 1, <<>>)
===============================================================================
