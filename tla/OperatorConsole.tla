---------------------------- MODULE OperatorConsole ----------------------------
(***************************************************************************)
(* RoomConsole together with the builder its dialog shows: what a save sends *)
(* for the policy.  RoomConsole's parameters ReadablePolicy, TreeOf,         *)
(* PolicyOf, EditsOf, IdsOf and ValidPolicy are PolicyBuilder's operators.   *)
(***************************************************************************)
EXTENDS RoomConsole, PolicyBuilder

\* The builder has only texts, so a policy that goes through it and back is not the
\* one that was loaded: olderThanMonths: 12 becomes "12".
RECURSIVE AsText(_)
AsText(policy) ==
    [policy EXCEPT !.where = [k \in DOMAIN @ |-> Json("string", @[k].text)],
                   !.of = [i \in DOMAIN @ |-> AsText(@[i])]]

\* A dialog saved without touching its policy sends the same tree of the same badges,
\* attributes and texts of values.
UntouchedButForTypes(policy) ==
    Readable(dialog.loaded) /\ ~dialog.toggled /\ ~dialog.edited => policy = AsText(dialog.loaded)

\* No two nodes share an id, so that an edit reaches the node it was made on.
IdsUnique == Cardinality(Ids(dialog.root)) = Size(dialog.root)

\* Saving the dialog of page.tsx never opens a room behind the operator's back, nor
\* sends a tree the builder mixed up, nor changes an untouched policy's structure,
\* badges, attributes or the texts of their values.  It does change the values' JSON
\* types, and with them the gate of a room whose policy names a number: of that this
\* says nothing.
PolicyKept ==
    [][Submit => /\ IdsUnique
                 /\ dialog.edit # NoRoom =>
                      OpenOnlyByChoice /\ UntouchedButForTypes(call'["save"].set.policy)]_vars
================================================================================
