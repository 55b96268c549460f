----------------------------- MODULE PolicyBuilder -----------------------------
(***************************************************************************)
(* The access policy of a room as the console edits it: a tree of nodes,     *)
(* each with an id React tells it by, made from the stored policy, changed   *)
(* one interaction at a time and made back into a policy on save.  An entry  *)
(* of the builder is the text of an input.                                   *)
(***************************************************************************)
EXTENDS PolicyTree, Integers, SequencesExt

CONSTANTS
    BadgeType,      \* a badge type together with its maxAgeDays
    Key, Text,      \* what an operator types into a `where` row
    MaxWhere,       \* bound on the rows of one badge
    MaxNodes        \* bound on the nodes of one tree

NotAnInteger == -1  \* an `n` that Number() does not turn into an integer

-----------------------------------------------------------------------------
(* Between the stored policy and the tree.                                  *)

\* Rows with a blank attribute are dropped, and of two rows for one attribute
\* the later wins; every value is a string.
WhereOf(entries) ==
    LET named == {i \in DOMAIN entries : entries[i].key # Blank}
        last(k) == CHOOSE i \in named : /\ entries[i].key = k
                                        /\ \A j \in named : entries[j].key = k => j <= i
    IN  [k \in {entries[i].key : i \in named} |-> Json("string", entries[last(k)].text)]

RECURSIVE Serialize(_)
Serialize(node) ==
    Policy(node.kind, node.badge, WhereOf(node.where), node.n,
           [i \in DOMAIN node.children |-> Serialize(node.children[i])])

\* policyNodeSchema, as the tests of the builder use it: `n` is a
\* natural number, and a badge has a type.
RECURSIVE Valid(_)
Valid(policy) ==
    /\ policy.kind \in {"badge", "allOf", "anyOf", "atLeast"}
    /\ policy.n \in Nat
    /\ policy.kind = "badge" => policy.badge # Blank
    /\ \A i \in DOMAIN policy.of : Valid(policy.of[i])

RECURSIVE Readable(_)
Readable(policy) ==
    policy.kind # "unknown" /\ \A i \in DOMAIN policy.of : Readable(policy.of[i])

\* Object.entries of a badge's `where`, each value as String() writes it.
EntriesOf(where) ==
    LET keys == SetToSeq(DOMAIN where)
    IN  [i \in DOMAIN keys |-> [key |-> keys[i], text |-> where[keys[i]].text]]

\* deserializeNode: a node takes its id before its children do.  The second
\* component counts the ids handed out.
RECURSIVE Deserialize(_, _)
Deserialize(policy, seq) ==
    LET id == NextId(seq)
        read(done, child) ==
            LET result == Deserialize(child, done.seq)
            IN  [nodes |-> Append(done.nodes, result.node), seq |-> result.seq]
        children == FoldLeft(read, [nodes |-> <<>>, seq |-> id], policy.of)
    IN  [node |-> Node(id, policy.kind, policy.badge, EntriesOf(policy.where),
                       policy.n, children.nodes),
         seq |-> children.seq]

-----------------------------------------------------------------------------
(* Editing: each operator is the set of trees one interaction can lead to.   *)

RECURSIVE NodesOf(_)
NodesOf(root) == {root} \union UNION {NodesOf(child) : child \in ToSet(root.children)}

RECURSIVE Size(_)
Size(root) == FoldLeft(LAMBDA sum, child : sum + Size(child), 1, root.children)

Ids(root) == {node.id : node \in NodesOf(root)}

\* updateNodeById, for an update that makes the node `new`: the first node
\* with that id on every path is replaced.
RECURSIVE UpdateNode(_, _, _)
UpdateNode(root, id, new) ==
    IF root.id = id THEN new
    ELSE [root EXCEPT !.children = [i \in DOMAIN root.children |->
                                        UpdateNode(root.children[i], id, new)]]

AddChild(root, parent, child) ==
    UpdateNode(root, parent.id, [parent EXCEPT !.children = Append(@, child)])

RemoveChild(root, parent, id) ==
    UpdateNode(root, parent.id, [parent EXCEPT !.children = SelectSeq(@, LAMBDA c : c.id # id)])

\* BadgeNodeEditor: the type or the age, or one row of `where` changed, added
\* or removed.
BadgeEdits(node) ==
    LET rows == node.where
        with(w) == [node EXCEPT !.where = w]
    IN  {[node EXCEPT !.badge = b] : b \in BadgeType}
          \union {with([rows EXCEPT ![i].key = k]) : i \in DOMAIN rows, k \in Key}
          \union {with([rows EXCEPT ![i].text = t]) : i \in DOMAIN rows, t \in Text}
          \union {with(RemoveAt(rows, i)) : i \in DOMAIN rows}
          \union (IF Len(rows) < MaxWhere
                  THEN {with(Append(rows, [key |-> Blank, text |-> Blank]))} ELSE {})

\* CompositeNodeEditor: a child of each kind.
CompositeEdits(root, node, seq) ==
    {AddChild(root, node, child) : child \in
        {MakeBadge(seq, CHOOSE b \in BadgeType : TRUE), MakeAllOf(seq), MakeAnyOf(seq),
         MakeAtLeast(seq)}}

\* AtLeastNodeEditor: the same, and the number.
AtLeastEdits(root, node, seq) ==
    CompositeEdits(root, node, seq)
      \union {UpdateNode(root, node.id, [node EXCEPT !.n = n]) : n \in {0, 1, NotAnInteger}}

\* The remove button of every node but the root.
RemoveEdits(root) ==
    UNION {{RemoveChild(root, parent, child.id) : child \in ToSet(parent.children)} :
              parent \in NodesOf(root)}

\* PolicyNodeEditor: the editor of one node.
NodeEdits(root, node, seq) ==
    CASE node.kind = "badge" -> {UpdateNode(root, node.id, n) : n \in BadgeEdits(node)}
      [] node.kind \in {"allOf", "anyOf"} -> CompositeEdits(root, node, seq)
      [] OTHER -> AtLeastEdits(root, node, seq)

\* PolicyBuilder: what one interaction makes of the tree.
Edits(root, seq) ==
    {tree \in RemoveEdits(root) \union UNION {NodeEdits(root, node, seq) : node \in NodesOf(root)} :
        tree # root /\ Size(tree) <= MaxNodes}
=============================================================================
