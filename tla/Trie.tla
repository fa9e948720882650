-------------------------------- MODULE Trie --------------------------------
(***************************************************************************)
(* containers::Trie: an append-only array of nodes whose child lists hold  *)
(* indexes sorted by key.  Operators on the array; index 1 is the root and *)
(* 0 is kInvalidNode.  Keys are numbers.                                   *)
(***************************************************************************)
LOCAL INSTANCE Integers
LOCAL INSTANCE Sequences
LOCAL INSTANCE SequencesExt

CONSTANT kLinearSearchMaximumChildren

NoValue == "none"
NewNode(key) == [key |-> key, children |-> <<>>, sequence_end |-> FALSE, value |-> NoValue]
EmptyTrie == <<NewNode(0)>>

(* First position whose key is not below key, by halving [low, high). *)
RECURSIVE LowerBound(_, _, _, _, _)
LowerBound(nodes, children, key, low, high) ==
    LET middle == (low + high) \div 2
    IN  IF low = high THEN low
        ELSE IF nodes[children[middle]].key < key THEN LowerBound(nodes, children, key, middle + 1, high)
             ELSE LowerBound(nodes, children, key, low, middle)

find_child(nodes, node, key) ==
    LET children == nodes[node].children
        Found(at) == IF at \in DOMAIN children /\ nodes[children[at]].key = key THEN children[at] ELSE 0
    IN  Found(IF Len(children) <= kLinearSearchMaximumChildren
              THEN SelectInSeq(children, LAMBDA child : nodes[child].key = key)
              ELSE LowerBound(nodes, children, key, 1, Len(children) + 1))

RECURSIVE Reach(_, _, _)
Reach(nodes, node, keys) ==
    IF node = 0 \/ keys = <<>> THEN node ELSE Reach(nodes, find_child(nodes, node, Head(keys)), Tail(keys))

find_node(nodes, keys) == Reach(nodes, 1, keys)

Ends(nodes, node) == node # 0 /\ nodes[node].sequence_end

contains(nodes, keys) == Ends(nodes, find_node(nodes, keys))

find(nodes, keys) ==
    LET At(node) == IF Ends(nodes, node) THEN nodes[node].value ELSE NoValue
    IN  At(find_node(nodes, keys))

AddChild(nodes, node, key) ==
    LET children == nodes[node].children
    IN  [Append(nodes, NewNode(key)) EXCEPT ![node].children =
             InsertAt(@, LowerBound(nodes, children, key, 1, Len(children) + 1), Len(nodes) + 1)]

RECURSIVE InsertBelow(_, _, _, _)
InsertBelow(nodes, node, keys, value) ==
    LET Into(child) ==
            IF child # 0 THEN InsertBelow(nodes, child, Tail(keys), value)
            ELSE InsertBelow(AddChild(nodes, node, Head(keys)), Len(nodes) + 1, Tail(keys), value)
    IN  IF keys = <<>> THEN [nodes EXCEPT ![node].sequence_end = TRUE, ![node].value = value]
        ELSE Into(find_child(nodes, node, Head(keys)))

insert(nodes, keys, value) == InsertBelow(nodes, 1, keys, value)

(* Nodes are kept, so that indexes held elsewhere stay valid. *)
erase(nodes, keys) ==
    LET Unset(node) ==
            IF Ends(nodes, node)
            THEN [nodes EXCEPT ![node].sequence_end = FALSE, ![node].value = NoValue]
            ELSE nodes
    IN  Unset(find_node(nodes, keys))

RECURSIVE collect_completions(_, _, _)
collect_completions(nodes, node, keys) ==
    LET children == nodes[node].children
        own == IF nodes[node].sequence_end THEN <<keys>> ELSE <<>>
        below == [i \in DOMAIN children |->
                     collect_completions(nodes, children[i], Append(keys, nodes[children[i]].key))]
    IN  own \o FlattenSeq(below)

completions(nodes, prefix) ==
    LET Under(node) == IF node = 0 THEN <<>> ELSE collect_completions(nodes, node, prefix)
    IN  Under(find_node(nodes, prefix))
=============================================================================
