---------------------------- MODULE Presentation ----------------------------
(***************************************************************************)
(* The presentation of a Canvas: an immutable treap of Turn identities,    *)
(* keyed by address, whose nodes are stored under the hash of their        *)
(* content, and the durable chain of its commits.  An insertion is         *)
(* prepared on the root in memory and committed later; in between other    *)
(* insertions commit, COMMIT fails or answers with an error although it is *)
(* durable, and the process ends and starts again.                         *)
(*                                                                         *)
(* A Turn is the text of its address, as in human_address; texts are byte  *)
(* sequences.  SHA-256 is external: the hash of a node stands for the      *)
(* canonical bytes themselves, and the priority of a Turn is any number.   *)
(***************************************************************************)
EXTENDS Integers, Sequences, FiniteSets

CONSTANTS Addresses,   \* the addresses of the Turns that complete
          Priorities,  \* the values the leading bytes of a digest take
          MaxFaults    \* bound on the failures and crashes

VARIABLES priorityOf,  \* what priority() computes for each Turn
          durable,     \* presentations.root_hash, presentation_nodes and
                       \* presentation_commits
          root,        \* PresentationTree::root_
          pending,     \* what linearize() prepared for the runs in flight
          faults

vars == <<priorityOf, durable, root, pending, faults>>

-----------------------------------------------------------------------------
(* Addresses.                                                              *)

Dot == 46
Digit(byte) == byte \in 48 .. 57
Letter(byte) == byte \in 97 .. 122

RECURSIVE Number(_, _, _)
Number(text, base, zero) ==
  IF text = <<>> THEN 0
  ELSE base * Number(SubSeq(text, 1, Len(text) - 1), base, zero)
       + (text[Len(text)] - zero)

\* An optional component is a sequence of at most one.
parse_component(text) ==
  CASE text # <<>> /\ text[1] # 48 /\ (\A i \in DOMAIN text : Digit(text[i])) ->
         << [kind |-> "NUMERIC", ordinal |-> Number(text, 10, 48)] >>
    [] text # <<>> /\ (\A i \in DOMAIN text : Letter(text[i])) ->
         << [kind |-> "ALPHABETIC", ordinal |-> Number(text, 26, 96)] >>
    [] OTHER -> <<>>

\* <<>> when some component is refused.  A trailing dot ends the address.
RECURSIVE parse(_)
parse(text) ==
  LET dots == {i \in DOMAIN text : text[i] = Dot}
      first == CHOOSE i \in dots : \A j \in dots : i <= j
      head == IF dots = {} THEN text ELSE SubSeq(text, 1, first - 1)
      rest == IF dots = {} THEN <<>> ELSE SubSeq(text, first + 1, Len(text))
      component == parse_component(head)
  IN  CASE component = <<>> -> <<>>
        [] rest = <<>> -> component
        [] parse(rest) = <<>> -> <<>>
        [] OTHER -> component \o parse(rest)

RECURSIVE decimal(_)
decimal(n) == IF n = 0 THEN <<>> ELSE decimal(n \div 10) \o <<48 + (n % 10)>>

\* Digits of a numbering without zero: a .. z, aa, ab ...
RECURSIVE alphabetic(_)
alphabetic(n) ==
  IF n = 0 THEN <<>> ELSE alphabetic((n - 1) \div 26) \o <<97 + ((n - 1) % 26)>>

RECURSIVE string(_)
string(address) ==
  LET last == address[Len(address)]
      text == IF last.kind = "NUMERIC" THEN decimal(last.ordinal)
              ELSE alphabetic(last.ordinal)
  IN  IF Len(address) = 1 THEN text
      ELSE string(SubSeq(address, 1, Len(address) - 1)) \o <<Dot>> \o text

\* Lexicographic order of two sequences whose elements Less orders.
LexLess(s, t, Less(_, _)) ==
  LET differ == {i \in DOMAIN s \cap DOMAIN t : s[i] # t[i]}
      first == CHOOSE i \in differ : \A j \in differ : i <= j
  IN  IF differ = {} THEN Len(s) < Len(t) ELSE Less(s[first], t[first])

ComponentLess(a, b) ==
  IF a.kind # b.kind THEN a.kind = "NUMERIC" ELSE a.ordinal < b.ordinal

address_less(a, b) == LexLess(a, b, ComponentLess)

ByteLess(a, b) == a < b

PresentedTurns == {string(a) : a \in Addresses}

-----------------------------------------------------------------------------
(* The treap.  A node is <<turn, left hash, right hash>>.                  *)

Empty == <<>>

\* The order of the texts alone.
Before_by_text(t, u) == LexLess(t, u, ByteLess)

Before(t, u) == address_less(parse(t), parse(u))

\* Ties go to the smaller text.
above(t, u) ==
  \/ priorityOf[t] < priorityOf[u]
  \/ priorityOf[t] = priorityOf[u] /\ LexLess(t, u, ByteLess)

\* pending first, then the datastore.
Loads(hash, nodes) == hash \in nodes \cup durable.nodes

Failed(status) == [status |-> status, nodes |-> {}, root |-> Empty, right |-> Empty]

retain(node, nodes) ==
  [status |-> "OK", nodes |-> nodes \cup {node}, root |-> node, right |-> Empty]

\* The root of a cut tree goes to the side it belongs to, above what is left
\* of the child s that was cut.
Rehung(tree, low, s) ==
  LET kept == IF low THEN <<tree[1], tree[2], s.root>>
              ELSE <<tree[1], s.right, tree[3]>>
  IN  IF s.status # "OK" THEN s
      ELSE [status |-> "OK", nodes |-> s.nodes \cup {kept},
            root |-> IF low THEN kept ELSE s.root,
            right |-> IF low THEN s.right ELSE kept]

\* Cut a tree into the keys below and those at or above key: root and right.
RECURSIVE split(_, _, _)
split(tree, key, nodes) ==
  IF tree = Empty
  THEN [status |-> "OK", nodes |-> nodes, root |-> Empty, right |-> Empty]
  ELSE IF ~Loads(tree, nodes) THEN Failed("NOT_FOUND")
  ELSE IF Before(tree[1], key)
  THEN Rehung(tree, TRUE, split(tree[3], key, nodes))
  ELSE Rehung(tree, FALSE, split(tree[2], key, nodes))

\* The Turn above the two halves of the tree it displaces.
Crowned(turn, s) ==
  IF s.status # "OK" THEN s ELSE retain(<<turn, s.root, s.right>>, s.nodes)

\* The tree with a new child c, on the left or on the right.
Grown(tree, low, c) ==
  IF c.status # "OK" THEN c
  ELSE retain(IF low THEN <<tree[1], c.root, tree[3]>>
              ELSE <<tree[1], tree[2], c.root>>, c.nodes)

RECURSIVE insert(_, _, _)
insert(tree, turn, nodes) ==
  CASE tree = Empty -> retain(<<turn, Empty, Empty>>, nodes)
    [] tree # Empty /\ ~Loads(tree, nodes) -> Failed("NOT_FOUND")
    [] tree # Empty /\ Loads(tree, nodes) /\ parse(tree[1]) = parse(turn) ->
         Failed("ALREADY_EXISTS")
    [] OTHER ->
         IF above(turn, tree[1]) THEN Crowned(turn, split(tree, turn, nodes))
         ELSE IF Before(turn, tree[1])
         THEN Grown(tree, TRUE, insert(tree[2], turn, nodes))
         ELSE Grown(tree, FALSE, insert(tree[3], turn, nodes))

Update(tree, result) ==
  [status |-> result.status, previous |-> tree, new |-> result.root,
   nodes |-> result.nodes]

prepare_insert(tree, turn) == Update(tree, insert(tree, turn, {}))

\* In-order walk over stored nodes; <<>> with "NOT_FOUND" if one is missing.
RECURSIVE collect(_)
collect(tree) ==
  IF tree = Empty THEN [status |-> "OK", turns |-> <<>>]
  ELSE IF ~Loads(tree, {}) THEN [status |-> "NOT_FOUND", turns |-> <<>>]
  ELSE LET left == collect(tree[2])
           right == collect(tree[3])
       IN  IF left.status # "OK" THEN left
           ELSE [status |-> right.status,
                 turns |-> left.turns \o <<tree[1]>> \o right.turns]

-----------------------------------------------------------------------------
(* The datastore.                                                          *)

\* The stored root is not compared.
invalid_state_never(p) == FALSE

\* The stored root must be the one the update was prepared on.
invalid_state(p) == durable.root # p.previous

\* presentation_commits_by_turn is a unique index.
duplicate(turn) == \E c \in durable.commits : c.turn = turn

\* Nodes, chain entry and root, in one transaction.
Stored(p, turn) ==
  [root |-> p.new, nodes |-> durable.nodes \cup p.nodes,
   commits |-> durable.commits \cup {[root |-> p.new, previous |-> p.previous,
                                      turn |-> turn]}]

-----------------------------------------------------------------------------
(* The runs of the turn pipeline.                                          *)

NotPrepared == [status |-> "NONE"]
\* The run ended, or failed and is left to the next start's recovery.
Over == [status |-> "OVER"]

Init ==
  /\ priorityOf \in [PresentedTurns -> Priorities]
  /\ durable = [root |-> Empty, nodes |-> {}, commits |-> {}]
  /\ root = Empty
  /\ pending = [t \in PresentedTurns |-> NotPrepared]
  /\ faults = 0

linearize(t) ==
  /\ pending[t] = NotPrepared
  /\ \E p \in {prepare_insert(root, t)} :
       \/ /\ p.status = "OK"
          /\ pending' = [pending EXCEPT ![t] = p]
          /\ UNCHANGED faults
       \/ /\ p.status = "OK" => faults < MaxFaults  \* a node cannot be read
          /\ pending' = [pending EXCEPT ![t] = Over]
          /\ faults' = IF p.status = "OK" THEN faults + 1 ELSE faults
  /\ UNCHANGED <<priorityOf, durable, root>>

\* A failed transaction leaves the root it was prepared on in memory.
Ends(t, p, outcome) ==
  /\ pending' = [pending EXCEPT ![t] = Over]
  /\ durable' = IF outcome = "error" THEN durable ELSE Stored(p, t)
  /\ root' = IF outcome = "ok" THEN p.new ELSE p.previous
  /\ faults' = IF outcome = "ok" THEN faults ELSE faults + 1

\* Prepare again if the root in memory moved.
Prepared(t) ==
  IF pending[t].previous # root THEN prepare_insert(root, t) ELSE pending[t]

\* Once more on the durable root if the datastore answers INVALID_STATE.
Accepted(t, p) ==
  IF p.status = "OK" /\ invalid_state(p) THEN prepare_insert(durable.root, t) ELSE p

commit(t) ==
  /\ pending[t].status = "OK"
  /\ \E p \in {Prepared(t)} : \E update \in {Accepted(t, p)} :
       LET accepted == update.status = "OK" /\ ~duplicate(t) IN
       \/ /\ accepted
          /\ \E outcome \in {"ok", "error", "unknown"} :
               (outcome # "ok" => faults < MaxFaults) /\ Ends(t, update, outcome)
       \/ /\ accepted => faults < MaxFaults  \* a node or the root cannot be read
          /\ pending' = [pending EXCEPT ![t] = Over]
          /\ root' \in IF p.status = "OK" THEN {root, update.previous} ELSE {root}
          /\ faults' = IF accepted THEN faults + 1 ELSE faults
          /\ UNCHANGED durable
  /\ UNCHANGED priorityOf

\* The process ends; the next one takes its root from load_root and, from
\* load_committed_turn_addresses, the Turns that are still to be inserted.
Restart ==
  /\ faults < MaxFaults /\ faults' = faults + 1
  /\ root' = durable.root
  /\ pending' = [t \in PresentedTurns |-> IF duplicate(t) THEN Over ELSE NotPrepared]
  /\ UNCHANGED <<priorityOf, durable>>

Next == \/ \E t \in PresentedTurns : linearize(t)
        \/ \E t \in PresentedTurns : commit(t)
        \/ Restart

Spec == Init /\ [][Next]_vars

-----------------------------------------------------------------------------
\* The Turns a committed root stands for, along the chain of commits.
RECURSIVE TurnsOf(_)
TurnsOf(tree) ==
  IF tree = Empty THEN {}
  ELSE LET c == CHOOSE c \in durable.commits : c.root = tree
       IN  {c.turn} \cup TurnsOf(c.previous)

\* Semantic order, from the addresses rather than from their texts.
AddressOf(t) == CHOOSE a \in Addresses : string(a) = t

\* Every root ever committed can still be read in full, whatever happened
\* after it: in-order it lists exactly the Turns committed up to it in the
\* order of their addresses (2 before 10, a parent before its children), and
\* no Turn lies above one that has the smaller priority.  So the tree, and
\* with it the root hash, is a function of the set of Turns and not of the
\* order the runs committed in.  The chain has one end: the durable root
\* holds every Turn that was ever committed.
HistoryReadable ==
  /\ TurnsOf(durable.root) = {c.turn : c \in durable.commits}
  /\ \A c \in durable.commits :
       LET walk == collect(c.root)
           at(i) == AddressOf(walk.turns[i])
       IN  /\ walk.status = "OK"
           /\ {walk.turns[i] : i \in DOMAIN walk.turns} = TurnsOf(c.root)
           /\ \A i, j \in DOMAIN walk.turns :
                i < j => LexLess(at(i), at(j), ComponentLess)
           /\ \A n \in durable.nodes : \A i \in 2 .. 3 :
                n[i] # Empty => ~above(n[i][1], n[1])
=============================================================================
