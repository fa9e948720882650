------------------------------- MODULE TurnTree -------------------------------
(***************************************************************************)
(* Address allocation in canvas/turn: reply_to() and append_part() reserve  *)
(* the next child ordinal of a committed Turn with a compare-and-swap loop, *)
(* any number of them at once under the shared side of the canvas's         *)
(* state_mutex; apply() and rebuild() change the Trie under its exclusive   *)
(* side.  A Turn's address is <<parent, kind, ordinal>>.                    *)
(***************************************************************************)
EXTENDS Naturals, FiniteSetsExt

CONSTANTS
  Reservers,   \* callers of reply_to() and append_part()
  Parents,     \* addresses that may be replied to
  MaxOrdinal   \* std::numeric_limits<std::uint32_t>::max()

Root == <<>>
Kinds == {"NUMERIC", "ALPHABETIC"}
Ordinals == 1..MaxOrdinal
Addresses == Parents \X Kinds \X Ordinals

ASSUME TreeAssumption ==
  /\ MaxOrdinal \in Nat \ {0}
  /\ Root \in Parents
  /\ Parents \ {Root} \subseteq Addresses

VARIABLES
  durable,  \* the database's Turns
  tree,     \* Turns in the Trie
  next,     \* next_numeric_child_ and next_alphabetic_child_; 0 is exhausted
  issued,   \* addresses reserved by this process
  local     \* what a thread inside the loop loaded, and from which allocator

treeVars == <<durable, tree, next, issued, local>>

IdleCall == <<>>

TreeInit ==
  /\ durable = {} /\ tree = {} /\ issued = {}
  /\ next = [p \in Parents |-> [k \in Kinds |-> 1]]
  /\ local = [t \in Reservers |-> IdleCall]

TreeTypeOK ==
  /\ durable \subseteq Addresses
  /\ tree \subseteq durable
  /\ issued \subseteq Addresses
  /\ next \in [Parents -> [Kinds -> 0..MaxOrdinal]]
  /\ local \in [Reservers -> (Parents \X Kinds \X (0..MaxOrdinal)) \cup {IdleCall}]

\* The shared lock is free.
Exclusive == \A t \in Reservers : local[t] = IdleCall

InTrie(p) == p = Root \/ p \in tree

-----------------------------------------------------------------------------
\* allocate_child

\* The lookups, and the load before the loop.
Load(t, p, k) ==
  /\ local[t] = IdleCall
  /\ InTrie(p)
  /\ p = Root => k = "NUMERIC"
  /\ local' = [local EXCEPT ![t] = <<p, k, next[p][k]>>]
  /\ UNCHANGED <<durable, tree, next, issued>>

\* Zero marks an allocator that has no representable ordinal left.
Successor(ordinal) == IF ordinal = MaxOrdinal THEN 0 ELSE ordinal + 1

Exhausted(t) ==
  /\ local[t] # IdleCall
  /\ local[t][3] = 0
  /\ local' = [local EXCEPT ![t] = IdleCall]
  /\ UNCHANGED <<durable, tree, next, issued>>

UnchangedAssumed(t) == TRUE

\* No other thread has reserved the loaded ordinal since.
UnchangedSince(t) == next[local[t][1]][local[t][2]] = local[t][3]

\* compare_exchange_weak: reserves the loaded ordinal or loads the current one.
CompareExchange(t) ==
  LET p == local[t][1]
      k == local[t][2]
      ordinal == local[t][3]
  IN  /\ local[t] # IdleCall
      /\ ordinal # 0
      /\ IF UnchangedSince(t)
           THEN /\ next' = [next EXCEPT ![p][k] = Successor(ordinal)]
                /\ issued' = issued \cup {local[t]}
                /\ local' = [local EXCEPT ![t] = IdleCall]
           ELSE /\ local' = [local EXCEPT ![t] = <<p, k, next[p][k]>>]
                /\ UNCHANGED <<next, issued>>
      /\ UNCHANGED <<durable, tree>>

-----------------------------------------------------------------------------
\* Materialization

\* The pipeline stores a Turn, addressed by reply_to() or by its sender.
Persist(a) ==
  /\ a \notin durable
  /\ a[1] = Root \/ a[1] \in durable
  /\ a[1] = Root => a[2] = "NUMERIC"
  /\ durable' = durable \cup {a}
  /\ UNCHANGED <<tree, next, issued, local>>

\* advance_past: never backwards, and never out of exhaustion.
AdvancePast(current, ordinal) ==
  LET desired == Successor(ordinal)
  IN  IF current # 0 /\ (desired = 0 \/ current < desired) THEN desired ELSE current

\* apply(): a new node of the Trie has fresh allocators.
Apply(a) ==
  /\ Exclusive
  /\ a \in durable \ tree
  /\ InTrie(a[1])
  /\ tree' = tree \cup {a}
  /\ next' = [p \in Parents |-> [k \in Kinds |->
                IF p = a THEN 1
                ELSE IF p = a[1] /\ k = a[2] THEN AdvancePast(next[p][k], a[3])
                ELSE next[p][k]]]
  /\ UNCHANGED <<durable, issued, local>>

\* The allocator a candidate tree reaches by applying these ordinals: the
\* least one above them all.
Rebuilt(used) ==
  LET above == {n \in Ordinals : \A o \in used : o < n}
  IN  IF above = {} THEN 0 ELSE Min(above)

UsedBelow(p, k) == {o \in Ordinals : <<p, k, o>> \in durable}

\* preserve_watermark: the later of the two allocators.
PreserveWatermark(current, rebuilt) ==
  IF current = 0 \/ rebuilt = 0 THEN 0
  ELSE IF current > rebuilt THEN current ELSE rebuilt

\* rebuild() from every durable Turn; nodes in both trees keep their
\* reservations.
Rebuild ==
  /\ Exclusive
  /\ tree' = durable
  /\ next' = [p \in Parents |-> [k \in Kinds |->
                LET rebuilt == Rebuilt(UsedBelow(p, k))
                IN  IF InTrie(p) THEN PreserveWatermark(next[p][k], rebuilt) ELSE rebuilt]]
  /\ UNCHANGED <<durable, issued, local>>

\* A new process starts from the durable Turns; reservations are forgotten.
Restart ==
  /\ tree' = durable
  /\ next' = [p \in Parents |-> [k \in Kinds |-> Rebuilt(UsedBelow(p, k))]]
  /\ issued' = {}
  /\ local' = [t \in Reservers |-> IdleCall]
  /\ UNCHANGED durable

-----------------------------------------------------------------------------

TreeNext ==
  \/ \E t \in Reservers :
       \/ \E p \in Parents, k \in Kinds : Load(t, p, k)
       \/ Exhausted(t)
       \/ CompareExchange(t)
  \/ \E a \in Addresses : Persist(a) \/ Apply(a)
  \/ Rebuild
  \/ Restart

TreeSpec == TreeInit /\ [][TreeNext]_treeVars

-----------------------------------------------------------------------------
\* Properties

(* Every ordinal reserved in this process or held by a Turn of the Trie is  *)
(* below its parent's allocator, which is otherwise exhausted.              *)
Watermark ==
  \A p \in Parents, k \in Kinds, o \in Ordinals :
    <<p, k, o>> \in issued \cup tree => next[p][k] = 0 \/ o < next[p][k]

(* reply_to() and append_part() never return an address that they returned  *)
(* before or that a Turn of the Trie has, whatever ran at the same time.    *)
FreshIssue ==
  \A t \in Reservers :
    CompareExchange(t) /\ local'[t] = IdleCall => local[t] \notin issued \cup tree

(* ADDRESS_EXHAUSTED is truthful: an allocator is exhausted only if its     *)
(* last ordinal was reserved by this process or is the address of a Turn.   *)
ExhaustedTruthfully ==
  \A p \in Parents, k \in Kinds :
    next[p][k] = 0 => <<p, k, MaxOrdinal>> \in issued \cup tree

(* Allocators never lag behind a reservation or a Turn and are exhausted    *)
(* only when they must be, and what reply_to() and append_part() return is  *)
(* fresh.                                                                   *)
AddressesSound == [][FreshIssue /\ Watermark' /\ ExhaustedTruthfully']_treeVars

=============================================================================
