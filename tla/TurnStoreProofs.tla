---------------------------- MODULE TurnStoreProofs ----------------------------
(***************************************************************************)
(* TLAPS proofs about the store of Turns.  Address allocation (TurnTree) is *)
(* fresh for every number of threads, every set of parents and every width  *)
(* of an ordinal.  The commit path (TurnCommit) forgets nothing for any set *)
(* of Turns and replies, any number of overlapping runs, and crashes and    *)
(* COMMITs of unknown outcome anywhere.                                     *)
(***************************************************************************)
EXTENDS TurnTree, TurnCommit, WellFoundedInduction, TLAPS

-----------------------------------------------------------------------------
\* TurnTree

\* The Trie, the database and the reservations are closed under parents, and
\* a thread is only inside the loop of a parent that the Trie holds.
Rooted ==
  /\ \A a \in durable : a[1] = Root \/ a[1] \in durable
  /\ \A a \in issued \cup tree : InTrie(a[1])
  /\ \A t \in Reservers : local[t] # IdleCall => InTrie(local[t][1])

IInv == TreeTypeOK /\ Rooted /\ Watermark /\ ExhaustedTruthfully
    
-----------------------------------------------------------------------------
\* Allocator arithmetic

(* A nonempty set of ordinals has a least element.                          *)
LEMMA LeastOrdinal ==
  ASSUME NEW S \in SUBSET Ordinals, S # {}
  PROVE  Min(S) \in S
<1> DEFINE less == {ss \in Nat \X Nat : ss[1] < ss[2]}
<1>1. S \subseteq Nat
  BY TreeAssumption DEF Ordinals
<1>2. IsWellFoundedOn(less, Nat)
  BY Zenon, NatLessThanWellFounded DEF OpToRel
<1> HIDE DEF less
<1>3. PICK m \in S : \A y \in S : ~(<<y, m>> \in less)
  BY Zenon, <1>1, <1>2, WFMin
<1>4. ASSUME NEW y \in S
      PROVE  m =< y
  <2>1. y \in Nat /\ m \in Nat
    BY Zenon, <1>1
  <2>2. y < m => <<y, m>> \in less
    BY Zenon, <2>1 DEF less
  <2> QED BY <1>3, <2>1, <2>2
<1> QED BY Zenon, <1>4 DEF Min

(* A rebuilt allocator is above every ordinal in use, and is exhausted only *)
(* if the last one is: what a candidate tree's apply() calls leave behind.   *)
LEMMA RebuiltAbove ==
  ASSUME NEW used \in SUBSET Ordinals
  PROVE  /\ Rebuilt(used) \in 0..MaxOrdinal
         /\ Rebuilt(used) # 0 => \A o \in used : o < Rebuilt(used)
         /\ Rebuilt(used) = 0 => MaxOrdinal \in used
<1> DEFINE above == {n \in Ordinals : \A o \in used : o < n}
<1>1. CASE above = {}
  <2>1. Rebuilt(used) = 0
    BY Zenon, <1>1 DEF Rebuilt
  <2>2. MaxOrdinal \in Ordinals
    BY TreeAssumption DEF Ordinals
  <2>3. PICK o \in used : ~(o < MaxOrdinal)
    BY Zenon, <1>1, <2>2
  <2>4. o = MaxOrdinal
    BY <2>3, TreeAssumption DEF Ordinals
  <2> QED BY <2>1, <2>3, <2>4, TreeAssumption
<1>2. CASE above # {}
  <2>1. Rebuilt(used) = Min(above)
    BY Zenon, <1>2 DEF Rebuilt
  <2>2. Min(above) \in above
    BY Zenon, <1>2, LeastOrdinal
  <2> QED BY <2>1, <2>2, TreeAssumption DEF Ordinals
<1> QED BY Zenon, <1>1, <1>2

(* The successor of an ordinal is above it or marks exhaustion after the    *)
(* last one.                                                                *)
LEMMA SuccessorAbove ==
  ASSUME NEW o \in Ordinals
  PROVE  /\ Successor(o) \in 0..MaxOrdinal
         /\ Successor(o) = 0 => o = MaxOrdinal
         /\ Successor(o) # 0 => Successor(o) = o + 1
BY TreeAssumption DEF Successor, Ordinals

(* advance_past() ends above the ordinal and never moves backwards.         *)
LEMMA AdvancePastAbove ==
  ASSUME NEW o \in Ordinals, NEW c \in 0..MaxOrdinal
  PROVE  /\ AdvancePast(c, o) \in 0..MaxOrdinal
         /\ AdvancePast(c, o) # 0 => o < AdvancePast(c, o) /\ c # 0 /\ c <= AdvancePast(c, o)
         /\ AdvancePast(c, o) = 0 => c = 0 \/ o = MaxOrdinal
BY SuccessorAbove, TreeAssumption DEF AdvancePast, Ordinals

(* preserve_watermark() is at least both allocators.                        *)
LEMMA PreserveAbove ==
  ASSUME NEW c \in 0..MaxOrdinal, NEW r \in 0..MaxOrdinal
  PROVE  LET w == PreserveWatermark(c, r)
         IN  /\ w \in 0..MaxOrdinal
             /\ w # 0 => c # 0 /\ r # 0 /\ c <= w /\ r <= w
             /\ w = 0 => c = 0 \/ r = 0
BY TreeAssumption DEF PreserveWatermark

(* The ordinals in use below an allocator are ordinals.                     *)
LEMMA UsedOrdinals ==
  ASSUME NEW p, NEW k
  PROVE  UsedBelow(p, k) \in SUBSET Ordinals
BY Zenon DEF UsedBelow

-----------------------------------------------------------------------------
\* The inductive invariant

(* An empty database and fresh allocators satisfy the invariant.            *)
LEMMA InitInv == TreeInit => IInv
BY TreeAssumption DEF TreeInit, IInv, TreeTypeOK, Rooted, Watermark, ExhaustedTruthfully,
   IdleCall, Kinds, Ordinals

(* Loading an allocator, finding it exhausted, and storing a Turn leave the *)
(* Trie and its allocators alone.                                           *)
LEMMA QuietStep ==
  ASSUME IInv,
         \/ \E t \in Reservers, p \in Parents, k \in Kinds : Load(t, p, k)
         \/ \E t \in Reservers : Exhausted(t)
         \/ \E a \in Addresses : Persist(a)
  PROVE  IInv'
<1>1. CASE \E t \in Reservers, p \in Parents, k \in Kinds : Load(t, p, k)
  <2>1. PICK t \in Reservers, p \in Parents, k \in Kinds : Load(t, p, k)
    BY Zenon, <1>1
  <2>2. next[p][k] \in 0..MaxOrdinal
    BY Zenon DEF IInv, TreeTypeOK
  <2>3. TreeTypeOK'
    BY Zenon, <2>1, <2>2 DEF IInv, TreeTypeOK, Load
  <2>4. Rooted'
    BY Zenon, <2>1 DEF IInv, TreeTypeOK, Rooted, Load, InTrie
  <2> QED BY Zenon, <2>1, <2>3, <2>4 DEF IInv, Watermark, ExhaustedTruthfully, Load
<1>2. CASE \E t \in Reservers : Exhausted(t)
  <2>1. PICK t \in Reservers : Exhausted(t)
    BY Zenon, <1>2
  <2>2. TreeTypeOK'
    BY Zenon, <2>1 DEF IInv, TreeTypeOK, Exhausted
  <2>3. Rooted'
    BY Zenon, <2>1 DEF IInv, TreeTypeOK, Rooted, Exhausted, InTrie
  <2> QED BY Zenon, <2>1, <2>2, <2>3 DEF IInv, Watermark, ExhaustedTruthfully, Exhausted
<1>3. CASE \E a \in Addresses : Persist(a)
  BY Zenon, <1>3 DEF IInv, TreeTypeOK, Rooted, Watermark, ExhaustedTruthfully, Persist, InTrie
<1> QED BY Zenon, <1>1, <1>2, <1>3

(* A successful compare-and-swap moves the allocator just past the ordinal  *)
(* it reserves.                                                             *)
LEMMA CompareExchangeStep ==
  ASSUME IInv, NEW t \in Reservers, CompareExchange(t)
  PROVE  IInv'
<1> DEFINE p == local[t][1]
           k == local[t][2]
           o == local[t][3]
<1>1. /\ p \in Parents /\ k \in Kinds /\ o \in Ordinals
      /\ local[t] = <<p, k, o>> /\ InTrie(p)
  BY TreeAssumption DEF IInv, TreeTypeOK, Rooted, CompareExchange, Ordinals
<1>2. next \in [Parents -> [Kinds -> 0..MaxOrdinal]]
  BY Zenon DEF IInv, TreeTypeOK
<1>3. UNCHANGED <<durable, tree>>
  BY Zenon DEF CompareExchange
<1>4. CASE ~UnchangedSince(t)
  <2>1. /\ UNCHANGED <<next, issued>>
        /\ local' = [local EXCEPT ![t] = <<p, k, next[p][k]>>]
    BY Zenon, <1>4 DEF CompareExchange
  <2>2. TreeTypeOK'
    BY Zenon, <1>1, <1>2, <1>3, <2>1 DEF IInv, TreeTypeOK
  <2>3. Rooted'
    BY Zenon, <1>1, <1>3, <2>1 DEF IInv, TreeTypeOK, Rooted, InTrie
  <2> QED BY Zenon, <1>3, <2>1, <2>2, <2>3 DEF IInv, Watermark, ExhaustedTruthfully
<1>5. CASE UnchangedSince(t)
  <2>1. /\ next' = [next EXCEPT ![p][k] = Successor(o)]
        /\ issued' = issued \cup {<<p, k, o>>}
        /\ local' = [local EXCEPT ![t] = IdleCall]
        /\ next[p][k] = o
    BY Zenon, <1>1, <1>5 DEF CompareExchange, UnchangedSince
  <2>2. Successor(o) \in 0..MaxOrdinal
    BY Zenon, <1>1, SuccessorAbove
  <2>3. \A q \in Parents, l \in Kinds :
          next'[q][l] = IF q = p /\ l = k THEN Successor(o) ELSE next[q][l]
    BY Zenon, <1>1, <1>2, <2>1
  <2>4. TreeTypeOK'
    BY Zenon, <1>1, <1>2, <1>3, <2>1, <2>2 DEF IInv, TreeTypeOK, Addresses
  <2>5. Rooted'
    BY Zenon, <1>1, <1>3, <2>1 DEF IInv, TreeTypeOK, Rooted, InTrie
  <2>6. Watermark'
    <3> SUFFICES ASSUME NEW q \in Parents, NEW l \in Kinds, NEW n \in Ordinals,
                        <<q, l, n>> \in issued' \cup tree'
                 PROVE  next'[q][l] = 0 \/ n < next'[q][l]
      BY Zenon DEF Watermark
    <3>1. CASE q = p /\ l = k
      <4>1. n = o \/ n < o
        BY <1>1, <1>3, <2>1, <3>1, TreeAssumption DEF IInv, Watermark, Ordinals
      <4>2. Successor(o) = 0 \/ n < Successor(o)
        BY <1>1, <4>1, SuccessorAbove DEF Ordinals
      <4> QED BY Zenon, <2>3, <3>1, <4>2
    <3>2. CASE ~(q = p /\ l = k)
      BY <1>3, <2>1, <2>3, <3>2 DEF IInv, Watermark
    <3> QED BY Zenon, <3>1, <3>2
  <2>7. ExhaustedTruthfully'
    BY <1>1, <1>3, <2>1, <2>3, SuccessorAbove DEF IInv, ExhaustedTruthfully
  <2> QED BY Zenon, <2>4, <2>5, <2>6, <2>7 DEF IInv
<1> QED BY Zenon, <1>4, <1>5

(* apply() moves the parent's allocator past the Turn; the new node starts  *)
(* afresh, and nothing below it was reserved before it was in the Trie.     *)
LEMMA ApplyStep ==
  ASSUME IInv, NEW a \in Addresses, Apply(a)
  PROVE  IInv'
<1>1. /\ a = <<a[1], a[2], a[3]>>
      /\ a[1] \in Parents /\ a[2] \in Kinds /\ a[3] \in Ordinals
  BY DEF Addresses
<1>2. next \in [Parents -> [Kinds -> 0..MaxOrdinal]]
  BY Zenon DEF IInv, TreeTypeOK
<1>3. /\ a \in durable \ tree /\ InTrie(a[1])
      /\ tree' = tree \cup {a}
      /\ UNCHANGED <<durable, issued, local>>
  BY Zenon DEF Apply
<1> DEFINE w(q, l) == IF q = a THEN 1
                      ELSE IF q = a[1] /\ l = a[2] THEN AdvancePast(next[q][l], a[3])
                      ELSE next[q][l]
<1>4. next' = [q \in Parents |-> [l \in Kinds |-> w(q, l)]]
  BY Zenon DEF Apply
<1>5. \A q \in Parents, l \in Kinds : next'[q][l] = w(q, l) /\ w(q, l) \in 0..MaxOrdinal
  BY <1>1, <1>2, <1>4, AdvancePastAbove, TreeAssumption
<1>6. TreeTypeOK'
  <2>1. next' \in [Parents -> [Kinds -> 0..MaxOrdinal]]
    BY Zenon, <1>4, <1>5
  <2> QED BY Zenon, <1>3, <2>1 DEF IInv, TreeTypeOK
<1>7. Rooted'
  BY Zenon, <1>3 DEF IInv, Rooted, InTrie
<1>8. ASSUME NEW q \in Parents, q = a, NEW l \in Kinds, NEW n \in Ordinals
      PROVE  <<q, l, n>> \notin issued' \cup tree'
  <2>1. ~InTrie(a)
    BY <1>1, <1>3 DEF InTrie, Root
  <2>2. <<a, l, n>> # a
    BY <1>3, <2>1 DEF IInv, TreeTypeOK, InTrie
  <2>3. <<a, l, n>> \notin issued \cup tree
    BY Zenon, <2>1 DEF IInv, Rooted
  <2> QED BY Zenon, <1>3, <1>8, <2>2, <2>3
<1>9. Watermark'
  <2> SUFFICES ASSUME NEW q \in Parents, NEW l \in Kinds, NEW n \in Ordinals,
                      <<q, l, n>> \in issued' \cup tree'
               PROVE  next'[q][l] = 0 \/ n < next'[q][l]
    BY Zenon DEF Watermark
  <2>1. q # a
    BY Zenon, <1>8
  <2>2. CASE q = a[1] /\ l = a[2]
    <3>1. n = a[3] \/ next[q][l] = 0 \/ n < next[q][l]
      BY <1>1, <1>3, <2>2 DEF IInv, Watermark
    <3>2. next[q][l] \in 0..MaxOrdinal /\ next'[q][l] = AdvancePast(next[q][l], a[3])
      BY Zenon, <1>2, <1>5, <2>1, <2>2
    <3> QED BY <1>1, <3>1, <3>2, AdvancePastAbove, TreeAssumption DEF Ordinals
  <2>3. CASE ~(q = a[1] /\ l = a[2])
    <3>1. next'[q][l] = next[q][l] /\ <<q, l, n>> \in issued \cup tree
      BY <1>1, <1>3, <1>5, <2>1, <2>3
    <3> QED BY Zenon, <3>1 DEF IInv, Watermark
  <2> QED BY Zenon, <2>2, <2>3
<1>10. ExhaustedTruthfully'
  <2> SUFFICES ASSUME NEW q \in Parents, NEW l \in Kinds, next'[q][l] = 0
               PROVE  <<q, l, MaxOrdinal>> \in issued' \cup tree'
    BY Zenon DEF ExhaustedTruthfully
  <2>1. q # a
    BY <1>5
  <2>2. next[q][l] = 0 \/ (q = a[1] /\ l = a[2] /\ a[3] = MaxOrdinal)
    BY <1>1, <1>2, <1>5, <2>1, AdvancePastAbove
  <2> QED BY Zenon, <1>1, <1>3, <2>2 DEF IInv, ExhaustedTruthfully
<1> QED BY Zenon, <1>6, <1>7, <1>9, <1>10 DEF IInv

(* rebuild() and a restart leave every allocator above the durable ordinals *)
(* below it; rebuild() also keeps it above this process's reservations.     *)
LEMMA RebuildStep ==
  ASSUME IInv, Rebuild \/ Restart
  PROVE  IInv'
<1> DEFINE r(q, l) == Rebuilt(UsedBelow(q, l))
           w(q, l) == IF InTrie(q) THEN PreserveWatermark(next[q][l], r(q, l)) ELSE r(q, l)
<1>1. /\ next \in [Parents -> [Kinds -> 0..MaxOrdinal]]
      /\ tree' = durable /\ durable' = durable
  BY Zenon DEF IInv, TreeTypeOK, Rebuild, Restart
<1>2. ASSUME NEW q \in Parents, NEW l \in Kinds
      PROVE  /\ r(q, l) \in 0..MaxOrdinal
             /\ r(q, l) # 0 => \A n \in Ordinals : <<q, l, n>> \in tree' => n < r(q, l)
             /\ r(q, l) = 0 => <<q, l, MaxOrdinal>> \in tree'
  BY Zenon, <1>1, UsedOrdinals, RebuiltAbove DEF UsedBelow
<1>3. CASE Restart
  <2>1. /\ next' = [q \in Parents |-> [l \in Kinds |-> r(q, l)]]
        /\ issued' = {} /\ local' = [t \in Reservers |-> IdleCall]
    BY Zenon, <1>3 DEF Restart
  <2> HIDE DEF r
  <2>2. TreeTypeOK'
    BY Zenon, <1>1, <1>2, <2>1 DEF IInv, TreeTypeOK
  <2>3. Rooted'
    BY Zenon, <1>1, <2>1 DEF IInv, Rooted, InTrie
  <2>4. Watermark' /\ ExhaustedTruthfully'
    BY Zenon, <1>2, <2>1 DEF Watermark, ExhaustedTruthfully
  <2> QED BY Zenon, <2>2, <2>3, <2>4 DEF IInv
<1>4. CASE Rebuild
  <2>1. /\ next' = [q \in Parents |-> [l \in Kinds |-> w(q, l)]]
        /\ UNCHANGED <<issued, local>>
    BY Zenon, <1>4 DEF Rebuild
  <2> HIDE DEF r
  <2>2. ASSUME NEW q \in Parents, NEW l \in Kinds
        PROVE  /\ w(q, l) \in 0..MaxOrdinal
               /\ InTrie(q) /\ w(q, l) # 0 => next[q][l] # 0 /\ next[q][l] <= w(q, l)
               /\ w(q, l) # 0 => r(q, l) # 0 /\ r(q, l) <= w(q, l)
               /\ w(q, l) = 0 => next[q][l] = 0 \/ r(q, l) = 0
    <3>1. r(q, l) \in 0..MaxOrdinal /\ next[q][l] \in 0..MaxOrdinal
      BY Zenon, <1>1, <1>2
    <3>2. CASE InTrie(q)
      <4>1. w(q, l) = PreserveWatermark(next[q][l], r(q, l))
        BY Zenon, <3>2
      <4> HIDE DEF w
      <4> QED BY ZenonT(30), <3>1, <4>1, PreserveAbove
    <3>3. CASE ~InTrie(q)
      BY <3>1, <3>3, TreeAssumption
    <3> QED BY Zenon, <3>2, <3>3
  <2> HIDE DEF w
  <2>3. \A q \in Parents, l \in Kinds : next'[q][l] = w(q, l)
    BY Zenon, <2>1
  <2>4. TreeTypeOK'
    BY Zenon, <1>1, <2>1, <2>2 DEF IInv, TreeTypeOK
  <2>5. Rooted'
    BY Zenon, <1>1, <2>1 DEF IInv, TreeTypeOK, Rooted, InTrie
  <2>6. Watermark'
    <3> SUFFICES ASSUME NEW q \in Parents, NEW l \in Kinds, NEW n \in Ordinals,
                        <<q, l, n>> \in issued' \cup tree', next'[q][l] # 0
                 PROVE  n < next'[q][l]
      BY Zenon DEF Watermark
    <3>1. CASE <<q, l, n>> \in tree'
      <4>1. w(q, l) # 0 /\ w(q, l) \in 0..MaxOrdinal /\ r(q, l) # 0 /\ r(q, l) <= w(q, l)
        BY Zenon, <2>2, <2>3
      <4>2. r(q, l) \in 0..MaxOrdinal /\ n < r(q, l)
        BY Zenon, <1>2, <3>1, <4>1
      <4> QED BY <2>3, <4>1, <4>2, TreeAssumption DEF Ordinals
    <3>2. CASE <<q, l, n>> \in issued'
      <4>1. InTrie(q) /\ (next[q][l] = 0 \/ n < next[q][l])
        BY <2>1, <3>2 DEF IInv, Rooted, Watermark
      <4> QED BY <1>1, <2>2, <2>3, <4>1, TreeAssumption DEF Ordinals
    <3> QED BY Zenon, <3>1, <3>2
  <2>7. ExhaustedTruthfully'
    BY Zenon, <1>1, <1>2, <2>1, <2>2, <2>3 DEF IInv, TreeTypeOK, ExhaustedTruthfully
  <2> QED BY Zenon, <2>4, <2>5, <2>6, <2>7 DEF IInv
<1> QED BY Zenon, <1>3, <1>4

(* Every step keeps the invariant.                                          *)
LEMMA StepInv == IInv /\ [TreeNext]_treeVars => IInv'
<1> SUFFICES ASSUME IInv, [TreeNext]_treeVars
             PROVE  IInv'
  BY Zenon
<1>1. CASE UNCHANGED treeVars
  BY Zenon, <1>1 DEF IInv, TreeTypeOK, Rooted, Watermark, ExhaustedTruthfully, InTrie, treeVars
<1>2. CASE TreeNext
  BY Zenon, <1>2, QuietStep, CompareExchangeStep, ApplyStep, RebuildStep DEF TreeNext
<1> QED BY Zenon, <1>1, <1>2

(* The allocators bound every reservation and every Turn of the Trie, and   *)
(* are exhausted truthfully, through any interleaving of reply_to(),        *)
(* append_part(), apply(), rebuild() and restarts.                          *)
THEOREM AllocatorsSound == TreeSpec => [](TreeTypeOK /\ Watermark /\ ExhaustedTruthfully)
<1>1. TreeSpec => []IInv
  BY InitInv, StepInv, PTL DEF TreeSpec
<1>2. IInv => TreeTypeOK /\ Watermark /\ ExhaustedTruthfully
  BY Zenon DEF IInv
<1> QED BY <1>1, <1>2, PTL

(* No address is handed out twice by one process, and none that a Turn of   *)
(* the Trie has.                                                            *)
THEOREM AddressesFresh == TreeSpec => [][FreshIssue]_treeVars
<1>1. TreeSpec => []IInv
  BY InitInv, StepInv, PTL DEF TreeSpec
<1>2. ASSUME IInv
      PROVE  FreshIssue
  <2> SUFFICES ASSUME NEW t \in Reservers, CompareExchange(t), local'[t] = IdleCall
               PROVE  local[t] \notin issued \cup tree
    BY Zenon DEF FreshIssue
  <2>1. PICK p \in Parents, k \in Kinds, o \in Ordinals : local[t] = <<p, k, o>>
    BY <1>2, TreeAssumption DEF IInv, TreeTypeOK, CompareExchange, Ordinals
  <2>2. UnchangedSince(t)
    <3> SUFFICES ASSUME ~UnchangedSince(t)
                 PROVE  FALSE
      BY Zenon
    <3>1. local' = [local EXCEPT ![t] = <<p, k, next[p][k]>>]
      BY <2>1 DEF CompareExchange
    <3>2. local'[t] = <<p, k, next[p][k]>>
      BY Zenon, <1>2, <3>1 DEF IInv, TreeTypeOK
    <3>3. <<p, k, next[p][k]>> # <<>>
      BY Zenon
    <3> QED BY Zenon, <3>2, <3>3 DEF IdleCall
  <2>3. next[p][k] = o
    BY <2>1, <2>2 DEF UnchangedSince
  <2> QED BY <1>2, <2>1, <2>3, TreeAssumption DEF IInv, Watermark, Ordinals
<1> QED BY <1>1, <1>2, PTL

(* Allocators are sound and every address handed out is fresh, for every    *)
(* ordinal width, any number of parents and of threads.                     *)
THEOREM AddressesCorrect == TreeSpec => AddressesSound
  BY AllocatorsSound, AddressesFresh, PTL DEF AddressesSound

-----------------------------------------------------------------------------
\* TurnCommit

(***************************************************************************)
(* The inductive invariant.  NothingForgotten is not inductive by itself:   *)
(* a commit writes the root it prepared, so what a run has prepared must    *)
(* add exactly its own Turn; that Turn must be durable; and during recovery *)
(* the in-memory root must be the durable one.  TrieSound needs that the    *)
(* database is closed under parents, because rebuild() takes all of it.     *)
(***************************************************************************)

\* A run that has persisted its Turn, which is durable from then on.
Persisted(r) == stage[r] \in Handlers \ {"persist_turn"}

RunsSound ==
  \A r \in CommitRuns :
    /\ stage[r] # "idle" => up = "running" /\ turn[r] \in Turns
    /\ Persisted(r) => turn[r] \in turns
    /\ stage[r] = "commit" => pending[r].new = pending[r].previous \cup {turn[r]}

\* Every durable Turn has its parent, and recovery works on the durable root.
DatabaseSound ==
  /\ \A t \in turns : HasParent(t, turns)
  /\ up = "reconciling" => treeRoot = root

CommitInv == CommitTypeOK /\ CommitSound /\ RunsSound /\ DatabaseSound

-----------------------------------------------------------------------------

(* A fresh process over an empty database.                                  *)
LEMMA CommitInvInit == CommitInit => CommitInv
  BY DEF CommitInit, CommitInv, CommitTypeOK, CommitSound, NothingForgotten, TrieSound,
     InFlight, RunsSound, Persisted, DatabaseSound, Nothing, Handlers

(* A step that changes nothing keeps the invariant.                         *)
LEMMA CommitStutter == CommitInv /\ UNCHANGED commitVars => CommitInv'
  BY DEF commitVars, durableVars, memoryVars, inFlightVars, CommitInv, CommitTypeOK,
     CommitSound, NothingForgotten, TrieSound, InFlight, RunsSound, Persisted, DatabaseSound,
     HasParent

(* The durable root after commit(): RootMatches makes the stored root the   *)
(* one the update was prepared on, so that it gains exactly this Turn.      *)
LEMMA CommitAddsItsTurn ==
  ASSUME CommitInv, NEW r \in CommitRuns, stage[r] = "commit"
  PROVE  /\ ToCommit(r).previous = root
         /\ ToCommit(r).new = root \cup {turn[r]}
  BY Zenon DEF CommitInv, RunsSound, ToCommit, FreshUpdate, RootMatches, Prepare

(* Submission of a Turn by the pump.                                        *)
LEMMA SubmitStep ==
  ASSUME CommitInv, NEW r \in CommitRuns, NEW t \in Turns, SubmitTurn(r, t)
  PROVE  CommitInv'
<1>1. /\ UNCHANGED <<turns, ledger, root, trieRoot, up, trie, listed, treeRoot, snapshot,
                     pending, abandoned>>
      /\ up = "running" /\ stage[r] = "idle"
      /\ stage' = [stage EXCEPT ![r] = "persist_turn"] /\ turn' = [turn EXCEPT ![r] = t]
  BY Zenon DEF SubmitTurn, durableVars, memoryVars
<1>2. CommitTypeOK'
  BY Zenon, <1>1 DEF CommitInv, CommitTypeOK, Handlers
<1>3. InFlight \subseteq InFlight'
  BY Zenon, <1>1 DEF InFlight, CommitInv, CommitTypeOK, Handlers
<1>4. CommitSound'
  BY Zenon, <1>1, <1>3 DEF CommitInv, CommitSound, NothingForgotten, TrieSound, HasParent
<1>5. RunsSound'
  BY Zenon, <1>1 DEF CommitInv, CommitTypeOK, RunsSound, Persisted, Handlers
<1>6. DatabaseSound'
  BY Zenon, <1>1 DEF CommitInv, DatabaseSound, HasParent
<1> QED
  BY Zenon, <1>2, <1>4, <1>5, <1>6 DEF CommitInv

(* A run that ends after its Turn is accounted for.                         *)
LEMMA EndKeepsRuns ==
  ASSUME CommitInv, NEW r \in CommitRuns, End(r), turns \subseteq turns', up' = up
  PROVE  /\ RunsSound'
         /\ stage' \in [CommitRuns -> Handlers \cup {"idle"}]
         /\ turn' \in [CommitRuns -> Turns \cup {NoParent}]
         /\ pending' \in [CommitRuns -> [previous : SUBSET Turns, new : SUBSET Turns]]
         /\ InFlight \subseteq InFlight' \cup {turn[r]}
         /\ stage[r] \in {"idle", "persist_turn", "materialize"} =>
              InFlight \subseteq InFlight'
<1>1. /\ stage' = [stage EXCEPT ![r] = "idle"] /\ turn' = [turn EXCEPT ![r] = NoParent]
      /\ pending' = [pending EXCEPT ![r] = Nothing]
  BY Zenon DEF End
<1>2. RunsSound'
  BY Zenon, <1>1 DEF CommitInv, CommitTypeOK, RunsSound, Persisted, Handlers
<1>3. pending' \in [CommitRuns -> [previous : SUBSET Turns, new : SUBSET Turns]]
  BY Zenon, <1>1 DEF CommitInv, CommitTypeOK, Nothing
<1>4. /\ stage' \in [CommitRuns -> Handlers \cup {"idle"}]
      /\ turn' \in [CommitRuns -> Turns \cup {NoParent}]
  BY Zenon, <1>1 DEF CommitInv, CommitTypeOK
<1>5. InFlight \subseteq InFlight' \cup {turn[r]}
  BY Zenon, <1>1 DEF InFlight, CommitInv, CommitTypeOK, Handlers
<1>6. stage[r] \in {"idle", "persist_turn", "materialize"} =>
        InFlight \subseteq InFlight'
  BY Zenon, <1>1 DEF InFlight, CommitInv, CommitTypeOK, Handlers
<1> QED
  BY Zenon, <1>2, <1>3, <1>4, <1>5, <1>6

(* persist_turn: a Turn becomes durable only with its parent, and is then   *)
(* in flight or abandoned.                                                  *)
LEMMA PersistStep ==
  ASSUME TurnsAssumption, CommitInv, NEW r \in CommitRuns, PersistTurn(r)
  PROVE  CommitInv'
<1> DEFINE t == turn[r]
<1>1. /\ UNCHANGED <<ledger, root, trieRoot, up, trie, listed, treeRoot, snapshot>>
      /\ stage[r] = "persist_turn"
  BY Zenon DEF PersistTurn, memoryVars
<1>2. t \in Turns /\ up = "running"
  BY Zenon, <1>1 DEF CommitInv, RunsSound
<1>3. CASE /\ Persistable(t) /\ turns' = turns \cup {t}
           /\ HandOn(r, "update_trie") /\ UNCHANGED <<pending, abandoned>>
  <2>1. stage' = [stage EXCEPT ![r] = "update_trie"] /\ turn' = turn
    BY Zenon, <1>3 DEF HandOn
  <2>2. CommitTypeOK'
    BY Zenon, <1>1, <1>2, <1>3, <2>1 DEF CommitInv, CommitTypeOK, Handlers
  <2>3. InFlight \cup {t} \subseteq InFlight'
    BY Zenon, <1>1, <2>1 DEF InFlight, CommitInv, CommitTypeOK, Handlers
  <2>4. CommitSound'
    BY Zenon, <1>1, <1>3, <2>3 DEF CommitInv, CommitSound, NothingForgotten, TrieSound, HasParent
  <2>5. RunsSound'
    BY Zenon, <1>1, <1>2, <1>3, <2>1 DEF CommitInv, CommitTypeOK, RunsSound, Persisted, Handlers
  <2>6. DatabaseSound'
    BY Zenon, <1>1, <1>3 DEF CommitInv, DatabaseSound, HasParent, Persistable
  <2> QED
    BY Zenon, <2>2, <2>4, <2>5, <2>6 DEF CommitInv
<1>4. CASE End(r) /\ UNCHANGED <<turns, abandoned>>
  <2>1. /\ RunsSound' /\ InFlight \subseteq InFlight'
        /\ stage' \in [CommitRuns -> Handlers \cup {"idle"}]
        /\ turn' \in [CommitRuns -> Turns \cup {NoParent}]
        /\ pending' \in [CommitRuns -> [previous : SUBSET Turns, new : SUBSET Turns]]
    BY Zenon, <1>1, <1>4, EndKeepsRuns
  <2>2. CommitTypeOK'
    BY Zenon, <1>1, <1>4, <2>1 DEF CommitInv, CommitTypeOK
  <2>3. CommitSound'
    BY Zenon, <1>1, <1>4, <2>1 DEF CommitInv, CommitSound, NothingForgotten, TrieSound, HasParent
  <2>4. DatabaseSound'
    BY Zenon, <1>1, <1>4 DEF CommitInv, DatabaseSound, HasParent
  <2> QED
    BY Zenon, <2>1, <2>2, <2>3, <2>4 DEF CommitInv
<1>5. CASE Persistable(t) /\ turns' = turns \cup {t} /\ Abandon(r)
  <2>1. End(r) /\ abandoned' = abandoned \cup {t}
    BY Zenon, <1>5 DEF Abandon
  <2>2. /\ RunsSound' /\ InFlight \subseteq InFlight'
        /\ stage' \in [CommitRuns -> Handlers \cup {"idle"}]
        /\ turn' \in [CommitRuns -> Turns \cup {NoParent}]
        /\ pending' \in [CommitRuns -> [previous : SUBSET Turns, new : SUBSET Turns]]
    BY Zenon, <1>1, <1>5, <2>1, EndKeepsRuns
  <2>3. CommitTypeOK'
    BY Zenon, <1>1, <1>2, <1>5, <2>1, <2>2 DEF CommitInv, CommitTypeOK
  <2>4. CommitSound'
    BY Zenon, <1>1, <1>5, <2>1, <2>2
       DEF CommitInv, CommitSound, NothingForgotten, TrieSound, HasParent
  <2>5. DatabaseSound'
    BY Zenon, <1>1, <1>5 DEF CommitInv, DatabaseSound, HasParent, Persistable
  <2> QED
    BY Zenon, <2>2, <2>3, <2>4, <2>5 DEF CommitInv
<1>6. \/ /\ Persistable(t)
         /\ \E outcome \in Outcomes :
              /\ turns' = After(outcome, turns \cup {t}, turns)
              /\ CASE outcome = "ok" -> HandOn(r, "update_trie") /\ UNCHANGED <<pending, abandoned>>
                   [] outcome = "error" -> End(r) /\ UNCHANGED abandoned
                   [] outcome = "unknown" -> Abandon(r)
      \/ ~Persistable(t) /\ End(r) /\ UNCHANGED <<turns, abandoned>>
  BY Zenon DEF PersistTurn
<1> QED
  BY Zenon, <1>3, <1>4, <1>5, <1>6, TurnsAssumption DEF TurnsAssumption, After

(* A failed handler: the Turn of the run is abandoned, and nothing else of  *)
(* the run is left.                                                         *)
LEMMA AbandonKeeps ==
  ASSUME CommitInv, NEW r \in CommitRuns, Abandon(r), Persisted(r), UNCHANGED <<turns, up>>
  PROVE  /\ RunsSound'
         /\ stage' \in [CommitRuns -> Handlers \cup {"idle"}]
         /\ turn' \in [CommitRuns -> Turns \cup {NoParent}]
         /\ pending' \in [CommitRuns -> [previous : SUBSET Turns, new : SUBSET Turns]]
         /\ abandoned' \subseteq Turns
         /\ InFlight \cup abandoned \subseteq InFlight' \cup abandoned'
<1>1. End(r) /\ abandoned' = abandoned \cup {turn[r]}
  BY Zenon DEF Abandon
<1>2. /\ RunsSound'
      /\ stage' \in [CommitRuns -> Handlers \cup {"idle"}]
      /\ turn' \in [CommitRuns -> Turns \cup {NoParent}]
      /\ pending' \in [CommitRuns -> [previous : SUBSET Turns, new : SUBSET Turns]]
      /\ InFlight \subseteq InFlight' \cup {turn[r]}
  BY Zenon, <1>1, EndKeepsRuns
<1>3. turn[r] \in Turns
  BY Zenon DEF CommitInv, CommitTypeOK, RunsSound
<1>4. abandoned' \subseteq Turns
  BY Zenon, <1>1, <1>3 DEF CommitInv, CommitTypeOK
<1> QED
  BY Zenon, <1>1, <1>2, <1>4

(* update_trie: the Trie gains the Turn below its parent or is rebuilt from *)
(* the database; both are closed under parents.                             *)
LEMMA UpdateTrieStep ==
  ASSUME CommitInv, NEW r \in CommitRuns, UpdateTrie(r)
  PROVE  CommitInv'
<1> DEFINE t == turn[r]
<1>1. UNCHANGED <<turns, ledger, root, up, treeRoot, snapshot>> /\ stage[r] = "update_trie"
  BY Zenon DEF UpdateTrie
<1>2. t \in turns /\ t \in Turns /\ Persisted(r)
  BY Zenon, <1>1 DEF CommitInv, RunsSound, CommitTypeOK, Persisted, Handlers
<1>3. /\ trie \subseteq Materialized(t) /\ Materialized(t) \subseteq turns
      /\ t \in Materialized(t)
      /\ \A u \in Materialized(t) : HasParent(u, Materialized(t))
  <2>1. CASE t \notin trie /\ HasParent(t, trie)
    BY Zenon, <1>2, <2>1 DEF Materialized, CommitInv, CommitSound, TrieSound, HasParent
  <2>2. CASE ~(t \notin trie /\ HasParent(t, trie))
    <3>1. Materialized(t) = turns
      BY Zenon, <2>2 DEF Materialized
    <3> QED
      BY Zenon, <1>2, <3>1 DEF CommitInv, CommitSound, TrieSound, DatabaseSound
  <2> QED
    BY Zenon, <2>1, <2>2
<1>4. turns \subseteq Turns
  BY Zenon DEF CommitInv, CommitTypeOK
<1>5. DatabaseSound'
  BY Zenon, <1>1 DEF CommitInv, DatabaseSound, HasParent
<1>6. CASE /\ trie' = Materialized(t) /\ trieRoot' = trie'
           /\ listed' = listed \cup {t}
           /\ HandOn(r, "linearize") /\ UNCHANGED <<pending, abandoned>>
  <2>1. stage' = [stage EXCEPT ![r] = "linearize"] /\ turn' = turn
    BY Zenon, <1>6 DEF HandOn
  <2>2. CommitTypeOK'
    BY Zenon, <1>1, <1>2, <1>3, <1>4, <1>6, <2>1 DEF CommitInv, CommitTypeOK, Handlers
  <2>3. InFlight \subseteq InFlight'
    BY Zenon, <1>1, <2>1 DEF InFlight, CommitInv, CommitTypeOK, Handlers
  <2>4. TrieSound'
    BY Zenon, <1>1, <1>3, <1>6 DEF CommitInv, CommitSound, TrieSound, HasParent
  <2>5. NothingForgotten'
    BY Zenon, <1>1, <1>6, <2>3 DEF CommitInv, CommitSound, NothingForgotten
  <2>6. RunsSound'
    BY Zenon, <1>1, <1>2, <1>6, <2>1 DEF CommitInv, CommitTypeOK, RunsSound, Persisted, Handlers
  <2> QED
    BY Zenon, <1>5, <2>2, <2>4, <2>5, <2>6 DEF CommitInv, CommitSound
<1>7. CASE /\ trie' \in {trie, Materialized(t)} /\ trieRoot' \in {trieRoot, trie'}
           /\ listed' = listed /\ Abandon(r)
  <2>1. /\ RunsSound'
        /\ stage' \in [CommitRuns -> Handlers \cup {"idle"}]
        /\ turn' \in [CommitRuns -> Turns \cup {NoParent}]
        /\ pending' \in [CommitRuns -> [previous : SUBSET Turns, new : SUBSET Turns]]
        /\ abandoned' \subseteq Turns
        /\ InFlight \cup abandoned \subseteq InFlight' \cup abandoned'
    BY Zenon, <1>1, <1>2, <1>7, AbandonKeeps
  <2>2. CommitTypeOK'
    BY Zenon, <1>1, <1>3, <1>4, <1>7, <2>1 DEF CommitInv, CommitTypeOK
  <2>3. TrieSound'
    <3>1. CASE trie' = trie
      BY Zenon, <1>1, <1>7, <3>1 DEF CommitInv, CommitSound, TrieSound, HasParent
    <3>2. CASE trie' = Materialized(t)
      BY Zenon, <1>1, <1>3, <1>7, <3>2 DEF CommitInv, CommitSound, TrieSound, HasParent
    <3> QED
      BY Zenon, <1>7, <3>1, <3>2
  <2>4. NothingForgotten'
    BY Zenon, <1>1, <2>1 DEF CommitInv, CommitSound, NothingForgotten
  <2> QED
    BY Zenon, <1>5, <2>1, <2>2, <2>3, <2>4 DEF CommitInv, CommitSound
<1>8. \/ /\ trie' = Materialized(t)
         /\ \E outcome \in Outcomes :
              /\ trieRoot' = After(outcome, trie', trieRoot)
              /\ IF outcome = "ok"
                   THEN /\ listed' = listed \cup {t}
                        /\ HandOn(r, "linearize")
                        /\ UNCHANGED <<pending, abandoned>>
                   ELSE UNCHANGED listed /\ Abandon(r)
      \/ Abandon(r) /\ UNCHANGED <<trie, trieRoot, listed>>
  BY Zenon DEF UpdateTrie
<1> QED
  BY Zenon, <1>6, <1>7, <1>8 DEF After

(* linearize: the run prepares a root that adds its Turn.                   *)
LEMMA LinearizeStep ==
  ASSUME CommitInv, NEW r \in CommitRuns, Linearize(r)
  PROVE  CommitInv'
<1> DEFINE t == turn[r]
<1>1. /\ UNCHANGED <<turns, ledger, root, trieRoot, up, trie, listed, treeRoot, snapshot>>
      /\ stage[r] = "linearize"
  BY Zenon DEF Linearize, durableVars, memoryVars
<1>2. t \in turns /\ t \in Turns /\ Persisted(r)
  BY Zenon, <1>1 DEF CommitInv, RunsSound, CommitTypeOK, Persisted, Handlers
<1>3. TrieSound' /\ DatabaseSound'
  BY Zenon, <1>1 DEF CommitInv, CommitSound, TrieSound, DatabaseSound, HasParent
<1>4. CASE /\ pending' = [pending EXCEPT ![r] = Prepare(treeRoot, t)]
           /\ HandOn(r, "commit") /\ UNCHANGED abandoned
  <2>1. stage' = [stage EXCEPT ![r] = "commit"] /\ turn' = turn
    BY Zenon, <1>4 DEF HandOn
  <2>2. Prepare(treeRoot, t) \in [previous : SUBSET Turns, new : SUBSET Turns]
    BY Zenon, <1>2 DEF Prepare, CommitInv, CommitTypeOK
  <2>3. CommitTypeOK'
    BY Zenon, <1>1, <1>4, <2>1, <2>2 DEF CommitInv, CommitTypeOK, Handlers
  <2>4. InFlight \subseteq InFlight'
    BY Zenon, <1>1, <2>1 DEF InFlight, CommitInv, CommitTypeOK, Handlers
  <2>5. NothingForgotten'
    BY Zenon, <1>1, <1>4, <2>4 DEF CommitInv, CommitSound, NothingForgotten
  <2>6. RunsSound'
    BY Zenon, <1>1, <1>2, <1>4, <2>1
       DEF CommitInv, CommitTypeOK, RunsSound, Persisted, Handlers, Prepare
  <2> QED
    BY Zenon, <1>3, <2>3, <2>5, <2>6 DEF CommitInv, CommitSound
<1>5. CASE Abandon(r)
  <2>1. /\ RunsSound'
        /\ stage' \in [CommitRuns -> Handlers \cup {"idle"}]
        /\ turn' \in [CommitRuns -> Turns \cup {NoParent}]
        /\ pending' \in [CommitRuns -> [previous : SUBSET Turns, new : SUBSET Turns]]
        /\ abandoned' \subseteq Turns
        /\ InFlight \cup abandoned \subseteq InFlight' \cup abandoned'
    BY Zenon, <1>1, <1>2, <1>5, AbandonKeeps
  <2>2. CommitTypeOK'
    BY Zenon, <1>1, <2>1 DEF CommitInv, CommitTypeOK
  <2>3. NothingForgotten'
    BY Zenon, <1>1, <2>1 DEF CommitInv, CommitSound, NothingForgotten
  <2> QED
    BY Zenon, <1>3, <2>1, <2>2, <2>3 DEF CommitInv, CommitSound
<1> QED
  BY Zenon, <1>4, <1>5 DEF Linearize

(* commit: ledger and root gain the Turn together, or neither does.         *)
LEMMA CommitStep ==
  ASSUME CommitInv, NEW r \in CommitRuns, Commit(r)
  PROVE  CommitInv'
<1> DEFINE t == turn[r]
           update == ToCommit(r)
<1>1. UNCHANGED <<turns, trieRoot, up, trie, listed, snapshot>> /\ stage[r] = "commit"
  BY Zenon DEF Commit
<1>2. t \in turns /\ t \in Turns /\ Persisted(r) /\ up = "running"
  BY Zenon, <1>1 DEF CommitInv, RunsSound, CommitTypeOK, Persisted, Handlers
<1>3. update.previous = root /\ update.new = root \cup {t}
  BY Zenon, <1>1, CommitAddsItsTurn
<1>4. TrieSound' /\ DatabaseSound'
  BY Zenon, <1>1, <1>2 DEF CommitInv, CommitSound, TrieSound, DatabaseSound, HasParent
<1>5. update \in [previous : SUBSET Turns, new : SUBSET Turns]
  BY Zenon, <1>2 DEF ToCommit, FreshUpdate, Prepare, CommitInv, CommitTypeOK
<1>6. CASE /\ root' = root \cup {t} /\ ledger' = ledger \cup {t}
           /\ treeRoot' = update.new /\ pending' = [pending EXCEPT ![r] = update]
           /\ HandOn(r, "materialize") /\ UNCHANGED abandoned
  <2>1. stage' = [stage EXCEPT ![r] = "materialize"] /\ turn' = turn
    BY Zenon, <1>6 DEF HandOn
  <2>2. CommitTypeOK'
    BY Zenon, <1>1, <1>2, <1>3, <1>5, <1>6, <2>1 DEF CommitInv, CommitTypeOK, Handlers
  <2>3. InFlight \subseteq InFlight' \cup {t}
    BY Zenon, <1>1, <2>1 DEF InFlight, CommitInv, CommitTypeOK, Handlers
  <2>4. NothingForgotten'
    BY Zenon, <1>1, <1>2, <1>6, <2>3 DEF CommitInv, CommitSound, NothingForgotten
  <2>5. RunsSound'
    BY Zenon, <1>1, <1>2, <1>6, <2>1 DEF CommitInv, CommitTypeOK, RunsSound, Persisted, Handlers
  <2> QED
    BY Zenon, <1>4, <2>2, <2>4, <2>5 DEF CommitInv, CommitSound
<1>7. CASE /\ \/ root' = root \cup {t} /\ ledger' = ledger \cup {t}
              \/ root' = root /\ ledger' = ledger
           /\ treeRoot' \in {treeRoot, update.previous}
           /\ Abandon(r)
  <2>1. /\ RunsSound'
        /\ stage' \in [CommitRuns -> Handlers \cup {"idle"}]
        /\ turn' \in [CommitRuns -> Turns \cup {NoParent}]
        /\ pending' \in [CommitRuns -> [previous : SUBSET Turns, new : SUBSET Turns]]
        /\ abandoned' \subseteq Turns
        /\ InFlight \cup abandoned \subseteq InFlight' \cup abandoned'
    BY Zenon, <1>1, <1>2, <1>7, AbandonKeeps
  <2>2. CommitTypeOK'
    BY Zenon, <1>1, <1>2, <1>3, <1>7, <2>1 DEF CommitInv, CommitTypeOK
  <2>3. NothingForgotten'
    BY Zenon, <1>1, <1>2, <1>7, <2>1 DEF CommitInv, CommitSound, NothingForgotten
  <2> QED
    BY Zenon, <1>4, <2>1, <2>2, <2>3 DEF CommitInv, CommitSound
<1>8. \/ \E outcome \in Outcomes :
           /\ root' = After(outcome, update.new, root)
           /\ ledger' = After(outcome, ledger \cup {t}, ledger)
           /\ IF outcome = "ok"
                THEN /\ treeRoot' = update.new
                     /\ pending' = [pending EXCEPT ![r] = update]
                     /\ HandOn(r, "materialize")
                     /\ UNCHANGED abandoned
                ELSE treeRoot' = update.previous /\ Abandon(r)
      \/ /\ Abandon(r) /\ treeRoot' \in {treeRoot, update.previous}
         /\ UNCHANGED <<root, ledger>>
  BY Zenon DEF Commit
<1> HIDE DEF update
<1> QED
  BY Zenon, <1>3, <1>6, <1>7, <1>8 DEF After

(* materialize: the run ends with its Turn presented.                       *)
LEMMA MaterializeStep ==
  ASSUME CommitInv, NEW r \in CommitRuns, Materialize(r)
  PROVE  CommitInv'
<1>1. /\ UNCHANGED <<turns, ledger, root, trieRoot, up, trie, listed, treeRoot, abandoned>>
      /\ stage[r] = "materialize" /\ snapshot' = pending[r].new /\ End(r)
  BY Zenon DEF Materialize, durableVars
<1>2. /\ RunsSound' /\ InFlight \subseteq InFlight'
      /\ stage' \in [CommitRuns -> Handlers \cup {"idle"}]
      /\ turn' \in [CommitRuns -> Turns \cup {NoParent}]
      /\ pending' \in [CommitRuns -> [previous : SUBSET Turns, new : SUBSET Turns]]
  BY Zenon, <1>1, EndKeepsRuns
<1>3. CommitTypeOK'
  BY Zenon, <1>1, <1>2 DEF CommitInv, CommitTypeOK
<1>4. CommitSound' /\ DatabaseSound'
  BY Zenon, <1>1, <1>2
     DEF CommitInv, CommitSound, NothingForgotten, TrieSound, DatabaseSound, HasParent
<1> QED
  BY Zenon, <1>2, <1>3, <1>4 DEF CommitInv

(* A crash, and a boot that fails, leave only the database.                 *)
LEMMA ForgetKeeps ==
  ASSUME CommitInv, Forget,
         turns' = turns, trieRoot' \subseteq Turns,
         ledger' = root', root' \subseteq turns
  PROVE  CommitInv'
<1>1. CommitTypeOK'
  BY Zenon DEF Forget, CommitInv, CommitTypeOK, Nothing
<1>2. CommitSound'
  BY Zenon DEF Forget, CommitInv, CommitSound, NothingForgotten, TrieSound, HasParent
<1>3. RunsSound'
  BY Zenon DEF Forget, RunsSound, Persisted, Handlers
<1>4. DatabaseSound'
  BY Zenon DEF Forget, CommitInv, DatabaseSound, HasParent
<1> QED
  BY Zenon, <1>1, <1>2, <1>3, <1>4 DEF CommitInv

(* A crash of the process loses the memory and no durable Turn.             *)
LEMMA CrashStep ==
  ASSUME CommitInv, Crash
  PROVE  CommitInv'
  BY Zenon, ForgetKeeps
     DEF Crash, durableVars, CommitInv, CommitTypeOK, CommitSound, NothingForgotten

(* The boot rebuilds the Trie from the database and loads the root.         *)
LEMMA BootStep ==
  ASSUME CommitInv, Boot
  PROVE  CommitInv'
<1>1. CommitTypeOK'
  BY Zenon DEF Boot, inFlightVars, CommitInv, CommitTypeOK
<1>2. CommitSound'
  BY Zenon DEF Boot, CommitInv, CommitSound, NothingForgotten, TrieSound, DatabaseSound, HasParent
<1>3. RunsSound'
  BY Zenon DEF Boot, inFlightVars, CommitInv, RunsSound, Persisted
<1>4. DatabaseSound'
  BY Zenon DEF Boot, CommitInv, DatabaseSound, HasParent
<1> QED
  BY Zenon, <1>1, <1>2, <1>3, <1>4 DEF CommitInv

(* One Turn of the recovery: the ledger and the root gain it together.      *)
LEMMA ReconcileStep ==
  ASSUME CommitInv, NEW t \in Turns, Reconcile(t)
  PROVE  CommitInv'
<1>1. /\ up = "reconciling" /\ t \in turns /\ turns' = turns /\ trieRoot' = trieRoot
      /\ treeRoot = root /\ Prepare(treeRoot, t).new = root \cup {t}
  BY Zenon DEF Reconcile, Missing, CommitInv, DatabaseSound, Prepare
<1>2. PICK outcome \in Outcomes :
        /\ root' = After(outcome, root \cup {t}, root)
        /\ ledger' = After(outcome, ledger \cup {t}, ledger)
        /\ IF outcome = "ok"
             THEN treeRoot' = root \cup {t} /\ UNCHANGED <<up, trie, listed, snapshot, inFlightVars>>
             ELSE Forget
  BY Zenon, <1>1 DEF Reconcile
<1>3. ledger' = root' /\ root' \subseteq turns
  BY Zenon, <1>1, <1>2 DEF After, CommitInv, CommitSound, NothingForgotten
<1>4. CASE outcome # "ok"
  BY Zenon, <1>1, <1>2, <1>3, <1>4, ForgetKeeps DEF CommitInv, CommitTypeOK
<1>5. CASE outcome = "ok"
  <2>1. /\ root' = root \cup {t} /\ treeRoot' = root \cup {t}
        /\ UNCHANGED <<up, trie, listed, snapshot, stage, turn, pending, abandoned>>
    BY Zenon, <1>2, <1>5 DEF After, inFlightVars
  <2>2. CommitTypeOK'
    BY Zenon, <1>1, <1>3, <2>1 DEF CommitInv, CommitTypeOK
  <2>3. CommitSound'
    BY Zenon, <1>1, <1>3, <2>1 DEF CommitInv, CommitSound, NothingForgotten, TrieSound, HasParent
  <2>4. RunsSound'
    BY Zenon, <1>1, <2>1 DEF CommitInv, RunsSound, Persisted
  <2>5. DatabaseSound'
    BY Zenon, <1>1, <2>1 DEF CommitInv, DatabaseSound, HasParent
  <2> QED
    BY Zenon, <2>2, <2>3, <2>4, <2>5 DEF CommitInv
<1> QED
  BY Zenon, <1>4, <1>5

(* The pipeline starts once every durable Turn is presented.                *)
LEMMA RecoveredStep ==
  ASSUME CommitInv, Recovered
  PROVE  CommitInv'
<1>1. CommitTypeOK'
  BY Zenon DEF Recovered, durableVars, inFlightVars, CommitInv, CommitTypeOK
<1>2. CommitSound'
  BY Zenon DEF Recovered, durableVars, Missing, CommitInv, CommitSound, NothingForgotten,
     TrieSound, HasParent
<1>3. RunsSound'
  BY Zenon DEF Recovered, durableVars, inFlightVars, CommitInv, RunsSound, Persisted
<1>4. DatabaseSound'
  BY Zenon DEF Recovered, durableVars, CommitInv, DatabaseSound, HasParent
<1> QED
  BY Zenon, <1>1, <1>2, <1>3, <1>4 DEF CommitInv

(* Every step keeps the invariant.                                          *)
LEMMA CommitInvStep ==
  ASSUME TurnsAssumption
  PROVE  CommitInv /\ [CommitNext]_commitVars => CommitInv'
  BY Zenon, CommitStutter, SubmitStep, PersistStep, UpdateTrieStep, LinearizeStep, CommitStep,
     MaterializeStep, CrashStep, BootStep, ReconcileStep, RecoveredStep DEF CommitNext, RunStep

-----------------------------------------------------------------------------

(* Nothing durable is forgotten across crashes and commits whose outcome is *)
(* unknown, ledger and presentation agree, and the Trie holds durable Turns *)
(* below their parents: persist_turn, update_trie, linearize, commit and    *)
(* reconcile, with any number of overlapping runs.                          *)
THEOREM CommitCorrect ==
  ASSUME TurnsAssumption
  PROVE  CommitSpec => []CommitSound
<1>1. CommitInv => CommitSound
  BY Zenon DEF CommitInv
<1> QED
  BY <1>1, CommitInvInit, CommitInvStep, PTL DEF CommitSpec

(* Every step of the commit path is a step of the ledger of Turns or leaves *)
(* the database as it is.                                                   *)
LEMMA LedgerStep ==
  CommitInv /\ [CommitNext]_commitVars => [Ledger!Next]_<<turns, root>>
<1> SUFFICES ASSUME CommitInv, [CommitNext]_commitVars
             PROVE  [Ledger!Next]_<<turns, root>>
  BY Zenon
<1>1. CASE UNCHANGED commitVars
  BY Zenon, <1>1 DEF commitVars, durableVars
<1>2. ASSUME NEW r \in CommitRuns, PersistTurn(r)
      PROVE  [Ledger!Next]_<<turns, root>>
  <2>1. turn[r] \in Turns /\ root' = root
    BY Zenon, <1>2 DEF PersistTurn, CommitInv, RunsSound
  <2>2. turns' = turns \/ (Persistable(turn[r]) /\ turns' = turns \cup {turn[r]})
    BY Zenon, <1>2 DEF PersistTurn, After
  <2>3. CASE Persistable(turn[r]) /\ turns' = turns \cup {turn[r]}
    BY Zenon, <2>1, <2>3 DEF Ledger!Next, Ledger!Add, Persistable, HasParent
  <2> QED
    BY Zenon, <2>1, <2>2, <2>3
<1>3. ASSUME NEW r \in CommitRuns, Commit(r)
      PROVE  [Ledger!Next]_<<turns, root>>
  <2>1. ToCommit(r).previous = root /\ ToCommit(r).new = root \cup {turn[r]}
    BY Zenon, <1>3, CommitAddsItsTurn DEF Commit
  <2>2. turn[r] \in Turns /\ turn[r] \in turns /\ turns' = turns
    BY Zenon, <1>3 DEF Commit, CommitInv, RunsSound, Persisted, Handlers
  <2>3. root' = root \/ (turn[r] \notin root /\ root' = root \cup {turn[r]})
    BY Zenon, <1>3, <2>1 DEF Commit, After
  <2> QED
    BY Zenon, <2>2, <2>3 DEF Ledger!Next, Ledger!Present
<1>4. ASSUME NEW t \in Turns, Reconcile(t)
      PROVE  [Ledger!Next]_<<turns, root>>
  <2>1. /\ t \in turns /\ turns' = turns /\ treeRoot = root /\ t \notin root
        /\ Prepare(treeRoot, t).new = root \cup {t}
    BY Zenon, <1>4 DEF Reconcile, Missing, CommitInv, DatabaseSound, Prepare
  <2>2. root' = root \/ root' = root \cup {t}
    BY Zenon, <1>4, <2>1 DEF Reconcile, After
  <2> QED
    BY Zenon, <2>1, <2>2 DEF Ledger!Next, Ledger!Present
<1>5. ASSUME UNCHANGED <<turns, root>>
      PROVE  [Ledger!Next]_<<turns, root>>
  BY Zenon, <1>5
<1>6. CASE \E r \in CommitRuns : UpdateTrie(r) \/ Linearize(r) \/ Materialize(r)
                           \/ \E t \in Turns : SubmitTurn(r, t)
  BY Zenon, <1>5, <1>6 DEF UpdateTrie, Linearize, Materialize, SubmitTurn, durableVars
<1>7. CASE Crash \/ Boot \/ Recovered
  BY Zenon, <1>5, <1>7 DEF Crash, Boot, Recovered, durableVars
<1> QED
  BY Zenon, <1>1, <1>2, <1>3, <1>4, <1>6, <1>7 DEF CommitNext, RunStep

(* The commit path implements the abstract ledger: seen from the database,  *)
(* a Turn is added once and after its parent, and is presented once and     *)
(* only when durable, through crashes, retries and recovery.                *)
THEOREM LedgerImplemented ==
  ASSUME TurnsAssumption
  PROVE  CommitSpec => LedgerSpec
<1>1. CommitInit => Ledger!Init
  BY Zenon DEF CommitInit, Ledger!Init
<1> QED
  BY <1>1, CommitInvInit, CommitInvStep, LedgerStep, PTL DEF CommitSpec, LedgerSpec, Ledger!Spec

=============================================================================
