------------------------------ MODULE TurnCommit ------------------------------
(***************************************************************************)
(* The commit path of a Turn through canvas/: persisted, applied to the     *)
(* Turn Trie, linearized and committed to the presentation by overlapping   *)
(* pipeline runs, over an SQLite database that survives a crash.  On the    *)
(* next boot the canvas rebuilds the Trie and the orchestration commits     *)
(* every durable Turn its recovery ledger lacks.                            *)
(*                                                                         *)
(* Each handler is a step, as its database transaction or mutex makes it,   *)
(* except that commit() materializes the snapshot after unlocking.  The     *)
(* presentation is a treap whose shape depends only on its members, so a    *)
(* root hash is modelled by the set of Turns below it; so is a Trie root.   *)
(***************************************************************************)
EXTENDS FiniteSets

CONSTANTS
  Turns,      \* addressed Turns that may be submitted
  Parent,     \* the parent each of them replies to
  NoParent,   \* no parent: the Turn replies to the canvas root
  CommitRuns, \* pipeline runs that may overlap
  Outcomes    \* how a transaction may end: applied; not applied; reported as
              \* failed by COMMIT although it is durable

TurnsAssumption ==
  /\ NoParent \notin Turns
  /\ Parent \in [Turns -> Turns \cup {NoParent}]
  /\ Outcomes \subseteq {"ok", "error", "unknown"}

VARIABLES
  turns,      \* table turns
  ledger,     \* inserted_human_address of table presentation_commits
  root,       \* presentations.root_hash
  trieRoot,   \* the Trie root the canvas row holds
  up,         \* is the process down, reconciling or running
  trie,       \* CanvasSubsystem::Impl::turn_tree
  listed,     \* canvas.turns
  treeRoot,   \* root_ of the in-memory PresentationTree
  snapshot,   \* canvas.presentation_root_hash
  stage,      \* handler each run is about to run
  turn,       \* Turn of each run
  pending,    \* PendingPresentation of each run
  abandoned   \* durable Turns whose run failed since the process booted

durableVars == <<turns, ledger, root, trieRoot>>
memoryVars == <<up, trie, listed, treeRoot, snapshot>>
inFlightVars == <<stage, turn, pending, abandoned>>
commitVars == <<durableVars, memoryVars, inFlightVars>>

Handlers == {"persist_turn", "update_trie", "linearize", "commit", "materialize"}
Nothing == [previous |-> {}, new |-> {}]

CommitInit ==
  /\ turns = {} /\ ledger = {} /\ root = {} /\ trieRoot = {}
  /\ up = "down" /\ trie = {} /\ listed = {} /\ treeRoot = {} /\ snapshot = {}
  /\ stage = [r \in CommitRuns |-> "idle"]
  /\ turn = [r \in CommitRuns |-> NoParent]
  /\ pending = [r \in CommitRuns |-> Nothing]
  /\ abandoned = {}

CommitTypeOK ==
  /\ turns \subseteq Turns /\ ledger \subseteq Turns
  /\ root \subseteq Turns /\ trieRoot \subseteq Turns
  /\ up \in {"down", "reconciling", "running"}
  /\ trie \subseteq Turns /\ listed \subseteq Turns
  /\ treeRoot \subseteq Turns /\ snapshot \subseteq Turns
  /\ stage \in [CommitRuns -> Handlers \cup {"idle"}]
  /\ turn \in [CommitRuns -> Turns \cup {NoParent}]
  /\ pending \in [CommitRuns -> [previous : SUBSET Turns, new : SUBSET Turns]]
  /\ abandoned \subseteq Turns

HasParent(t, S) == Parent[t] \in S \cup {NoParent}

\* A table after a transaction with this outcome.
After(outcome, new, old) == IF outcome = "error" THEN old ELSE new

-----------------------------------------------------------------------------
\* Steps of a run

HandOn(r, handler) ==
  /\ stage' = [stage EXCEPT ![r] = handler]
  /\ UNCHANGED turn

\* The run is over; what it pinned is released.
End(r) ==
  /\ stage' = [stage EXCEPT ![r] = "idle"]
  /\ turn' = [turn EXCEPT ![r] = NoParent]
  /\ pending' = [pending EXCEPT ![r] = Nothing]

\* context.fail() once the Turn is durable: the later handlers are skipped.
Abandon(r) == End(r) /\ abandoned' = abandoned \cup {turn[r]}

\* The pump submits one Turn of the submission channel.
SubmitTurn(r, t) ==
  /\ up = "running"
  /\ stage[r] = "idle"
  /\ stage' = [stage EXCEPT ![r] = "persist_turn"]
  /\ turn' = [turn EXCEPT ![r] = t]
  /\ UNCHANGED <<durableVars, memoryVars, pending, abandoned>>

PersistOrphans(t) == t \notin turns

\* What TurnDatastore::persist requires of a Turn inside its transaction.
Persistable(t) == t \notin turns /\ HasParent(t, turns)

PersistTurn(r) ==
  LET t == turn[r] IN
  /\ stage[r] = "persist_turn"
  /\ \/ /\ Persistable(t)
        /\ \E outcome \in Outcomes :
             /\ turns' = After(outcome, turns \cup {t}, turns)
             /\ CASE outcome = "ok" -> HandOn(r, "update_trie") /\ UNCHANGED <<pending, abandoned>>
                  [] outcome = "error" -> End(r) /\ UNCHANGED abandoned
                  [] outcome = "unknown" -> Abandon(r)
     \/ /\ ~Persistable(t)
        /\ End(r)
        /\ UNCHANGED <<turns, abandoned>>
  /\ UNCHANGED <<ledger, root, trieRoot, memoryVars>>

\* apply(), or rebuild() from all durable Turns when it is refused: the
\* parent's run is behind, or a rebuild has already brought this Turn in.
Materialized(t) ==
  IF t \notin trie /\ HasParent(t, trie) THEN trie \cup {t} ELSE turns

UpdateTrie(r) ==
  LET t == turn[r] IN
  /\ stage[r] = "update_trie"
  /\ \/ /\ trie' = Materialized(t)
        /\ \E outcome \in Outcomes :
             /\ trieRoot' = After(outcome, trie', trieRoot)
             /\ IF outcome = "ok"
                  THEN /\ listed' = listed \cup {t}
                       /\ HandOn(r, "linearize")
                       /\ UNCHANGED <<pending, abandoned>>
                  ELSE UNCHANGED listed /\ Abandon(r)
     \/ /\ ~(t \notin trie /\ HasParent(t, trie))  \* load_all fails
        /\ Abandon(r)
        /\ UNCHANGED <<trie, trieRoot, listed>>
  /\ UNCHANGED <<turns, ledger, root, up, treeRoot, snapshot>>

\* PresentationTree::prepare_insert over a root that lacks the Turn.
Prepare(S, t) == [previous |-> S, new |-> S \cup {t}]

Linearize(r) ==
  LET t == turn[r] IN
  /\ stage[r] = "linearize"
  /\ \/ /\ t \notin treeRoot
        /\ pending' = [pending EXCEPT ![r] = Prepare(treeRoot, t)]
        /\ HandOn(r, "commit")
        /\ UNCHANGED abandoned
     \/ Abandon(r)  \* ALREADY_EXISTS, or a node cannot be loaded
  /\ UNCHANGED <<durableVars, memoryVars>>

\* commit() prepares again if the in-memory root moved since linearize().
FreshUpdate(r) ==
  IF pending[r].previous # treeRoot THEN Prepare(treeRoot, turn[r]) ELSE pending[r]

\* PresentationDatastore::commit answers INVALID_STATE unless the stored root
\* is the one the update was prepared on.
RootMatches(prepared) == prepared.previous = root

\* What commit() finally writes: prepared on the in-memory root or, after
\* INVALID_STATE, again on the reloaded durable root.
ToCommit(r) == IF RootMatches(FreshUpdate(r)) THEN FreshUpdate(r) ELSE Prepare(root, turn[r])

Commit(r) ==
  LET t == turn[r]
      update == ToCommit(r)
  IN  /\ stage[r] = "commit"
      /\ \/ /\ t \notin update.previous
            /\ \E outcome \in Outcomes :
                 /\ root' = After(outcome, update.new, root)
                 /\ ledger' = After(outcome, ledger \cup {t}, ledger)
                 /\ IF outcome = "ok"
                      THEN /\ treeRoot' = update.new
                           /\ pending' = [pending EXCEPT ![r] = update]
                           /\ HandOn(r, "materialize")
                           /\ UNCHANGED abandoned
                      ELSE treeRoot' = update.previous /\ Abandon(r)
         \/ /\ Abandon(r)  \* ALREADY_EXISTS, or a node or root cannot be loaded
            /\ treeRoot' \in {treeRoot, update.previous}
            /\ UNCHANGED <<root, ledger>>
      /\ UNCHANGED <<turns, trieRoot, up, trie, listed, snapshot>>

\* After the unlock: the canvas snapshot takes the root of this commit.
Materialize(r) ==
  /\ stage[r] = "materialize"
  /\ snapshot' = pending[r].new
  /\ End(r)
  /\ UNCHANGED <<durableVars, up, trie, listed, treeRoot, abandoned>>

-----------------------------------------------------------------------------
\* Crash and recovery

\* The process ends; only the database is left.
Forget ==
  /\ up' = "down" /\ trie' = {} /\ listed' = {} /\ treeRoot' = {} /\ snapshot' = {}
  /\ stage' = [r \in CommitRuns |-> "idle"]
  /\ turn' = [r \in CommitRuns |-> NoParent]
  /\ pending' = [r \in CommitRuns |-> Nothing]
  /\ abandoned' = {}

Crash ==
  /\ up # "down"
  /\ Forget
  /\ UNCHANGED durableVars

\* CanvasSubsystem::initialize, and load_root of the orchestration.
Boot ==
  /\ up = "down"
  /\ up' = "reconciling"
  /\ trie' = turns /\ listed' = turns
  /\ trieRoot' = IF turns = {} THEN trieRoot ELSE turns
  /\ treeRoot' = root
  /\ UNCHANGED <<turns, ledger, root, snapshot, inFlightVars>>

MissingFromTree == turns \ trie

\* Durable Turns the recovery ledger lacks.
Missing == turns \ ledger

\* One iteration of reconcile(), which goes through them in address order, an
\* ancestor before its descendants.  A failure fails initialize().
Reconcile(t) ==
  LET update == Prepare(treeRoot, t) IN
  /\ up = "reconciling"
  /\ t \in Missing
  /\ Parent[t] \notin Missing
  /\ t \notin treeRoot
  /\ \E outcome \in Outcomes :
       /\ root' = After(outcome, update.new, root)
       /\ ledger' = After(outcome, ledger \cup {t}, ledger)
       /\ IF outcome = "ok"
            THEN treeRoot' = update.new /\ UNCHANGED <<up, trie, listed, snapshot, inFlightVars>>
            ELSE Forget
  /\ UNCHANGED <<turns, trieRoot>>

\* reconcile() is done; the pipeline is started.
Recovered ==
  /\ up = "reconciling"
  /\ Missing = {}
  /\ up' = "running"
  /\ snapshot' = treeRoot
  /\ UNCHANGED <<durableVars, trie, listed, treeRoot, inFlightVars>>

-----------------------------------------------------------------------------

RunStep(r) ==
  PersistTurn(r) \/ UpdateTrie(r) \/ Linearize(r) \/ Commit(r) \/ Materialize(r)

CommitNext ==
  \/ \E r \in CommitRuns : RunStep(r) \/ \E t \in Turns : SubmitTurn(r, t)
  \/ Crash \/ Boot \/ Recovered
  \/ \E t \in Turns : Reconcile(t)

CommitSpec == CommitInit /\ [][CommitNext]_commitVars

-----------------------------------------------------------------------------
\* Properties

(* The Trie holds a Turn only with its parent and only if it is durable,    *)
(* and canvas.turns lists only Turns of the Trie: a run whose parent's run  *)
(* is behind falls back to a rebuild.                                       *)
TrieSound ==
  /\ trie \subseteq turns
  /\ \A t \in trie : HasParent(t, trie)
  /\ listed \subseteq trie

InFlight ==
  {turn[r] : r \in {q \in CommitRuns : stage[q] \in Handlers \ {"persist_turn", "materialize"}}}

(* Once the process runs, a durable Turn that is not presented is still in  *)
(* flight or its run failed since the boot, so that nothing durable is      *)
(* forgotten across a crash. The durable presentation is exactly what the   *)
(* recovery ledger says was committed, and holds durable Turns only:        *)
(* otherwise reconcile() would skip a Turn that is not shown or insert one  *)
(* twice and fail the boot.                                                 *)
NothingForgotten ==
  /\ up = "running" => turns \ root \subseteq InFlight \cup abandoned
  /\ ledger = root /\ root \subseteq turns

(* The database behaves as the abstract ledger, through crashes, failed     *)
(* transactions and recovery.                                               *)
Ledger == INSTANCE TurnLedger WITH None <- NoParent, presented <- root
LedgerSpec == Ledger!Spec

(* Nothing durable is forgotten, and the Trie holds durable Turns with      *)
(* their parents (persist_turn, update_trie, commit, reconcile).            *)
CommitSound == NothingForgotten /\ TrieSound

=============================================================================
