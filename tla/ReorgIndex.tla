----------------------------- MODULE ReorgIndex -----------------------------
(***************************************************************************)
(* The index updater of src/src/index/updater.rs and the reorg recovery of *)
(* src/src/index/reorg.rs, running against a node whose best chain grows   *)
(* and reorganises at any moment.                                          *)
(*                                                                         *)
(* One server thread calls Index::update over and over.  An update opens a *)
(* write transaction, starts a thread that fetches blocks into a bounded   *)
(* channel, indexes the blocks it receives, and commits every BatchSize    *)
(* blocks and at the end.  After a commit it may take a persistent         *)
(* savepoint, in two further transactions.  Only the database (committed,  *)
(* savepoints) survives a crash.                                           *)
(*                                                                         *)
(* A block is a record [id, prev]: id is the branch it was mined on, prev  *)
(* the id of its parent.  Its height is its position, so two blocks have   *)
(* the same hash exactly when they are equal and stand at the same height. *)
(***************************************************************************)
EXTENDS Integers, Sequences

CONSTANTS
  BatchSize,      \* blocks per write transaction (1000, updater.rs:124)
  ChannelSize,    \* capacity of the block channel (32, updater.rs:173)
  MaxSavepoints,  \* MAX_SAVEPOINTS (5)
  Interval,       \* SAVEPOINT_INTERVAL (10)
  TipDistance,    \* CHAIN_TIP_DISTANCE (25)
  MaxChain,       \* bound: length of the node's chain
  MaxForks,       \* bound: number of reorganisations
  MaxFaults       \* bound: crashes, restarts and failed RPC calls

ASSUME ConstantsAssumption ==
  /\ BatchSize \in Nat \ {0}
  /\ ChannelSize \in Nat
  /\ MaxSavepoints \in Nat \ {0}
  /\ Interval \in Nat \ {0}
  /\ TipDistance \in Nat
  /\ MaxChain \in Nat
  /\ MaxForks \in Nat
  /\ MaxFaults \in Nat

VARIABLES
  chain,         \* the node's best chain
  forks,         \* reorganisations so far; also the newest branch
  faults,        \* faults so far
  committed,     \* HEIGHT_TO_BLOCK_HASH as the last commit left it
  savepoints,    \* persistent savepoints, oldest first: the saved database
  pc,            \* where the index thread is
  batch,         \* blocks indexed in the open write transaction
  queue,         \* blocks in the channel
  fetching,      \* the fetch thread is alive
  finishing,     \* the commit under way is the last of this update
  depth,         \* loop variable of detect_reorg
  unrecoverable, \* Index::unrecoverably_reorged
  shuttingDown   \* SHUTTING_DOWN

node == <<chain, forks>>
database == <<committed, savepoints>>
vars == <<chain, forks, faults, committed, savepoints, pc, batch, queue,
          fetching, finishing, depth, unrecoverable, shuttingDown>>

Block == [id : Nat, prev : Nat]

PCs == {"idle", "begin", "index", "detect", "handle", "commit", "exit",
        "trim", "save", "panicked", "stopped"}

Genesis == [id |-> 0, prev |-> 0]

-----------------------------------------------------------------------------
(* Reading the chain and the index                                         *)

Lesser(a, b) == IF a <= b THEN a ELSE b

(* u32::saturating_sub                                                     *)
Minus(a, b) == IF b <= a THEN a - b ELSE 0

(* The block of s at height h with its height, or the empty set: an        *)
(* Option<BlockHash>.                                                      *)
HashAt(s, h) == IF h < Len(s) THEN {<<h, s[h + 1]>>} ELSE {}

LatestHash(s) == IF s = << >> THEN {} ELSE {<<Len(s) - 1, s[Len(s)]>>}

(* Rtx::block_hash(height.checked_sub(d)) on the committed table: an       *)
(* underflow asks for None, which is the latest block.                     *)
IndexHash(h, d) == IF d <= h THEN HashAt(committed, h - d)
                             ELSE LatestHash(committed)

(* client.get_block_hash(height.saturating_sub(d))                         *)
NodeHash(h, d) == HashAt(chain, Minus(h, d))

(* self.height: the number of blocks the open transaction holds.           *)
height == Len(committed) + Len(batch)

NextFetch == height + Len(queue)

ExtendsTip(b) ==  \* a mutant: looks for the block at height itself
  \A stored \in IndexHash(height, 0) : stored[2].id = b.prev

(* detect_reorg's first match: the block extends the committed block at    *)
(* height - 1, or no such block is committed.                              *)
Extends(b) ==
  \A stored \in IndexHash(height, 1) : stored[2].id = b.prev

DeepestOfAll(h) ==  \* a mutant: counts one savepoint too many
  (MaxSavepoints * Interval) + (h % Interval)

MaxDepth(h) == ((MaxSavepoints - 1) * Interval) + (h % Interval)

SavepointDue(h) ==
  /\ h < Interval \/ (h % Interval) = 0
  /\ Minus(Len(chain) - 1, h) <= TipDistance

-----------------------------------------------------------------------------
Init ==
  /\ chain = <<Genesis>>
  /\ forks = 0
  /\ faults = 0
  /\ committed = << >>
  /\ savepoints = << >>
  /\ pc = "idle"
  /\ batch = << >>
  /\ queue = << >>
  /\ fetching = FALSE
  /\ finishing = FALSE
  /\ depth = 0
  /\ unrecoverable = FALSE
  /\ shuttingDown = FALSE

-----------------------------------------------------------------------------
(* The node                                                                *)

Mine ==
  /\ Len(chain) < MaxChain
  /\ chain' = Append(chain, [id |-> forks, prev |-> chain[Len(chain)].id])
  /\ UNCHANGED <<forks, faults, database, pc, batch, queue, fetching,
                 finishing, depth, unrecoverable, shuttingDown>>

(* The best chain switches to one of length len that shares its first keep *)
(* blocks.                                                                 *)
ReorgTo(keep, len) ==
  /\ forks < MaxForks
  /\ len <= MaxChain
  /\ forks' = forks + 1
  /\ chain' = [h \in 1 .. len |->
                 IF h <= keep THEN chain[h]
                 ELSE [id |-> forks + 1,
                       prev |-> IF h = keep + 1 THEN chain[keep].id
                                                ELSE forks + 1]]
  /\ UNCHANGED <<faults, database, pc, batch, queue, fetching, finishing,
                 depth, unrecoverable, shuttingDown>>

(* A node follows the chain of most work: the new one is longer.           *)
Reorganise == \E keep \in 1 .. Len(chain) - 1 : ReorgTo(keep, Len(chain) + 1)

-----------------------------------------------------------------------------
(* The index thread                                                        *)

CallUpdateAgain ==  \* a mutant: does not look at SHUTTING_DOWN
  /\ pc = "idle"
  /\ pc' = "begin"
  /\ UNCHANGED <<node, faults, database, batch, queue, fetching, finishing,
                 depth, unrecoverable, shuttingDown>>

(* Top of the server loop: stop, or call Index::update.                    *)
CallUpdate ==
  /\ pc = "idle"
  /\ pc' = IF shuttingDown THEN "stopped" ELSE "begin"
  /\ UNCHANGED <<node, faults, database, batch, queue, fetching, finishing,
                 depth, unrecoverable, shuttingDown>>

(* Updater::new and the head of update_index: read the height, open the    *)
(* write transaction, spawn the fetch thread with an empty channel.        *)
BeginUpdate ==
  /\ pc = "begin"
  /\ pc' = "index"
  /\ batch' = << >>
  /\ queue' = << >>
  /\ fetching' = TRUE
  /\ UNCHANGED <<node, faults, database, finishing, depth, unrecoverable,
                 shuttingDown>>

(* The fetch thread reads one more block.  It may hold one block more than *)
(* the channel does; it ends at the node's tip.                            *)
Fetch ==
  /\ fetching
  /\ Len(queue) <= ChannelSize
  /\ IF NextFetch < Len(chain)
       THEN /\ queue' = Append(queue, chain[NextFetch + 1])
            /\ UNCHANGED fetching
       ELSE /\ fetching' = FALSE
            /\ UNCHANGED queue
  /\ UNCHANGED <<node, faults, database, pc, batch, finishing, depth,
                 unrecoverable, shuttingDown>>

BatchFull(b) == Len(b) = BatchSize

(* index_block on a block that passes detect_reorg, then the checks at the *)
(* bottom of the loop of update_index.                                     *)
IndexBlock ==
  /\ pc = "index"
  /\ queue # << >>
  /\ Extends(Head(queue))
  /\ batch' = Append(batch, Head(queue))
  /\ queue' = Tail(queue)
  /\ pc' = IF BatchFull(batch') THEN "commit"
           ELSE IF shuttingDown THEN "exit" ELSE "index"
  /\ UNCHANGED <<node, faults, database, fetching, finishing, depth,
                 unrecoverable, shuttingDown>>

(* The channel is closed and empty: the loop ends.                         *)
ChannelClosed ==
  /\ pc = "index"
  /\ queue = << >>
  /\ ~fetching
  /\ pc' = "exit"
  /\ UNCHANGED <<node, faults, database, batch, queue, fetching, finishing,
                 depth, unrecoverable, shuttingDown>>

(* The update returns; its fetch thread finds the channel closed.          *)
EndUpdate(next) ==
  /\ pc' = next
  /\ batch' = << >>
  /\ queue' = << >>
  /\ fetching' = FALSE

NothingToCommit ==
  /\ pc = "exit"
  /\ batch = << >>
  /\ EndUpdate("idle")
  /\ UNCHANGED <<node, faults, database, finishing, depth, unrecoverable,
                 shuttingDown>>

Commit ==
  /\ \/ pc = "commit"
     \/ pc = "exit" /\ batch # << >>
  /\ committed' = committed \o batch
  /\ batch' = << >>
  /\ finishing' = (pc = "exit")
  /\ pc' = "trim"
  /\ UNCHANGED <<node, faults, savepoints, queue, fetching, depth,
                 unrecoverable, shuttingDown>>

(* After commit returns: the update returns, or opens the next write       *)
(* transaction and looks at SHUTTING_DOWN.                                 *)
AfterSavepoints ==
  IF finishing
    THEN EndUpdate("idle")
    ELSE /\ pc' = IF shuttingDown THEN "exit" ELSE "index"
         /\ UNCHANGED <<batch, queue, fetching>>

(* update_savepoints, first transaction: make room for a savepoint.        *)
TrimSavepoints ==
  /\ pc = "trim"
  /\ IF SavepointDue(height)
       THEN /\ savepoints' = IF Len(savepoints) >= MaxSavepoints
                               THEN Tail(savepoints) ELSE savepoints
            /\ pc' = "save"
            /\ UNCHANGED <<batch, queue, fetching>>
       ELSE /\ AfterSavepoints
            /\ UNCHANGED savepoints
  /\ UNCHANGED <<node, faults, committed, finishing, depth, unrecoverable,
                 shuttingDown>>

(* update_savepoints, second transaction: save the committed database.     *)
CreateSavepoint ==
  /\ pc = "save"
  /\ savepoints' = Append(savepoints, committed)
  /\ AfterSavepoints
  /\ UNCHANGED <<node, faults, committed, finishing, depth, unrecoverable,
                 shuttingDown>>

(* detect_reorg on a block that does not extend the committed chain.       *)
ReorgDetected ==
  /\ pc = "index"
  /\ queue # << >>
  /\ ~Extends(Head(queue))
  /\ pc' = "detect"
  /\ depth' = 1
  /\ UNCHANGED <<node, faults, database, batch, queue, fetching, finishing,
                 unrecoverable, shuttingDown>>

(* One turn of detect_reorg's search for the fork, one RPC call each.  The *)
(* error drops the write transaction.                                      *)
SearchFork ==
  /\ pc = "detect"
  /\ IF depth < MaxDepth(height)
       THEN /\ UNCHANGED unrecoverable
            /\ IF IndexHash(height, depth) = NodeHash(height, depth)
                 THEN /\ EndUpdate("handle")
                      /\ UNCHANGED depth
                 ELSE /\ depth' = depth + 1
                      /\ UNCHANGED <<pc, batch, queue, fetching>>
       ELSE /\ unrecoverable' = TRUE
            /\ EndUpdate("idle")
            /\ UNCHANGED depth
  /\ UNCHANGED <<node, faults, database, finishing, shuttingDown>>

RestoreOnly(i) ==  \* a mutant: keeps the savepoints taken later
  /\ committed' = savepoints[i]
  /\ UNCHANGED savepoints

RestoreNewest(i) ==  \* a mutant: takes the newest savepoint
  /\ committed' = savepoints[Len(savepoints)]
  /\ UNCHANGED savepoints

(* wtx.restore_savepoint: the database is the one saved, and the           *)
(* savepoints taken after it are gone.                                     *)
RestoreSavepoint(i) ==
  /\ committed' = savepoints[i]
  /\ savepoints' = SubSeq(savepoints, 1, i)

(* handle_reorg, then straight back to update_index.                       *)
HandleReorg ==
  /\ pc = "handle"
  /\ IF savepoints = << >>
       THEN /\ pc' = "panicked"
            /\ UNCHANGED database
       ELSE /\ RestoreSavepoint(1)
            /\ pc' = "begin"
  /\ UNCHANGED <<node, faults, batch, queue, fetching, finishing, depth,
                 unrecoverable, shuttingDown>>

-----------------------------------------------------------------------------
(* Faults and shutdown                                                     *)

(* get_block_with_retries gives up: the fetch thread ends early.           *)
FetchGivesUp ==
  /\ faults < MaxFaults
  /\ fetching
  /\ faults' = faults + 1
  /\ fetching' = FALSE
  /\ UNCHANGED <<node, database, pc, batch, queue, finishing, depth,
                 unrecoverable, shuttingDown>>

(* An RPC call of the index thread fails: Index::update returns the error. *)
RpcFails ==
  /\ faults < MaxFaults
  /\ pc \in {"begin", "detect", "trim"}
  /\ faults' = faults + 1
  /\ EndUpdate("idle")
  /\ UNCHANGED <<node, database, finishing, depth, unrecoverable,
                 shuttingDown>>

(* The process dies and is started again: the database is what it was at   *)
(* its last commit.                                                        *)
Crash ==
  /\ faults < MaxFaults
  /\ faults' = faults + 1
  /\ EndUpdate("idle")
  /\ finishing' = FALSE
  /\ depth' = 0
  /\ unrecoverable' = FALSE
  /\ shuttingDown' = FALSE
  /\ UNCHANGED <<node, database>>

RequestShutdown ==
  /\ ~shuttingDown
  /\ shuttingDown' = TRUE
  /\ UNCHANGED <<node, faults, database, pc, batch, queue, fetching,
                 finishing, depth, unrecoverable>>

IndexThread ==
  \/ CallUpdate \/ BeginUpdate \/ IndexBlock \/ ChannelClosed
  \/ NothingToCommit \/ Commit \/ TrimSavepoints \/ CreateSavepoint
  \/ ReorgDetected \/ SearchFork \/ HandleReorg

Node == Mine \/ Reorganise

Faults == FetchGivesUp \/ RpcFails \/ Crash \/ RequestShutdown

Next == Node \/ IndexThread \/ Fetch \/ Faults

Spec == Init /\ [][Next]_vars

(* The operating system runs the index thread and the fetch thread; no     *)
(* fairness for the node, the faults or the user.                          *)
Fairness == WF_vars(IndexThread) /\ WF_vars(Fetch)

FairSpec == Spec /\ Fairness

-----------------------------------------------------------------------------
(* Properties                                                              *)

PrefixOf(s, t) ==
  /\ Len(s) <= Len(t)
  /\ \A h \in 1 .. Len(s) : s[h] = t[h]

(* Every block names the one below it as its parent.                       *)
Linked(s) == \A h \in 2 .. Len(s) : s[h].prev = s[h - 1].id

DataOK ==
  /\ chain \in Seq(Block) /\ chain # << >>
  /\ forks \in Nat
  /\ faults \in 0 .. MaxFaults
  /\ committed \in Seq(Block)
  /\ savepoints \in Seq(Seq(Block))
  /\ pc \in PCs
  /\ batch \in Seq(Block) /\ Len(batch) <= BatchSize
  /\ queue \in Seq(Block) /\ Len(queue) <= ChannelSize + 1
  /\ depth \in Nat

FlagsOK == {fetching, finishing, unrecoverable, shuttingDown} \subseteq BOOLEAN

(* The type invariant of the updater's state: the sizes of the open        *)
(* transaction and of the channel among them.                              *)
TypeOK == DataOK /\ FlagsOK

(* What the open transaction holds in each phase.                          *)
PhaseOK ==
  /\ pc = "index" => Len(batch) < BatchSize
  /\ pc = "commit" => batch # << >>
  /\ pc \in {"trim", "save", "detect", "handle"} => batch = << >>

(* The savepoints form a history of the committed index: no more than      *)
(* MaxSavepoints of them (reorg.rs:87), each an earlier state of the index *)
(* as it is now, each of a greater height than the one before.  A rollback *)
(* that kept newer savepoints, or a savepoint taken twice at one height,   *)
(* would break it; restoring the oldest would then bring back blocks of an *)
(* abandoned branch.                                                       *)
SavepointHistory ==
  /\ Len(savepoints) <= MaxSavepoints
  /\ \A i \in 1 .. Len(savepoints) : PrefixOf(savepoints[i], committed)
  /\ \A i, j \in 1 .. Len(savepoints) :
        i < j => Len(savepoints[i]) < Len(savepoints[j])

(* What SavepointHistory needs to be inductive: the index has grown since  *)
(* the newest savepoint when another is taken, and room has been made.     *)
SavepointRoom ==
  /\ pc \in {"trim", "save"} =>
       \A i \in 1 .. Len(savepoints) : Len(savepoints[i]) < Len(committed)
  /\ pc = "save" => Len(savepoints) < MaxSavepoints

(* What FullWindowCoversReorg needs to be inductive: from height Interval  *)
(* on, savepoints stand at multiples of Interval, so each lies at least    *)
(* Interval above the one before.                                          *)
SavepointSpacing ==
  /\ \A i \in 1 .. Len(savepoints) :
       Len(savepoints[i]) >= Interval => Len(savepoints[i]) % Interval = 0
  /\ \A i, j \in 1 .. Len(savepoints) :
       i < j /\ Len(savepoints[i]) >= Interval =>
         (j - i) * Interval <= Len(savepoints[j]) - Len(savepoints[i])
  /\ pc = "save" /\ Len(committed) >= Interval =>
       Len(committed) % Interval = 0
  /\ pc = "handle" => depth < MaxDepth(height)

(* What max_recoverable_reorg_depth (reorg.rs:35) is for: once the window  *)
(* of savepoints is full and past the first Interval heights, the oldest   *)
(* savepoint lies below every common block that detect_reorg can report,   *)
(* so that restoring it undoes the whole reorg it calls Recoverable.       *)
FullWindowCoversReorg ==
  /\ pc = "handle"
  /\ Len(savepoints) = MaxSavepoints
  /\ Len(savepoints[1]) >= Interval
  => Len(savepoints[1]) <= height - depth

(* The committed index is a chain: every block it holds extends the block  *)
(* below it.  detect_reorg (updater.rs:332) is there to guarantee it.      *)
ChainLinked == Linked(committed)

SavepointHeights == [i \in 1 .. Len(savepoints) |-> Len(savepoints[i])]

(* The database is a revertible log of blocks, the savepoints its marks.   *)
Database == INSTANCE RevertibleLog
  WITH Entry <- Block, MaxExtend <- BatchSize, MaxMarks <- MaxSavepoints,
       log <- committed,
       marks <- SavepointHeights

(* Every commit extends the index by at most one batch, and every rollback *)
(* cuts it back to the oldest savepoint height: commit (updater.rs:665),   *)
(* update_savepoints and handle_reorg implement RevertibleLog.             *)
DatabaseIsRevertibleLog == Database!LogSpec

(* The index follows the node: the reorganisations, faults and new blocks  *)
(* are finitely many, so it ends up equal to the node's chain unless the   *)
(* process is asked to stop.                                               *)
CatchesUp == <>[](committed = chain \/ shuttingDown)

(* The index thread ends after a shutdown request: the join in             *)
(* gracefully_shutdown_indexer (lib.rs:189) returns.                       *)
ShutdownCompletes ==
  shuttingDown ~> (pc \in {"stopped", "panicked"} \/ ~shuttingDown)

=============================================================================
