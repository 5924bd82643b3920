-------------------------- MODULE ReorgIndexProofs --------------------------
(***************************************************************************)
(* Theorems about ReorgIndex, for every value of its constants.            *)
(***************************************************************************)
EXTENDS MCReorgRace, SequenceTheorems, TLAPS

-----------------------------------------------------------------------------
(* Type correctness                                                        *)

(* The flags are Boolean.                                                  *)
LEMMA FlagsStep == FlagsOK /\ [Next]_vars => FlagsOK'
<1> SUFFICES ASSUME FlagsOK, [Next]_vars PROVE FlagsOK'
  OBVIOUS
<1> USE DEF FlagsOK
<1>1. CASE Mine
  BY <1>1 DEF Mine, database
<1>2. CASE Reorganise
  BY <1>2 DEF Reorganise, ReorgTo, database
<1>3. CASE CallUpdate
  BY <1>3 DEF CallUpdate, database, node
<1>4. CASE BeginUpdate
  BY <1>4 DEF BeginUpdate, database, node
<1>5. CASE Fetch
  BY <1>5 DEF Fetch, database, node
<1>6. CASE IndexBlock
  BY <1>6 DEF IndexBlock, BatchFull, database, node
<1>7. CASE ChannelClosed
  BY <1>7 DEF ChannelClosed, database, node
<1>8. CASE NothingToCommit
  BY <1>8 DEF NothingToCommit, EndUpdate, database, node
<1>9. CASE Commit
  BY <1>9 DEF Commit, node
<1>10. CASE TrimSavepoints
  BY <1>10 DEF TrimSavepoints, AfterSavepoints, EndUpdate, node
<1>11. CASE CreateSavepoint
  BY <1>11 DEF CreateSavepoint, AfterSavepoints, EndUpdate, node
<1>12. CASE ReorgDetected
  BY <1>12 DEF ReorgDetected, database, node
<1>13. CASE SearchFork
  BY <1>13 DEF SearchFork, EndUpdate, database, node
<1>14. CASE HandleReorg
  BY <1>14 DEF HandleReorg, database, node
<1>15. CASE FetchGivesUp
  BY <1>15 DEF FetchGivesUp, database, node
<1>16. CASE RpcFails
  BY <1>16 DEF RpcFails, EndUpdate, database, node
<1>17. CASE Crash
  BY <1>17 DEF Crash, EndUpdate, database, node
<1>18. CASE RequestShutdown
  BY <1>18 DEF RequestShutdown, database, node
<1>19. CASE UNCHANGED vars
  BY <1>19 DEF vars
<1>20. QED
  BY <1>1, <1>2, <1>3, <1>4, <1>5, <1>6, <1>7, <1>8, <1>9, <1>10, <1>11, <1>12, <1>13, <1>14, <1>15, <1>16, <1>17, <1>18, <1>19
     DEF Next, Node, IndexThread, Faults

(* Only the first block of a batch can fail detect_reorg's comparison: the *)
(* block below any other one is not committed, and no hash is found.       *)
LEMMA ReorgOnlyAtBatchStart ==
  ASSUME DataOK, NEW b \in Block, ~Extends(b)
  PROVE  batch = << >>
<1>1. PICK stored \in IndexHash(height, 1) : stored[2].id # b.prev
  BY DEF Extends
<1>2. Len(committed) \in Nat /\ Len(batch) \in Nat
  BY LenProperties DEF DataOK
<1>3. CASE height = 0
  BY <1>2, <1>3, EmptySeq DEF DataOK, height
<1>4. CASE height # 0
  <2>1. 1 <= height
    BY <1>2, <1>4 DEF height
  <2>2. height - 1 < Len(committed)
    BY <1>1, <2>1 DEF IndexHash, HashAt
  <2>3. QED
    BY <1>2, <2>2, EmptySeq DEF DataOK, height
<1>5. QED
  BY <1>3, <1>4

(* A chain with one more block is a chain.                                 *)
LEMMA AppendBlock ==
  ASSUME NEW s \in Seq(Block), NEW b \in Block
  PROVE  Append(s, b) \in Seq(Block) /\ Append(s, b) # << >>
BY AppendProperties

(* Data and phases, together: neither is inductive without the other.      *)
LEMMA DataStep == DataOK /\ PhaseOK /\ [Next]_vars => DataOK' /\ PhaseOK'
<1> SUFFICES ASSUME DataOK, PhaseOK, [Next]_vars PROVE DataOK' /\ PhaseOK'
  OBVIOUS
<1> USE ConstantsAssumption DEF DataOK, PhaseOK, PCs
<1>a. /\ Len(committed) \in Nat /\ Len(batch) \in Nat
      /\ Len(queue) \in Nat /\ Len(chain) \in Nat \ {0}
      /\ Len(savepoints) \in Nat
  BY LenProperties, EmptySeq
<1>b. << >> \in Seq(Block) /\ Len(<< >>) = 0
  BY EmptySeq
<1>1. CASE Mine
  <2>1. chain[Len(chain)] \in Block
    BY <1>a, ElementOfSeq
  <2>2. [id |-> forks, prev |-> chain[Len(chain)].id] \in Block
    BY <2>1 DEF Block
  <2>3. chain' \in Seq(Block) /\ chain' # << >>
    <3>1. chain' = Append(chain, [id |-> forks, prev |-> chain[Len(chain)].id])
      BY <1>1, Zenon DEF Mine
    <3>2. chain \in Seq(Block)
      OBVIOUS
    <3> HIDE DEF DataOK, PhaseOK
    <3>3. QED
      BY <2>2, <3>1, <3>2, AppendBlock
  <2>4. QED
    BY <1>1, <2>3 DEF Mine, database
<1>2. CASE Reorganise
  <2>1. PICK keep \in 1 .. Len(chain) - 1 : ReorgTo(keep, Len(chain) + 1)
    BY <1>2 DEF Reorganise
  <2>2. \A h \in 1 .. Len(chain) : chain[h] \in Block
    BY ElementOfSeq
  <2>3. chain' \in [1 .. Len(chain) + 1 -> Block]
    <3>1. chain[keep].id \in Nat
      <4>1. chain[keep] \in Block
        BY <1>a, <2>1, <2>2
      <4>2. QED
        BY <4>1 DEF Block
    <3>2. ASSUME NEW h \in 1 .. Len(chain) + 1
          PROVE  (IF h <= keep THEN chain[h]
                  ELSE [id |-> forks + 1,
                        prev |-> IF h = keep + 1 THEN chain[keep].id
                                                 ELSE forks + 1]) \in Block
      <4>1. CASE h <= keep
        BY <1>a, <2>2, <4>1
      <4>2. CASE ~(h <= keep)
        <5>1. /\ (IF h = keep + 1 THEN chain[keep].id ELSE forks + 1) \in Nat
              /\ forks + 1 \in Nat
          BY <3>1
        <5> DEFINE p == IF h = keep + 1 THEN chain[keep].id ELSE forks + 1
        <5>2. [id |-> forks + 1, prev |-> p] \in Block
          <6> HIDE DEF p, DataOK, PhaseOK
          <6>1. forks + 1 \in Nat /\ p \in Nat
            BY <5>1 DEF p
          <6>2. QED
            BY <6>1, Zenon DEF Block
        <5>3. QED
          BY <4>2, <5>2, Zenon
      <4>3. QED
        BY <4>1, <4>2
    <3>3. QED
      BY <2>1, <3>2 DEF ReorgTo
  <2>4. chain' \in Seq(Block)
    <3>1. Len(chain) + 1 \in Nat
      BY <1>a
    <3>2. [1 .. Len(chain) + 1 -> Block] \in {[1 .. n -> Block] : n \in Nat}
      BY <3>1, Zenon
    <3>3. QED
      <4>1. chain' \in UNION {[1 .. n -> Block] : n \in Nat}
        BY <2>3, <3>2, Zenon
      <4>2. QED
        BY <4>1, SeqDef, Zenon
  <2>5. chain' # << >>
    BY <1>a, <2>3
  <2>6. forks' \in Nat
    BY <2>1 DEF ReorgTo
  <2>7. QED
    BY <2>1, <2>4, <2>5, <2>6 DEF ReorgTo, database
<1>3. CASE CallUpdate
  BY <1>3 DEF CallUpdate, database, node
<1>4. CASE BeginUpdate
  BY <1>4 DEF BeginUpdate, database, node
<1>5. CASE Fetch
  <2>1. CASE NextFetch < Len(chain)
    <3>1. chain[NextFetch + 1] \in Block
      BY <1>a, <2>1, ElementOfSeq DEF NextFetch, height
    <3>2. queue' \in Seq(Block) /\ Len(queue') = Len(queue) + 1
      <4>1. queue' = Append(queue, chain[NextFetch + 1])
        BY <1>5, <2>1 DEF Fetch
      <4>2. QED
        BY <3>1, <4>1, AppendProperties
    <3>3. QED
      BY <1>a, <1>5, <3>2 DEF Fetch, database, node
  <2>2. CASE ~(NextFetch < Len(chain))
    BY <1>5, <2>2 DEF Fetch, database, node
  <2>3. QED
    BY <2>1, <2>2
<1>6. CASE IndexBlock
  <2>1. /\ Head(queue) \in Block
        /\ queue' \in Seq(Block)
        /\ Len(queue') = Len(queue) - 1
    BY <1>6, HeadTailProperties DEF IndexBlock, BatchFull
  <2>2. /\ batch' \in Seq(Block)
        /\ batch' # << >>
        /\ Len(batch') = Len(batch) + 1
    <3>1. batch' = Append(batch, Head(queue))
      BY <1>6 DEF IndexBlock, BatchFull
    <3>2. QED
      <4>1. batch \in Seq(Block)
        BY DEF DataOK
      <4>2. QED
        BY ONLY <2>1, <3>1, <4>1, AppendProperties
  <2>3. pc' \in {"commit", "exit", "index"}
    BY <1>6 DEF IndexBlock, BatchFull
  <2>4. pc' = "index" => Len(batch') # BatchSize
    BY <1>6 DEF IndexBlock, BatchFull
  <2>5. pc = "index"
    BY <1>6 DEF IndexBlock, BatchFull
  <2>6. Len(batch') <= BatchSize /\ (pc' = "index" => Len(batch') < BatchSize)
    BY <1>a, <2>2, <2>4, <2>5
  <2>7. Len(queue') <= ChannelSize + 1
    BY <1>a, <2>1
  <2>8. UNCHANGED <<chain, forks, faults, committed, savepoints, depth>>
    BY <1>6 DEF IndexBlock, BatchFull, database, node
  <2>9. QED
    BY <2>1, <2>2, <2>3, <2>6, <2>7, <2>8
<1>7. CASE ChannelClosed
  BY <1>7 DEF ChannelClosed, database, node
<1>8. CASE NothingToCommit
  BY <1>8 DEF NothingToCommit, EndUpdate, database, node
<1>9. CASE Commit
  <2>1. committed' \in Seq(Block)
    BY <1>9, ConcatProperties DEF Commit
  <2>2. QED
    BY <1>9, <2>1 DEF Commit, node
<1>10. CASE TrimSavepoints
  <2>1. pc' \in {"save", "idle", "exit", "index"} /\ batch' = << >>
    BY <1>10 DEF TrimSavepoints, AfterSavepoints, EndUpdate
  <2>2. queue' \in Seq(Block) /\ Len(queue') <= ChannelSize + 1
    <3>1. queue' \in {queue, << >>}
      BY <1>10 DEF TrimSavepoints, AfterSavepoints, EndUpdate
    <3>2. QED
      <4>1. CASE queue' = queue
        BY <4>1
      <4>2. CASE queue' = << >>
        BY <1>b, <4>2
      <4>3. QED
        BY <3>1, <4>1, <4>2
  <2>3. savepoints' \in Seq(Seq(Block))
    <3>1. savepoints' \in {savepoints, Tail(savepoints)}
      BY <1>10 DEF TrimSavepoints
    <3>2. savepoints' # savepoints => savepoints # << >>
      BY <1>10, <1>a, EmptySeq DEF TrimSavepoints
    <3>3. savepoints # << >> => Tail(savepoints) \in Seq(Seq(Block))
      BY HeadTailProperties
    <3>4. QED
      BY <3>1, <3>2, <3>3
  <2>4. UNCHANGED <<chain, forks, faults, committed, depth>>
    BY <1>10 DEF TrimSavepoints, node
  <2>5. QED
    BY <1>a, <2>1, <2>2, <2>3, <2>4, EmptySeq
<1>11. CASE CreateSavepoint
  <2>1. pc' \in {"save", "idle", "exit", "index"} /\ batch' = << >>
    BY <1>11 DEF CreateSavepoint, AfterSavepoints, EndUpdate
  <2>2. queue' \in Seq(Block) /\ Len(queue') <= ChannelSize + 1
    <3>1. queue' \in {queue, << >>}
      BY <1>11 DEF CreateSavepoint, AfterSavepoints, EndUpdate
    <3>2. QED
      <4>1. CASE queue' = queue
        BY <4>1
      <4>2. CASE queue' = << >>
        BY <1>b, <4>2
      <4>3. QED
        BY <3>1, <4>1, <4>2
  <2>3. savepoints' \in Seq(Seq(Block))
    BY <1>11, AppendProperties DEF CreateSavepoint
  <2>4. UNCHANGED <<chain, forks, faults, committed, depth>>
    BY <1>11 DEF CreateSavepoint, node
  <2>5. QED
    BY <1>a, <2>1, <2>2, <2>3, <2>4, EmptySeq
<1>12. CASE ReorgDetected
  <2>1. Head(queue) \in Block
    BY <1>12, HeadTailProperties DEF ReorgDetected
  <2>2. batch = << >>
    BY <1>12, <2>1, ReorgOnlyAtBatchStart DEF ReorgDetected
  <2>3. QED
    BY <1>12, <2>2 DEF ReorgDetected, database, node
<1>13. CASE SearchFork
  <2>1. batch' = << >> /\ pc' \in {"idle", "handle", "detect"}
    BY <1>13 DEF SearchFork, EndUpdate
  <2>2. queue' \in Seq(Block) /\ Len(queue') <= ChannelSize + 1
    <3>1. queue' \in {queue, << >>}
      BY <1>13 DEF SearchFork, EndUpdate
    <3>2. QED
      <4>1. CASE queue' = queue
        BY <4>1
      <4>2. CASE queue' = << >>
        BY <1>b, <4>2
      <4>3. QED
        BY <3>1, <4>1, <4>2
  <2>3. depth' \in Nat
    BY <1>13 DEF SearchFork
  <2>4. UNCHANGED <<chain, forks, faults, committed, savepoints>>
    BY <1>13 DEF SearchFork, database, node
  <2>5. QED
    BY <1>a, <2>1, <2>2, <2>3, <2>4, EmptySeq
<1>14. CASE HandleReorg
  <2>1. CASE savepoints = << >>
    BY <1>14, <2>1 DEF HandleReorg, database, node
  <2>2. CASE savepoints # << >>
    <3>1. 1 \in 1 .. Len(savepoints)
      BY <1>a, <2>2, EmptySeq
    <3>2. savepoints[1] \in Seq(Block)
      BY <3>1, ElementOfSeq
    <3>3. \A i \in 1 .. 1 : savepoints[i] \in Seq(Block)
      BY <3>2
    <3>4. SubSeq(savepoints, 1, 1) \in Seq(Seq(Block))
      BY <3>3, SubSeqProperties
    <3>5. QED
      BY <1>14, <2>2, <3>2, <3>4 DEF HandleReorg, RestoreSavepoint, node
  <2>3. QED
    BY <2>1, <2>2
<1>15. CASE FetchGivesUp
  BY <1>15 DEF FetchGivesUp, database, node
<1>16. CASE RpcFails
  BY <1>16 DEF RpcFails, EndUpdate, database, node
<1>17. CASE Crash
  BY <1>17 DEF Crash, EndUpdate, database, node
<1>18. CASE RequestShutdown
  BY <1>18 DEF RequestShutdown, database, node
<1>19. CASE UNCHANGED vars
  BY <1>19 DEF vars
<1>20. QED
  BY <1>1, <1>2, <1>3, <1>4, <1>5, <1>6, <1>7, <1>8, <1>9, <1>10, <1>11, <1>12, <1>13, <1>14, <1>15, <1>16, <1>17, <1>18, <1>19
     DEF Next, Node, IndexThread, Faults

(* Every reachable state of the updater is well typed.                     *)
THEOREM TypeCorrect == Spec => []TypeOK
<1>1. Init => DataOK /\ PhaseOK
  BY ConstantsAssumption DEF Init, DataOK, PhaseOK, Genesis, Block, PCs
<1>2. Init => FlagsOK
  BY DEF Init, FlagsOK
<1>3. DataOK /\ PhaseOK /\ FlagsOK /\ [Next]_vars
      => (DataOK /\ PhaseOK /\ FlagsOK)'
  BY DataStep, FlagsStep
<1>4. QED
  BY <1>1, <1>2, <1>3, PTL DEF Spec, TypeOK

(* The data and phase invariants hold in every reachable state.            *)
LEMMA DataCorrect == Spec => [](DataOK /\ PhaseOK)
<1>1. Init => DataOK /\ PhaseOK
  BY ConstantsAssumption DEF Init, DataOK, PhaseOK, Genesis, Block, PCs
<1>2. QED
  BY <1>1, DataStep, PTL DEF Spec

-----------------------------------------------------------------------------
(* The savepoints                                                          *)

(* A sequence is a prefix of itself.                                       *)
LEMMA PrefixOfItself == ASSUME NEW s PROVE PrefixOf(s, s)
BY DEF PrefixOf

(* A prefix of a prefix is a prefix.                                       *)
LEMMA PrefixTransitive ==
  ASSUME NEW s \in Seq(Block), NEW t \in Seq(Block), NEW u \in Seq(Block),
         PrefixOf(s, t), PrefixOf(t, u)
  PROVE  PrefixOf(s, u)
BY LenProperties DEF PrefixOf

(* A sequence is a prefix of what a batch makes of it.                     *)
LEMMA PrefixOfConcat ==
  ASSUME NEW s \in Seq(Block), NEW t \in Seq(Block)
  PROVE  PrefixOf(s, s \o t)
<1>1. /\ Len(s) \in Nat /\ Len(t) \in Nat
      /\ Len(s \o t) = Len(s) + Len(t)
      /\ \A i \in 1 .. Len(s) + Len(t) :
           (s \o t)[i] = IF i <= Len(s) THEN s[i] ELSE t[i - Len(s)]
  BY ConcatProperties, LenProperties
<1>2. QED
  BY <1>1 DEF PrefixOf

(* The steps that change neither the database nor enter update_savepoints. *)
LEMMA DatabaseSteps ==
  ASSUME [Next]_vars
  PROVE  \/ UNCHANGED database /\ (pc' \in {"trim", "save"} => pc' = pc)
         \/ Commit \/ TrimSavepoints \/ CreateSavepoint \/ HandleReorg
<1>1. CASE Mine
  BY <1>1 DEF Mine
<1>2. CASE Reorganise
  BY <1>2 DEF Reorganise, ReorgTo
<1>3. CASE CallUpdate
  BY <1>3 DEF CallUpdate
<1>4. CASE BeginUpdate
  BY <1>4 DEF BeginUpdate
<1>5. CASE Fetch
  BY <1>5 DEF Fetch
<1>6. CASE IndexBlock
  BY <1>6 DEF IndexBlock, BatchFull
<1>7. CASE ChannelClosed
  BY <1>7 DEF ChannelClosed
<1>8. CASE NothingToCommit
  BY <1>8 DEF NothingToCommit, EndUpdate
<1>9. CASE ReorgDetected
  BY <1>9 DEF ReorgDetected
<1>10. CASE SearchFork
  BY <1>10 DEF SearchFork, EndUpdate
<1>11. CASE FetchGivesUp
  BY <1>11 DEF FetchGivesUp
<1>12. CASE RpcFails
  BY <1>12 DEF RpcFails, EndUpdate
<1>13. CASE Crash
  BY <1>13 DEF Crash, EndUpdate
<1>14. CASE RequestShutdown
  BY <1>14 DEF RequestShutdown
<1>15. CASE UNCHANGED vars
  BY <1>15 DEF vars, database
<1>16. QED
  BY <1>1, <1>2, <1>3, <1>4, <1>5, <1>6, <1>7, <1>8, <1>9, <1>10, <1>11, <1>12,
     <1>13, <1>14, <1>15 DEF Next, Node, IndexThread, Faults

(* Dropping the oldest savepoint shifts the others down.                   *)
LEMMA TailOfSavepoints ==
  ASSUME DataOK, savepoints # << >>
  PROVE  /\ Len(savepoints) \in Nat /\ Len(Tail(savepoints)) \in Nat
         /\ Len(Tail(savepoints)) = Len(savepoints) - 1
         /\ \A i \in 1 .. Len(Tail(savepoints)) :
              /\ i + 1 \in 1 .. Len(savepoints)
              /\ Tail(savepoints)[i] = savepoints[i + 1]
BY HeadTailProperties, LenProperties DEF DataOK

(* A new savepoint stands behind the others.                               *)
LEMMA AppendToSavepoints ==
  ASSUME DataOK
  PROVE  /\ Len(savepoints) \in Nat
         /\ Len(Append(savepoints, committed)) = Len(savepoints) + 1
         /\ \A i \in 1 .. Len(savepoints) :
              Append(savepoints, committed)[i] = savepoints[i]
         /\ Append(savepoints, committed)[Len(savepoints) + 1] = committed
BY AppendProperties, LenProperties DEF DataOK

(* The oldest savepoint, when there is one.                                *)
LEMMA FirstSavepoint ==
  ASSUME DataOK, savepoints # << >>
  PROVE  /\ 1 \in 1 .. Len(savepoints)
         /\ savepoints[1] \in Seq(Block)
         /\ SubSeq(savepoints, 1, 1) = <<savepoints[1]>>
<1>1. 1 \in 1 .. Len(savepoints)
  BY LenProperties, EmptySeq DEF DataOK
<1>2. \A i \in 1 .. 1 : savepoints[i] \in Seq(Block)
  BY <1>1, ElementOfSeq DEF DataOK
<1>3. /\ SubSeq(savepoints, 1, 1) \in Seq(Seq(Block))
      /\ Len(SubSeq(savepoints, 1, 1)) = 1
      /\ SubSeq(savepoints, 1, 1)[1] = savepoints[1]
  BY <1>2, SubSeqProperties
<1>4. <<savepoints[1]>> \in Seq(Seq(Block))
  BY <1>2
<1>5. /\ Len(<<savepoints[1]>>) = 1
      /\ <<savepoints[1]>>[1] = savepoints[1]
  OBVIOUS
<1>6. \A i \in 1 .. Len(SubSeq(savepoints, 1, 1)) :
        SubSeq(savepoints, 1, 1)[i] = <<savepoints[1]>>[i]
  BY <1>3, <1>5
<1>7. SubSeq(savepoints, 1, 1) = <<savepoints[1]>>
  BY <1>3, <1>4, <1>5, <1>6, SeqEqual
<1>8. QED
  BY <1>1, <1>2, <1>7

(* Every step of the updater keeps the savepoints a history.               *)
LEMMA SavepointStep ==
  ASSUME DataOK, PhaseOK, DataOK', SavepointHistory, SavepointRoom,
         [Next]_vars
  PROVE  SavepointHistory' /\ SavepointRoom'
<1> USE ConstantsAssumption
<1>a. \A i \in 1 .. Len(savepoints) :
        savepoints[i] \in Seq(Block) /\ Len(savepoints[i]) \in Nat
  BY ElementOfSeq, LenProperties DEF DataOK
<1>b. Len(committed) \in Nat /\ Len(batch) \in Nat /\ Len(savepoints) \in Nat
  BY LenProperties DEF DataOK
<1>1. CASE UNCHANGED database /\ (pc' \in {"trim", "save"} => pc' = pc)
  BY <1>1 DEF database, SavepointHistory, SavepointRoom, PrefixOf
<1>2. CASE Commit
  <2>1. /\ committed' = committed \o batch
        /\ savepoints' = savepoints
        /\ pc' = "trim"
    BY <1>2 DEF Commit
  <2>2. batch # << >>
    BY <1>2 DEF Commit, PhaseOK
  <2>3. Len(committed') = Len(committed) + Len(batch) /\ Len(batch) > 0
    BY <2>1, <2>2, <1>b, ConcatProperties, EmptySeq DEF DataOK
  <2>4. PrefixOf(committed, committed')
    BY <2>1, PrefixOfConcat DEF DataOK
  <2>5. \A i \in 1 .. Len(savepoints) : PrefixOf(savepoints[i], committed')
    BY <1>a, <2>4, PrefixTransitive DEF DataOK, SavepointHistory
  <2>6. \A i \in 1 .. Len(savepoints) : Len(savepoints[i]) < Len(committed')
    BY <1>a, <1>b, <2>3 DEF SavepointHistory, PrefixOf
  <2>7. QED
    BY <2>1, <2>5, <2>6 DEF SavepointHistory, SavepointRoom
<1>3. CASE TrimSavepoints
  <2>1. UNCHANGED committed /\ pc = "trim" /\ pc' # "trim"
    BY <1>3 DEF TrimSavepoints, AfterSavepoints, EndUpdate
  <2>2. CASE savepoints' = savepoints /\ ~(Len(savepoints) >= MaxSavepoints)
    BY <1>b, <2>1, <2>2 DEF SavepointHistory, SavepointRoom, PrefixOf
  <2>3. CASE savepoints' = savepoints /\ pc' # "save"
    BY <2>1, <2>3 DEF SavepointHistory, SavepointRoom, PrefixOf
  <2>4. CASE savepoints' = Tail(savepoints) /\ Len(savepoints) >= MaxSavepoints
    <3>1. savepoints # << >>
      BY <2>4, EmptySeq DEF DataOK
    <3>2. /\ Len(savepoints') \in Nat
          /\ Len(savepoints') = Len(savepoints) - 1
          /\ \A i \in 1 .. Len(savepoints') :
               /\ i + 1 \in 1 .. Len(savepoints)
               /\ savepoints'[i] = savepoints[i + 1]
      BY <2>4, <3>1, TailOfSavepoints
    <3>3. Len(savepoints') < MaxSavepoints
      BY <1>b, <3>2 DEF SavepointHistory
    <3>4. \A i \in 1 .. Len(savepoints') : PrefixOf(savepoints'[i], committed')
      BY <2>1, <3>2 DEF SavepointHistory
    <3>5. \A i, j \in 1 .. Len(savepoints') :
            i < j => Len(savepoints'[i]) < Len(savepoints'[j])
      <4> SUFFICES ASSUME NEW i \in 1 .. Len(savepoints'),
                          NEW j \in 1 .. Len(savepoints'), i < j
                   PROVE  Len(savepoints'[i]) < Len(savepoints'[j])
        OBVIOUS
      <4>1. /\ i + 1 \in 1 .. Len(savepoints) /\ j + 1 \in 1 .. Len(savepoints)
            /\ i + 1 < j + 1
        BY <3>2
      <4>2. Len(savepoints[i + 1]) < Len(savepoints[j + 1])
        BY <4>1 DEF SavepointHistory
      <4>3. QED
        BY <3>2, <4>2
    <3>6. \A i \in 1 .. Len(savepoints') : Len(savepoints'[i]) < Len(committed')
      BY <2>1, <3>2 DEF SavepointRoom
    <3>7. QED
      BY <3>2, <3>3, <3>4, <3>5, <3>6 DEF SavepointHistory, SavepointRoom
  <2>5. QED
    BY <1>3, <2>2, <2>3, <2>4 DEF TrimSavepoints, AfterSavepoints, EndUpdate
<1>4. CASE CreateSavepoint
  <2>1. /\ committed' = committed
        /\ savepoints' = Append(savepoints, committed)
        /\ pc = "save" /\ pc' \notin {"trim", "save"}
    BY <1>4 DEF CreateSavepoint, AfterSavepoints, EndUpdate
  <2>2. /\ Len(savepoints') = Len(savepoints) + 1
        /\ \A i \in 1 .. Len(savepoints) : savepoints'[i] = savepoints[i]
        /\ savepoints'[Len(savepoints) + 1] = committed
    BY <2>1, AppendToSavepoints
  <2>3. Len(savepoints') <= MaxSavepoints
    BY <1>b, <2>1, <2>2 DEF SavepointRoom
  <2>4. \A i \in 1 .. Len(savepoints') : PrefixOf(savepoints'[i], committed')
    BY <1>b, <2>1, <2>2, PrefixOfItself DEF SavepointHistory
  <2>5. \A i, j \in 1 .. Len(savepoints') :
          i < j => Len(savepoints'[i]) < Len(savepoints'[j])
    BY <1>b, <2>1, <2>2 DEF SavepointHistory, SavepointRoom
  <2>6. QED
    BY <2>1, <2>3, <2>4, <2>5 DEF SavepointHistory, SavepointRoom
<1>5. CASE HandleReorg
  <2>1. pc' \notin {"trim", "save"}
    BY <1>5 DEF HandleReorg
  <2>2. CASE savepoints = << >>
    BY <1>5, <2>1, <2>2
       DEF HandleReorg, database, SavepointHistory, SavepointRoom, PrefixOf
  <2>3. CASE savepoints # << >>
    <3>1. committed' = savepoints[1] /\ savepoints' = <<savepoints[1]>>
      BY <1>5, <2>3, FirstSavepoint DEF HandleReorg, RestoreSavepoint
    <3>2. Len(savepoints') = 1 /\ savepoints'[1] = committed'
      BY <3>1
    <3>3. QED
      BY <2>1, <3>2, PrefixOfItself DEF SavepointHistory, SavepointRoom
  <2>4. QED
    BY <2>2, <2>3
<1>6. QED
  BY <1>1, <1>2, <1>3, <1>4, <1>5, DatabaseSteps

(* In every reachable state the savepoints are at most MaxSavepoints       *)
(* earlier states of the committed index, in the order of their heights.   *)
THEOREM SavepointsAreHistory == Spec => []SavepointHistory
<1>1. Init => SavepointHistory /\ SavepointRoom
  BY ConstantsAssumption DEF Init, SavepointHistory, SavepointRoom
<1>2. DataOK /\ PhaseOK /\ DataOK' /\ SavepointHistory /\ SavepointRoom
      /\ [Next]_vars => SavepointHistory' /\ SavepointRoom'
  BY SavepointStep
<1>3. QED
  BY <1>1, <1>2, DataCorrect, PTL DEF Spec

-----------------------------------------------------------------------------
(* The database implements a revertible log                                *)

HeightsSequence ==
  /\ SavepointHeights \in Seq(Nat)
  /\ Len(SavepointHeights) = Len(savepoints)
  /\ Len(savepoints) \in Nat
  /\ \A i \in 1 .. Len(savepoints) :
       /\ SavepointHeights[i] = Len(savepoints[i])
       /\ Len(savepoints[i]) \in Nat

(* The heights of the savepoints are a sequence of numbers.                *)
LEMMA HeightsAreASequence == DataOK => HeightsSequence
<1> SUFFICES ASSUME DataOK PROVE HeightsSequence
  OBVIOUS
<1>1. /\ Len(savepoints) \in Nat
      /\ \A i \in 1 .. Len(savepoints) : Len(savepoints[i]) \in Nat
  BY ElementOfSeq, LenProperties DEF DataOK
<1>2. SavepointHeights \in [1 .. Len(savepoints) -> Nat]
  BY <1>1 DEF SavepointHeights
<1>3. SavepointHeights \in Seq(Nat)
  <2>1. [1 .. Len(savepoints) -> Nat] \in {[1 .. n -> Nat] : n \in Nat}
    BY <1>1, Zenon
  <2>2. SavepointHeights \in UNION {[1 .. n -> Nat] : n \in Nat}
    BY <1>2, <2>1, Zenon
  <2>3. QED
    BY <2>2, SeqDef, Zenon
<1>4. Len(SavepointHeights) = Len(savepoints)
  BY <1>1, <1>2, <1>3, LenProperties
<1>5. QED
  BY <1>1, <1>3, <1>4 DEF SavepointHeights, HeightsSequence

(* Every step of the updater is a step of RevertibleLog or a stutter.      *)
LEMMA DatabaseStep ==
  ASSUME DataOK, PhaseOK, DataOK', SavepointHistory, SavepointRoom,
         [Next]_vars
  PROVE  [Database!LogNext]_<<committed, SavepointHeights>>
<1> USE ConstantsAssumption
<1>a. /\ Len(committed) \in Nat /\ Len(committed') \in Nat
      /\ Len(batch) \in Nat
  BY LenProperties DEF DataOK
<1>b. /\ SavepointHeights \in Seq(Nat)
      /\ Len(SavepointHeights) = Len(savepoints)
      /\ Len(savepoints) \in Nat
      /\ \A i \in 1 .. Len(savepoints) :
           /\ SavepointHeights[i] = Len(savepoints[i])
           /\ Len(savepoints[i]) \in Nat
  BY HeightsAreASequence DEF HeightsSequence
<1>c. /\ SavepointHeights' \in Seq(Nat)
      /\ Len(SavepointHeights') = Len(savepoints')
      /\ Len(savepoints') \in Nat
      /\ \A i \in 1 .. Len(savepoints') :
           /\ SavepointHeights'[i] = Len(savepoints'[i])
           /\ Len(savepoints'[i]) \in Nat
  <2>1. HeightsSequence'
    BY HeightsAreASequence, PTL
  <2>2. QED
    BY <2>1 DEF HeightsSequence
<1>d. savepoints' = savepoints => SavepointHeights' = SavepointHeights
  BY DEF SavepointHeights
<1>1. CASE UNCHANGED database
  BY <1>1, <1>d DEF database
<1>2. CASE Commit
  <2>1. /\ committed' = committed \o batch
        /\ UNCHANGED savepoints
    BY <1>2 DEF Commit
  <2>2. batch # << >> /\ Len(batch) > 0 /\ Len(batch) <= BatchSize
    BY <1>2, EmptySeq DEF Commit, PhaseOK, DataOK
  <2>3. /\ Len(committed') = Len(committed) + Len(batch)
        /\ \A i \in 1 .. Len(committed) : committed'[i] = committed[i]
    BY <1>a, <2>1, ConcatProperties DEF DataOK
  <2>4. Len(committed') - Len(committed) \in 1 .. BatchSize
    BY <1>a, <2>2, <2>3
  <2>5. Database!Extend
    BY <1>d, <2>1, <2>3, <2>4 DEF Database!Extend, DataOK
  <2>6. QED
    BY <2>5 DEF Database!LogNext
<1>3. CASE TrimSavepoints
  <2>1. UNCHANGED committed
    BY <1>3 DEF TrimSavepoints
  <2>2. CASE savepoints' = savepoints
    BY <1>d, <2>1, <2>2
  <2>3. CASE savepoints' = Tail(savepoints) /\ Len(savepoints) >= MaxSavepoints
    <3>1. Len(savepoints) = MaxSavepoints /\ savepoints # << >>
      BY <1>b, <2>3, EmptySeq DEF SavepointHistory, DataOK
    <3>2. /\ Len(savepoints') = Len(savepoints) - 1
          /\ \A i \in 1 .. Len(savepoints') :
               /\ i + 1 \in 1 .. Len(savepoints)
               /\ savepoints'[i] = savepoints[i + 1]
      BY <2>3, <3>1, TailOfSavepoints
    <3>3. SavepointHeights # << >>
      BY <1>b, <3>1, EmptySeq DEF DataOK
    <3>4. /\ Tail(SavepointHeights) \in Seq(Nat)
          /\ Len(Tail(SavepointHeights)) = Len(savepoints) - 1
          /\ \A i \in 1 .. Len(Tail(SavepointHeights)) :
               Tail(SavepointHeights)[i] = SavepointHeights[i + 1]
      BY <1>b, <3>3, HeadTailProperties
    <3>5. \A i \in 1 .. Len(SavepointHeights') :
            SavepointHeights'[i] = Tail(SavepointHeights)[i]
      BY <1>b, <1>c, <3>2, <3>4
    <3>6. SavepointHeights' = Tail(SavepointHeights)
      BY <1>c, <3>2, <3>4, <3>5, SeqEqual
    <3>7. Database!Forget
      BY <1>b, <2>1, <3>1, <3>6 DEF Database!Forget
    <3>8. QED
      BY <3>7 DEF Database!LogNext
  <2>4. QED
    BY <1>3, <2>2, <2>3 DEF TrimSavepoints
<1>4. CASE CreateSavepoint
  <2>1. /\ UNCHANGED committed
        /\ savepoints' = Append(savepoints, committed)
        /\ pc = "save"
    BY <1>4 DEF CreateSavepoint
  <2>2. /\ Len(savepoints') = Len(savepoints) + 1
        /\ \A i \in 1 .. Len(savepoints) : savepoints'[i] = savepoints[i]
        /\ savepoints'[Len(savepoints) + 1] = committed
    BY <2>1, AppendToSavepoints
  <2>3. /\ Append(SavepointHeights, Len(committed)) \in Seq(Nat)
        /\ Len(Append(SavepointHeights, Len(committed))) = Len(savepoints) + 1
        /\ \A i \in 1 .. Len(savepoints) :
             Append(SavepointHeights, Len(committed))[i] = SavepointHeights[i]
        /\ Append(SavepointHeights, Len(committed))[Len(savepoints) + 1]
             = Len(committed)
    BY <1>a, <1>b, AppendProperties
  <2>4. \A i \in 1 .. Len(SavepointHeights') :
          SavepointHeights'[i] = Append(SavepointHeights, Len(committed))[i]
    <3> SUFFICES ASSUME NEW i \in 1 .. Len(SavepointHeights')
                 PROVE  SavepointHeights'[i]
                          = Append(SavepointHeights, Len(committed))[i]
      OBVIOUS
    <3>1. i \in 1 .. Len(savepoints) \/ i = Len(savepoints) + 1
      BY <1>b, <1>c, <2>2
    <3>2. SavepointHeights'[i] = Len(savepoints'[i])
      BY ONLY <1>c, i \in 1 .. Len(SavepointHeights')
    <3>3. CASE i \in 1 .. Len(savepoints)
      BY ONLY <1>b, <2>2, <2>3, <3>2, <3>3
    <3>4. CASE i = Len(savepoints) + 1
      BY ONLY <2>2, <2>3, <3>2, <3>4
    <3>5. QED
      BY ONLY <3>1, <3>3, <3>4
  <2>5. SavepointHeights' = Append(SavepointHeights, Len(committed))
    BY <1>c, <2>2, <2>3, <2>4, SeqEqual
  <2>6. /\ Len(SavepointHeights) < MaxSavepoints
        /\ \A i \in 1 .. Len(SavepointHeights) :
             SavepointHeights[i] < Len(committed)
    BY <1>b, <2>1 DEF SavepointRoom
  <2>7. Database!Mark
    BY <2>1, <2>5, <2>6 DEF Database!Mark
  <2>8. QED
    BY <2>7 DEF Database!LogNext
<1>5. CASE HandleReorg
  <2>1. CASE savepoints = << >>
    BY <1>5, <1>d, <2>1 DEF HandleReorg, database
  <2>2. CASE savepoints # << >>
    <3>1. /\ 1 \in 1 .. Len(savepoints)
          /\ savepoints[1] \in Seq(Block)
          /\ committed' = savepoints[1]
          /\ savepoints' = <<savepoints[1]>>
      BY <1>5, <2>2, FirstSavepoint DEF HandleReorg, RestoreSavepoint
    <3>2. SavepointHeights # << >> /\ SavepointHeights[1] = Len(savepoints[1])
      BY <1>b, <3>1, EmptySeq
    <3>3. SavepointHeights' = <<SavepointHeights[1]>>
      <4>1. Len(savepoints') = 1 /\ savepoints'[1] = savepoints[1]
        BY <3>1
      <4>2. /\ <<SavepointHeights[1]>> \in Seq(Nat)
            /\ Len(<<SavepointHeights[1]>>) = 1
            /\ <<SavepointHeights[1]>>[1] = SavepointHeights[1]
        BY <1>b, <3>1
      <4>3. \A i \in 1 .. Len(SavepointHeights') :
              SavepointHeights'[i] = <<SavepointHeights[1]>>[i]
        BY <1>c, <3>2, <4>1, <4>2
      <4>4. QED
        BY <1>c, <4>1, <4>2, <4>3, SeqEqual
    <3>4. committed' = SubSeq(committed, 1, SavepointHeights[1])
      <4>1. /\ Len(savepoints[1]) \in Nat
            /\ Len(savepoints[1]) <= Len(committed)
            /\ \A h \in 1 .. Len(savepoints[1]) : savepoints[1][h] = committed[h]
        BY <1>b, <3>1 DEF SavepointHistory, PrefixOf
      <4>2. \A h \in 1 .. Len(savepoints[1]) : committed[h] \in Block
        <5>1. committed \in Seq(Block) /\ Len(committed) \in Nat
          BY <1>a, LenProperties DEF DataOK
        <5>2. \A h \in 1 .. Len(savepoints[1]) : h \in 1 .. Len(committed)
          BY ONLY <4>1, <5>1
        <5>3. QED
          BY ONLY <5>1, <5>2, ElementOfSeq
      <4>3. /\ SubSeq(committed, 1, Len(savepoints[1])) \in Seq(Block)
            /\ Len(SubSeq(committed, 1, Len(savepoints[1])))
                 = Len(savepoints[1])
            /\ \A h \in 1 .. Len(savepoints[1]) :
                 SubSeq(committed, 1, Len(savepoints[1]))[h] = committed[h]
        BY <4>1, <4>2, SubSeqProperties
      <4>4. \A h \in 1 .. Len(savepoints[1]) :
              savepoints[1][h] = SubSeq(committed, 1, Len(savepoints[1]))[h]
        BY <4>1, <4>3
      <4>5. savepoints[1] = SubSeq(committed, 1, Len(savepoints[1]))
        BY <3>1, <4>3, <4>4, SeqEqual
      <4>6. QED
        BY <3>1, <3>2, <4>5
    <3>5. Database!RollBack
      BY <3>2, <3>3, <3>4 DEF Database!RollBack
    <3>6. QED
      BY <3>5 DEF Database!LogNext
  <2>3. QED
    BY <2>1, <2>2
<1>6. QED
  BY <1>1, <1>2, <1>3, <1>4, <1>5, DatabaseSteps

(* The savepoints are a history in every reachable state.                  *)
LEMMA HistoryCorrect == Spec => [](SavepointHistory /\ SavepointRoom)
<1>1. Init => SavepointHistory /\ SavepointRoom
  BY ConstantsAssumption DEF Init, SavepointHistory, SavepointRoom
<1>2. DataOK /\ PhaseOK /\ DataOK' /\ SavepointHistory /\ SavepointRoom
      /\ [Next]_vars => SavepointHistory' /\ SavepointRoom'
  BY SavepointStep
<1>3. QED
  BY <1>1, <1>2, DataCorrect, PTL DEF Spec

(* Commits, savepoints and rollbacks implement RevertibleLog: restoring a  *)
(* saved database is the same as cutting the present one back.             *)
THEOREM ImplementsRevertibleLog == Spec => DatabaseIsRevertibleLog
<1>1. Init => Database!LogInit
  BY DEF Init, Database!LogInit, SavepointHeights
<1>2. DataOK /\ PhaseOK /\ DataOK' /\ SavepointHistory /\ SavepointRoom
      /\ [Next]_vars => [Database!LogNext]_<<committed, SavepointHeights>>
  BY DatabaseStep
<1>3. QED
  BY <1>1, <1>2, DataCorrect, HistoryCorrect, PTL
     DEF Spec, DatabaseIsRevertibleLog, Database!LogSpec

-----------------------------------------------------------------------------
(* The window of savepoints                                                *)

(* A number with no remainder by n is a multiple of n.                     *)
LEMMA MultipleHasFactor ==
  ASSUME NEW n \in Nat \ {0}, NEW a \in Nat, a % n = 0
  PROVE  \E q \in Nat : a = n * q
<1>1. a \div n \in Nat /\ a = n * (a \div n) + (a % n)
  OBVIOUS
<1>2. QED
  BY <1>1

(* Distinct multiples of n are at least n apart.                           *)
LEMMA MultiplesApart ==
  ASSUME NEW n \in Nat \ {0}, NEW a \in Nat, NEW b \in Nat,
         a % n = 0, b % n = 0, a < b
  PROVE  n <= b - a
<1>1. PICK q \in Nat : a = n * q
  BY MultipleHasFactor
<1>2. PICK r \in Nat : b = n * r
  BY MultipleHasFactor
<1>3. q < r
  BY <1>1, <1>2
<1>4. n * (q + 1) <= n * r
  BY <1>3
<1>5. n * (q + 1) = n * q + n
  OBVIOUS
<1>6. QED
  BY <1>1, <1>2, <1>4, <1>5

(* A multiple of n that is at most h is at most h rounded down.            *)
LEMMA RoundedDown ==
  ASSUME NEW n \in Nat \ {0}, NEW a \in Nat, NEW h \in Nat,
         a % n = 0, a <= h
  PROVE  a <= h - (h % n) /\ h % n \in 0 .. n - 1
<1>1. PICK q \in Nat : a = n * q
  BY MultipleHasFactor
<1>2. h \div n \in Nat /\ h = n * (h \div n) + (h % n) /\ h % n \in 0 .. n - 1
  OBVIOUS
<1>3. q <= h \div n
  <2> SUFFICES ASSUME h \div n < q PROVE FALSE
    BY <1>2
  <2>1. n * ((h \div n) + 1) <= n * q
    BY <1>2
  <2>2. n * ((h \div n) + 1) = n * (h \div n) + n
    BY <1>2
  <2>3. QED
    BY <1>1, <1>2, <2>1, <2>2
<1>4. n * q <= n * (h \div n)
  BY <1>2, <1>3
<1>5. QED
  BY <1>1, <1>2, <1>4

(* The steps that touch neither the database nor the search for a fork.    *)
LEMMA SpacingSteps ==
  ASSUME DataOK, PhaseOK, [Next]_vars
  PROVE  \/ /\ UNCHANGED database
            /\ pc' = "save" => pc = "save"
            /\ pc' = "handle" => pc = "handle" /\ UNCHANGED <<depth, batch>>
         \/ SearchFork
         \/ Commit \/ TrimSavepoints \/ CreateSavepoint \/ HandleReorg
<1>1. CASE Mine
  BY <1>1 DEF Mine
<1>2. CASE Reorganise
  BY <1>2 DEF Reorganise, ReorgTo
<1>3. CASE CallUpdate
  BY <1>3 DEF CallUpdate
<1>4. CASE BeginUpdate
  BY <1>4 DEF BeginUpdate
<1>5. CASE Fetch
  BY <1>5 DEF Fetch
<1>6. CASE IndexBlock
  BY <1>6 DEF IndexBlock, BatchFull
<1>7. CASE ChannelClosed
  BY <1>7 DEF ChannelClosed
<1>8. CASE NothingToCommit
  BY <1>8 DEF NothingToCommit, EndUpdate
<1>9. CASE ReorgDetected
  BY <1>9 DEF ReorgDetected
<1>10. CASE FetchGivesUp
  BY <1>10 DEF FetchGivesUp
<1>11. CASE RpcFails
  BY <1>11 DEF RpcFails, EndUpdate
<1>12. CASE Crash
  BY <1>12 DEF Crash, EndUpdate
<1>13. CASE RequestShutdown
  BY <1>13 DEF RequestShutdown
<1>14. CASE UNCHANGED vars
  BY <1>14 DEF vars, database
<1>15. QED
  BY <1>1, <1>2, <1>3, <1>4, <1>5, <1>6, <1>7, <1>8, <1>9, <1>10, <1>11, <1>12,
     <1>13, <1>14 DEF Next, Node, IndexThread, Faults

(* Every step of the updater keeps the savepoints Interval apart.          *)
LEMMA SpacingStep ==
  ASSUME DataOK, PhaseOK, DataOK', PhaseOK', SavepointHistory, SavepointRoom,
         SavepointSpacing, [Next]_vars
  PROVE  SavepointSpacing'
<1> USE ConstantsAssumption
<1>a. /\ Len(committed) \in Nat /\ Len(savepoints) \in Nat
      /\ \A i \in 1 .. Len(savepoints) : Len(savepoints[i]) \in Nat
  BY ElementOfSeq, LenProperties DEF DataOK
<1>1. CASE /\ UNCHANGED database
           /\ pc' = "save" => pc = "save"
           /\ pc' = "handle" => pc = "handle" /\ UNCHANGED <<depth, batch>>
  BY <1>1 DEF database, SavepointSpacing, height, MaxDepth
<1>2. CASE SearchFork
  <2>1. /\ UNCHANGED <<committed, savepoints>>
        /\ pc = "detect" /\ pc' # "save"
        /\ pc' = "handle" => depth < MaxDepth(height) /\ UNCHANGED depth
    BY <1>2 DEF SearchFork, EndUpdate, database
  <2>2. pc' = "handle" => height' = height
    BY <2>1 DEF PhaseOK, height
  <2>3. QED
    BY <2>1, <2>2 DEF SavepointSpacing, MaxDepth
<1>3. CASE Commit
  <2>1. UNCHANGED savepoints /\ pc' = "trim"
    BY <1>3 DEF Commit
  <2>2. QED
    BY <2>1 DEF SavepointSpacing
<1>4. CASE TrimSavepoints
  <2>1. /\ UNCHANGED committed
        /\ pc = "trim" /\ pc' # "handle"
        /\ pc' = "save" => SavepointDue(height)
    BY <1>4 DEF TrimSavepoints, AfterSavepoints, EndUpdate
  <2>2. height = Len(committed)
    BY <1>a, <2>1, EmptySeq DEF height, PhaseOK
  <2>3. pc' = "save" /\ Len(committed') >= Interval
        => Len(committed') % Interval = 0
    BY <1>a, <2>1, <2>2 DEF SavepointDue
  <2>4. CASE savepoints' = savepoints
    BY <2>1, <2>3, <2>4 DEF SavepointSpacing
  <2>5. CASE savepoints' = Tail(savepoints) /\ savepoints # << >>
    <3>1. /\ Len(savepoints') \in Nat
          /\ Len(savepoints') = Len(savepoints) - 1
          /\ \A i \in 1 .. Len(savepoints') :
               /\ i + 1 \in 1 .. Len(savepoints)
               /\ savepoints'[i] = savepoints[i + 1]
      BY <2>5, TailOfSavepoints
    <3>2. \A i \in 1 .. Len(savepoints') :
            Len(savepoints'[i]) >= Interval => Len(savepoints'[i]) % Interval = 0
      BY <3>1 DEF SavepointSpacing
    <3>3. ASSUME NEW i \in 1 .. Len(savepoints'), NEW j \in 1 .. Len(savepoints'),
                 i < j, Len(savepoints'[i]) >= Interval
          PROVE  (j - i) * Interval <= Len(savepoints'[j]) - Len(savepoints'[i])
      <4>1. /\ i + 1 \in 1 .. Len(savepoints) /\ j + 1 \in 1 .. Len(savepoints)
            /\ i + 1 < j + 1
            /\ savepoints'[i] = savepoints[i + 1]
            /\ savepoints'[j] = savepoints[j + 1]
        BY ONLY <3>1, <3>3
      <4>2. ((j + 1) - (i + 1)) * Interval
              <= Len(savepoints[j + 1]) - Len(savepoints[i + 1])
        BY <3>3, <4>1 DEF SavepointSpacing
      <4>3. (j + 1) - (i + 1) = j - i
        BY <3>1
      <4>4. QED
        BY <4>1, <4>2, <4>3
    <3>4. QED
      BY <2>1, <2>3, <3>2, <3>3 DEF SavepointSpacing
  <2>6. savepoints' = savepoints \/ (savepoints' = Tail(savepoints) /\ savepoints # << >>)
    <3>1. Len(savepoints) >= MaxSavepoints => savepoints # << >>
      BY <1>a, EmptySeq DEF DataOK
    <3>2. QED
      BY <1>4, <3>1 DEF TrimSavepoints
  <2>7. QED
    BY <2>4, <2>5, <2>6
<1>5. CASE CreateSavepoint
  <2>1. /\ UNCHANGED committed
        /\ savepoints' = Append(savepoints, committed)
        /\ pc = "save" /\ pc' \notin {"save", "handle"}
    BY <1>5 DEF CreateSavepoint, AfterSavepoints, EndUpdate
  <2>2. /\ Len(savepoints') = Len(savepoints) + 1
        /\ \A i \in 1 .. Len(savepoints) : savepoints'[i] = savepoints[i]
        /\ savepoints'[Len(savepoints) + 1] = committed
    BY <2>1, AppendToSavepoints
  <2>3. \A i \in 1 .. Len(savepoints') :
          Len(savepoints'[i]) >= Interval => Len(savepoints'[i]) % Interval = 0
    <3> SUFFICES ASSUME NEW i \in 1 .. Len(savepoints'),
                        Len(savepoints'[i]) >= Interval
                 PROVE  Len(savepoints'[i]) % Interval = 0
      OBVIOUS
    <3>1. CASE i \in 1 .. Len(savepoints)
      BY <2>2, <3>1 DEF SavepointSpacing
    <3>2. CASE i = Len(savepoints) + 1
      BY <2>1, <2>2, <3>2 DEF SavepointSpacing
    <3>3. QED
      BY <1>a, <2>2, <3>1, <3>2
  <2>4. ASSUME NEW i \in 1 .. Len(savepoints'), NEW j \in 1 .. Len(savepoints'),
               i < j, Len(savepoints'[i]) >= Interval
        PROVE  (j - i) * Interval <= Len(savepoints'[j]) - Len(savepoints'[i])
    <3>1. i \in 1 .. Len(savepoints) /\ savepoints'[i] = savepoints[i]
      BY <1>a, <2>2, <2>4
    <3>2. CASE j \in 1 .. Len(savepoints)
      BY <2>2, <2>4, <3>1, <3>2 DEF SavepointSpacing
    <3>3. CASE j = Len(savepoints) + 1
      <4> DEFINE last == Len(savepoints)
                 old == Len(savepoints[i])
                 newest == Len(savepoints[last])
                 new == Len(committed)
      <4>1. /\ last \in 1 .. Len(savepoints) /\ i <= last
            /\ old \in Nat /\ newest \in Nat /\ new \in Nat
        BY <1>a, <3>1
      <4>2. newest < new
        BY <2>1, <4>1 DEF SavepointRoom
      <4>3. (last - i) * Interval <= newest - old /\ old <= newest
        <5>1. CASE i = last
          BY <4>1, <5>1
        <5>2. CASE i < last
          <6>1. (last - i) * Interval <= newest - old
            BY <2>4, <3>1, <4>1, <5>2 DEF SavepointSpacing
          <6>2. old <= newest
            BY <3>1, <4>1, <5>2 DEF SavepointHistory
          <6>3. QED
            BY <6>1, <6>2
        <5>3. i = last \/ i < last
          BY <1>a, <3>1, <4>1
        <5>4. QED
          BY <5>1, <5>2, <5>3
      <4>4. newest >= Interval /\ new >= Interval
        BY <2>4, <3>1, <4>1, <4>2, <4>3
      <4>5. newest % Interval = 0 /\ new % Interval = 0
        BY <2>1, <4>1, <4>4 DEF SavepointSpacing
      <4>6. Interval <= new - newest
        BY <4>1, <4>2, <4>5, MultiplesApart
      <4>7. (j - i) * Interval = (last - i) * Interval + Interval
        <5>1. last - i \in Nat /\ j - i = (last - i) + 1
          BY <3>3, <4>1
        <5>2. \A m \in Nat : (m + 1) * Interval = m * Interval + Interval
          OBVIOUS
        <5>3. QED
          BY <5>1, <5>2
      <4>8. (last - i) * Interval \in Nat
        <5>1. last - i \in Nat
          BY <4>1
        <5>2. \A m \in Nat : m * Interval \in Nat
          OBVIOUS
        <5>3. QED
          BY <5>1, <5>2
      <4>9. (j - i) * Interval <= new - old
        <5>1. \A m, k, a, b, c \in Nat :
                m <= b - a /\ k <= c - b => m + k <= c - a
          OBVIOUS
        <5>2. (last - i) * Interval + Interval <= new - old
          BY <4>1, <4>3, <4>6, <4>8, <5>1
        <5>3. QED
          BY <4>7, <5>2
      <4>10. QED
        BY <2>2, <3>1, <3>3, <4>9
    <3>4. QED
      BY <1>a, <2>2, <3>2, <3>3
  <2>5. QED
    BY <2>1, <2>3, <2>4 DEF SavepointSpacing
<1>6. CASE HandleReorg
  <2>1. pc' \notin {"save", "handle"}
    BY <1>6 DEF HandleReorg
  <2>2. CASE savepoints = << >>
    BY <1>6, <2>1, <2>2 DEF HandleReorg, database, SavepointSpacing
  <2>3. CASE savepoints # << >>
    <3>1. 1 \in 1 .. Len(savepoints) /\ savepoints' = <<savepoints[1]>>
      BY <1>6, <2>3, FirstSavepoint DEF HandleReorg, RestoreSavepoint
    <3>2. Len(savepoints') = 1 /\ savepoints'[1] = savepoints[1]
      BY <3>1
    <3>3. Len(savepoints'[1]) >= Interval => Len(savepoints'[1]) % Interval = 0
      BY <3>1, <3>2 DEF SavepointSpacing
    <3>4. \A i \in 1 .. Len(savepoints') : i = 1
      BY <3>2
    <3>5. \A i, j \in 1 .. Len(savepoints') : ~(i < j)
      BY <3>2
    <3>6. QED
      BY <2>1, <3>3, <3>4, <3>5 DEF SavepointSpacing
  <2>4. QED
    BY <2>2, <2>3
<1>7. QED
  BY <1>1, <1>2, <1>3, <1>4, <1>5, <1>6, SpacingSteps

(* Savepoints Interval apart reach below every common block reported.      *)
LEMMA WindowCovers ==
  ASSUME DataOK, PhaseOK, SavepointHistory, SavepointSpacing
  PROVE  FullWindowCoversReorg
<1> USE ConstantsAssumption
<1> SUFFICES ASSUME pc = "handle", Len(savepoints) = MaxSavepoints,
                    Len(savepoints[1]) >= Interval
             PROVE  Len(savepoints[1]) <= height - depth
  BY DEF FullWindowCoversReorg
<1> DEFINE oldest == Len(savepoints[1])
           newest == Len(savepoints[MaxSavepoints])
<1>1. /\ Len(committed) \in Nat /\ oldest \in Nat /\ newest \in Nat
      /\ depth \in Nat
      /\ 1 \in 1 .. Len(savepoints) /\ MaxSavepoints \in 1 .. Len(savepoints)
  BY ElementOfSeq, LenProperties DEF DataOK
<1>2. height = Len(committed)
  BY <1>1, EmptySeq DEF height, PhaseOK
<1>3. newest <= Len(committed)
  BY <1>1 DEF SavepointHistory, PrefixOf
<1>4. (MaxSavepoints - 1) * Interval <= newest - oldest /\ oldest <= newest
  <2>1. CASE MaxSavepoints = 1
    BY <1>1, <2>1
  <2>2. CASE MaxSavepoints # 1
    <3>1. 1 < MaxSavepoints
      BY <2>2
    <3>2. QED
      BY <1>1, <3>1 DEF SavepointSpacing, SavepointHistory
  <2>3. QED
    BY <2>1, <2>2
<1>5. newest % Interval = 0
  BY <1>1, <1>4 DEF SavepointSpacing
<1>6. /\ newest <= Len(committed) - (Len(committed) % Interval)
      /\ Len(committed) % Interval \in 0 .. Interval - 1
  BY <1>1, <1>3, <1>5, RoundedDown
<1>7. depth < ((MaxSavepoints - 1) * Interval) + (Len(committed) % Interval)
  BY <1>2 DEF SavepointSpacing, MaxDepth
<1>8. (MaxSavepoints - 1) * Interval \in Nat
  <2>1. MaxSavepoints - 1 \in Nat
    OBVIOUS
  <2>2. \A m \in Nat : m * Interval \in Nat
    OBVIOUS
  <2>3. QED
    BY <2>1, <2>2
<1>9. QED
  BY <1>1, <1>2, <1>4, <1>6, <1>7, <1>8, SMTT(30)

(* With a full window of savepoints past the first Interval heights, the   *)
(* rollback that handle_reorg performs undoes every reorg detect_reorg     *)
(* calls recoverable.                                                      *)
THEOREM FullWindowRecovers == Spec => []FullWindowCoversReorg
<1>1. Init => SavepointSpacing
  BY ConstantsAssumption DEF Init, SavepointSpacing
<1>2. DataOK /\ PhaseOK /\ (DataOK /\ PhaseOK)' /\ SavepointHistory
      /\ SavepointRoom /\ SavepointSpacing /\ [Next]_vars
      => SavepointSpacing'
  BY SpacingStep
<1>3. DataOK /\ PhaseOK /\ SavepointHistory /\ SavepointSpacing
      => FullWindowCoversReorg
  BY WindowCovers
<1>4. QED
  BY <1>1, <1>2, <1>3, DataCorrect, HistoryCorrect, PTL DEF Spec

-----------------------------------------------------------------------------
(* The committed index is a chain, unless the node reorganises while an    *)
(* update is under way                                                     *)

(* Whatever the node does, each block of its chain extends the one below.  *)
LEMMA NodeChainLinked ==
  ASSUME DataOK, Linked(chain), [Next]_vars
  PROVE  Linked(chain')
<1>1. Len(chain) \in Nat \ {0}
  BY LenProperties, EmptySeq DEF DataOK
<1>2. CASE chain' = chain
  BY <1>1, <1>2 DEF Linked
<1>3. CASE Mine
  <2>1. PICK b : chain' = Append(chain, b) /\ b.prev = chain[Len(chain)].id
    BY <1>3 DEF Mine
  <2>2. /\ Len(chain') = Len(chain) + 1
        /\ \A h \in 1 .. Len(chain) : chain'[h] = chain[h]
        /\ chain'[Len(chain) + 1] = b
    BY <1>1, <2>1 DEF DataOK
  <2> QED BY <1>1, <2>1, <2>2 DEF Linked
<1>4. CASE Reorganise
  <2>1. PICK keep \in 1 .. Len(chain) - 1 : ReorgTo(keep, Len(chain) + 1)
    BY <1>4 DEF Reorganise
  <2>2. /\ Len(chain') = Len(chain) + 1
        /\ \A h \in 1 .. Len(chain) + 1 :
             chain'[h] = IF h <= keep THEN chain[h]
                         ELSE [id |-> forks + 1,
                               prev |-> IF h = keep + 1 THEN chain[keep].id
                                                        ELSE forks + 1]
    BY <1>1, <2>1 DEF ReorgTo
  <2>3. ASSUME NEW h \in 2 .. Len(chain')
        PROVE  chain'[h].prev = chain'[h - 1].id
    <3>1. h \in 1 .. Len(chain) + 1 /\ h - 1 \in 1 .. Len(chain) + 1
      BY <1>1, <2>2
    <3>2. CASE h <= keep
      <4>1. chain'[h] = chain[h] /\ chain'[h - 1] = chain[h - 1]
        BY <2>2, <3>1, <3>2
      <4> QED BY <1>1, <2>1, <3>1, <3>2, <4>1 DEF Linked
    <3>3. CASE h = keep + 1
      <4>1. chain'[h - 1] = chain[keep] /\ chain'[h].prev = chain[keep].id
        BY <2>2, <3>1, <3>3
      <4> QED BY <4>1
    <3>4. CASE h > keep + 1
      <4>1. chain'[h].prev = forks + 1 /\ chain'[h - 1].id = forks + 1
        BY <2>2, <3>1, <3>4
      <4> QED BY <4>1
    <3> QED BY <3>1, <3>2, <3>3, <3>4
  <2> QED BY <1>4, <2>3 DEF Linked
<1> QED
  BY <1>2, <1>3, <1>4
     DEF Next, vars, Node, IndexThread, Faults, node, CallUpdate, BeginUpdate,
         Fetch, IndexBlock, ChannelClosed, NothingToCommit, Commit,
         TrimSavepoints, CreateSavepoint, ReorgDetected, SearchFork,
         HandleReorg, FetchGivesUp, RpcFails, Crash, RequestShutdown

(* But for a reorganisation, its chain grows or stays.                     *)
LEMMA NodeGrows ==
  ASSUME DataOK, chain' = chain \/ Mine
  PROVE  /\ Len(chain) <= Len(chain')
         /\ \A h \in 1 .. Len(chain) : chain'[h] = chain[h]
<1>1. Len(chain) \in Nat
  BY LenProperties DEF DataOK
<1>2. CASE Mine
  <2>1. PICK b : chain' = Append(chain, b)
    BY <1>2 DEF Mine
  <2> QED BY <1>1, <2>1 DEF DataOK
<1> QED BY <1>1, <1>2

(* An update that is over, or has not begun, holds no block.               *)
LEMMA NothingHeldStep == NothingHeld /\ [Next]_vars => NothingHeld'
<1> SUFFICES ASSUME NothingHeld, [Next]_vars PROVE NothingHeld'
  OBVIOUS
<1> USE DEF NothingHeld
<1>1. CASE Node
  BY <1>1 DEF Node, Mine, Reorganise, ReorgTo
<1>2. CASE CallUpdate
  BY <1>2 DEF CallUpdate
<1>3. CASE BeginUpdate
  BY <1>3 DEF BeginUpdate
<1>4. CASE Fetch
  BY <1>4 DEF Fetch
<1>5. CASE IndexBlock
  BY <1>5 DEF IndexBlock
<1>6. CASE ChannelClosed
  BY <1>6 DEF ChannelClosed
<1>7. CASE NothingToCommit
  BY <1>7 DEF NothingToCommit, EndUpdate
<1>8. CASE Commit
  BY <1>8 DEF Commit
<1>9. CASE TrimSavepoints
  BY <1>9 DEF TrimSavepoints, AfterSavepoints, EndUpdate
<1>10. CASE CreateSavepoint
  BY <1>10 DEF CreateSavepoint, AfterSavepoints, EndUpdate
<1>11. CASE ReorgDetected
  BY <1>11 DEF ReorgDetected
<1>12. CASE SearchFork
  BY <1>12 DEF SearchFork, EndUpdate
<1>13. CASE HandleReorg
  BY <1>13 DEF HandleReorg
<1>14. CASE FetchGivesUp
  BY <1>14 DEF FetchGivesUp
<1>15. CASE RpcFails
  BY <1>15 DEF RpcFails, EndUpdate
<1>16. CASE Crash
  BY <1>16 DEF Crash, EndUpdate
<1>17. CASE RequestShutdown
  BY <1>17 DEF RequestShutdown
<1>18. CASE UNCHANGED vars
  BY <1>18 DEF vars
<1> QED
  BY <1>1, <1>2, <1>3, <1>4, <1>5, <1>6, <1>7, <1>8, <1>9, <1>10, <1>11, <1>12,
     <1>13, <1>14, <1>15, <1>16, <1>17, <1>18 DEF Next, IndexThread, Faults

(* What the index and the update hold, together.                           *)
LinkedIndex == ChainLinked /\ HoldsBlocksOfNode /\ BatchExtends

(* A step that reads no block, indexes none and commits none, on a chain   *)
(* that only grows.                                                        *)
LEMMA BlocksAside ==
  ASSUME DataOK, LinkedIndex,
         Len(chain) <= Len(chain'),
         \A h \in 1 .. Len(chain) : chain'[h] = chain[h],
         committed' = committed,
         (batch' = batch /\ queue' = queue) \/ (batch' = << >> /\ queue' = << >>),
         Len(chain') \in Nat
  PROVE  LinkedIndex'
<1>1. /\ Len(chain) \in Nat /\ Len(committed) \in Nat
      /\ Len(batch) \in Nat /\ Len(queue) \in Nat
  BY LenProperties DEF DataOK
<1>2. CASE batch' = batch /\ queue' = queue
  <2>1. HoldsBlocksOfNode'
    BY <1>1, <1>2 DEF LinkedIndex, HoldsBlocksOfNode, height
  <2> QED BY <1>2, <2>1 DEF LinkedIndex, ChainLinked, BatchExtends
<1>3. CASE batch' = << >> /\ queue' = << >>
  BY <1>3 DEF LinkedIndex, HoldsBlocksOfNode, ChainLinked, BatchExtends
<1> QED BY <1>2, <1>3

(* The fetch thread reads the next block of the node.                      *)
LEMMA FetchKeepsLinks ==
  ASSUME DataOK, LinkedIndex, Fetch
  PROVE  LinkedIndex'
<1>1. /\ Len(chain) \in Nat /\ Len(committed) \in Nat
      /\ Len(batch) \in Nat /\ Len(queue) \in Nat
  BY LenProperties DEF DataOK
<1>2. chain' = chain /\ committed' = committed /\ batch' = batch
  BY DEF Fetch, node, database
<1>3. CASE NextFetch < Len(chain)
  <2>1. queue' = Append(queue, chain[NextFetch + 1])
    BY <1>3 DEF Fetch
  <2>2. /\ Len(queue') = Len(queue) + 1
        /\ \A i \in 1 .. Len(queue) : queue'[i] = queue[i]
        /\ queue'[Len(queue) + 1] = chain[height + Len(queue) + 1]
    BY <1>1, <2>1 DEF DataOK, NextFetch
  <2>3. ASSUME NEW i \in 1 .. Len(queue')
        PROVE  height + i <= Len(chain) /\ queue'[i] = chain[height + i]
    <3>1. CASE i \in 1 .. Len(queue)
      BY <2>2, <3>1 DEF LinkedIndex, HoldsBlocksOfNode
    <3>2. CASE i = Len(queue) + 1
      BY <1>1, <1>3, <2>2, <3>2 DEF NextFetch, height
    <3> QED BY <1>1, <2>2, <3>1, <3>2
  <2>4. HoldsBlocksOfNode'
    BY <1>2, <2>3 DEF LinkedIndex, HoldsBlocksOfNode, height
  <2> QED BY <1>2, <2>4 DEF LinkedIndex, ChainLinked, BatchExtends
<1>4. CASE ~(NextFetch < Len(chain))
  <2>1. queue' = queue
    BY <1>4 DEF Fetch
  <2> QED BY <1>1, <1>2, <2>1, BlocksAside
<1> QED BY <1>3, <1>4

(* The first block of a batch extends the committed tip, because           *)
(* detect_reorg compares them.                                             *)
LEMMA FirstExtendsTip ==
  ASSUME DataOK, NEW b, Extends(b), batch = << >>, committed # << >>
  PROVE  b.prev = committed[Len(committed)].id
<1>1. Len(committed) \in Nat \ {0} /\ height = Len(committed)
  BY LenProperties, EmptySeq DEF DataOK, height
<1>2. IndexHash(height, 1) = {<<height - 1, committed[height]>>}
  BY <1>1 DEF IndexHash, HashAt
<1>3. \A stored \in IndexHash(height, 1) : stored[2].id = b.prev
  BY DEF Extends
<1>4. <<height - 1, committed[height]>>[2] = committed[height]
  OBVIOUS
<1> QED BY <1>1, <1>2, <1>3, <1>4

(* index_block moves the next block into the open transaction.             *)
LEMMA IndexKeepsLinks ==
  ASSUME DataOK, LinkedIndex, IndexBlock
  PROVE  LinkedIndex'
<1>1. /\ Len(chain) \in Nat /\ Len(committed) \in Nat
      /\ Len(batch) \in Nat /\ Len(queue) \in Nat \ {0}
  BY LenProperties, EmptySeq DEF DataOK, IndexBlock
<1>2. /\ chain' = chain /\ committed' = committed /\ Extends(queue[1])
      /\ batch' = Append(batch, queue[1]) /\ queue' = Tail(queue)
  BY DEF IndexBlock, node, database
<1>3. /\ Len(batch') = Len(batch) + 1
      /\ \A i \in 1 .. Len(batch) : batch'[i] = batch[i]
      /\ batch'[Len(batch) + 1] = queue[1]
  BY <1>1, <1>2 DEF DataOK
<1>4. /\ Len(queue') = Len(queue) - 1
      /\ \A i \in 1 .. Len(queue') : queue'[i] = queue[i + 1]
  BY <1>1, <1>2 DEF DataOK
<1>5. queue[1] = chain[height + 1] /\ height + 1 <= Len(chain)
  BY <1>1 DEF LinkedIndex, HoldsBlocksOfNode
<1>6. HoldsBlocksOfNode'
  <2>1. \A i \in 1 .. Len(batch') :
          /\ Len(committed) + i <= Len(chain)
          /\ batch'[i] = chain[Len(committed) + i]
    <3> SUFFICES ASSUME NEW i \in 1 .. Len(batch')
                 PROVE  /\ Len(committed) + i <= Len(chain)
                        /\ batch'[i] = chain[Len(committed) + i]
      OBVIOUS
    <3>1. CASE i \in 1 .. Len(batch)
      BY <1>3, <3>1 DEF LinkedIndex, HoldsBlocksOfNode
    <3>2. CASE i = Len(batch) + 1
      BY <1>1, <1>3, <1>5, <3>2 DEF height
    <3> QED BY <1>1, <1>3, <3>1, <3>2
  <2>2. height' = height + 1
    BY <1>1, <1>2, <1>3 DEF height
  <2>3. \A i \in 1 .. Len(queue') :
          height + 1 + i <= Len(chain) /\ queue'[i] = chain[height + 1 + i]
    <3> SUFFICES ASSUME NEW i \in 1 .. Len(queue')
                 PROVE  height + 1 + i <= Len(chain)
                        /\ queue'[i] = chain[height + 1 + i]
      OBVIOUS
    <3>1. i + 1 \in 1 .. Len(queue)
      BY <1>1, <1>4
    <3>2. height + (i + 1) <= Len(chain) /\ queue[i + 1] = chain[height + (i + 1)]
      BY <3>1 DEF LinkedIndex, HoldsBlocksOfNode
    <3>3. height + (i + 1) = height + 1 + i
      BY <1>1, <3>1 DEF height
    <3> QED BY <1>4, <3>2, <3>3
  <2> QED BY <1>2, <2>1, <2>2, <2>3 DEF HoldsBlocksOfNode
<1>7. BatchExtends'
  <2>1. CASE batch = << >>
    BY <1>2, <1>3, <2>1, FirstExtendsTip DEF BatchExtends
  <2>2. CASE batch # << >>
    BY <1>1, <1>2, <1>3, <2>2, EmptySeq DEF LinkedIndex, BatchExtends, DataOK
  <2> QED BY <2>1, <2>2
<1> QED BY <1>2, <1>6, <1>7 DEF LinkedIndex, ChainLinked

(* A commit puts the batch, a piece of the node's chain, on the index.     *)
LEMMA CommitKeepsLinks ==
  ASSUME DataOK, PhaseOK, Linked(chain), LinkedIndex, Commit
  PROVE  LinkedIndex'
<1>1. /\ Len(chain) \in Nat /\ Len(committed) \in Nat /\ Len(queue) \in Nat
      /\ Len(batch) \in Nat \ {0}
  BY LenProperties, EmptySeq DEF DataOK, PhaseOK, Commit
<1>2. /\ chain' = chain /\ queue' = queue /\ batch' = << >>
      /\ committed' = committed \o batch
  BY DEF Commit, node
<1>3. /\ Len(committed') = Len(committed) + Len(batch)
      /\ \A h \in 1 .. Len(committed) : committed'[h] = committed[h]
      /\ \A i \in 1 .. Len(batch) : committed'[Len(committed) + i] = batch[i]
  BY <1>1, <1>2, ConcatProperties DEF DataOK
<1>4. ASSUME NEW h \in 2 .. Len(committed')
      PROVE  committed'[h].prev = committed'[h - 1].id
  <2>1. CASE h <= Len(committed)
    <3>1. h \in 2 .. Len(committed) /\ committed'[h] = committed[h]
          /\ committed'[h - 1] = committed[h - 1]
      BY <1>1, <1>3, <2>1
    <3> QED BY <3>1 DEF LinkedIndex, ChainLinked, Linked
  <2>2. CASE h = Len(committed) + 1
    <3>1. committed'[h] = batch[1] /\ committed'[h - 1] = committed[Len(committed)]
      BY <1>1, <1>3, <2>2
    <3>2. batch # << >> /\ committed # << >>
      BY <1>1, <2>2
    <3> QED BY <3>1, <3>2 DEF LinkedIndex, BatchExtends
  <2>3. CASE h > Len(committed) + 1
    <3> DEFINE i == h - Len(committed)
    <3>1. i \in 2 .. Len(batch) /\ i - 1 \in 1 .. Len(batch)
          /\ h = Len(committed) + i /\ h - 1 = Len(committed) + (i - 1)
      BY <1>1, <1>3, <2>3
    <3> HIDE DEF i
    <3>2. i \in 1 .. Len(batch)
      BY <1>1, <3>1
    <3>3. committed'[h] = batch[i]
      BY <1>3, <3>1, <3>2
    <3>4. committed'[h - 1] = batch[i - 1]
      BY <1>3, <3>1
    <3>5. batch[i] = chain[h] /\ h <= Len(chain)
      BY <3>1, <3>2 DEF LinkedIndex, HoldsBlocksOfNode
    <3>6. batch[i - 1] = chain[h - 1]
      BY <3>1 DEF LinkedIndex, HoldsBlocksOfNode
    <3>7. chain[h].prev = chain[h - 1].id
      BY <1>1, <1>3, <3>5 DEF Linked
    <3> QED BY <3>3, <3>4, <3>5, <3>6, <3>7
  <2> QED BY <1>1, <1>3, <2>1, <2>2, <2>3
<1>5. height' = height
  BY <1>1, <1>2, <1>3, EmptySeq DEF height
<1>6. HoldsBlocksOfNode'
  BY <1>2, <1>5, EmptySeq DEF LinkedIndex, HoldsBlocksOfNode
<1> QED BY <1>2, <1>4, <1>6 DEF LinkedIndex, ChainLinked, Linked, BatchExtends

(* A rollback goes back to a linked index, with no update under way.       *)
LEMMA RollbackKeepsLinks ==
  ASSUME DataOK, SavepointHistory, NothingHeld, LinkedIndex, HandleReorg
  PROVE  LinkedIndex'
<1>1. chain' = chain /\ batch' = << >> /\ queue' = << >>
  BY DEF HandleReorg, node, NothingHeld
<1>2. Linked(committed')
  <2>1. CASE savepoints = << >>
    BY <2>1 DEF HandleReorg, database, LinkedIndex, ChainLinked
  <2>2. CASE savepoints # << >>
    <3>1. committed' = savepoints[1] /\ 1 \in 1 .. Len(savepoints)
          /\ savepoints[1] \in Seq(Block)
      BY <2>2, FirstSavepoint DEF HandleReorg, RestoreSavepoint
    <3>2. PrefixOf(savepoints[1], committed)
      BY <3>1 DEF SavepointHistory
    <3>3. Len(savepoints[1]) \in Nat /\ Len(committed) \in Nat
      BY <3>1, LenProperties DEF DataOK
    <3>4. Len(savepoints[1]) <= Len(committed)
          /\ \A h \in 1 .. Len(savepoints[1]) : savepoints[1][h] = committed[h]
      BY <3>2 DEF PrefixOf
    <3>5. \A h \in 2 .. Len(committed) : committed[h].prev = committed[h - 1].id
      BY DEF LinkedIndex, ChainLinked, Linked
    <3>6. ASSUME NEW h \in 2 .. Len(savepoints[1])
          PROVE  savepoints[1][h].prev = savepoints[1][h - 1].id
      <4>1. h \in 1 .. Len(savepoints[1]) /\ h - 1 \in 1 .. Len(savepoints[1])
            /\ h \in 2 .. Len(committed)
        BY <3>3, <3>4
      <4> QED BY <3>4, <3>5, <4>1
    <3> QED BY <3>1, <3>6 DEF Linked
  <2> QED BY <2>1, <2>2
<1> QED
  BY <1>1, <1>2 DEF LinkedIndex, ChainLinked, HoldsBlocksOfNode, BatchExtends

(* Every step keeps the index linked, but for a reorganisation during an   *)
(* update, which raced remembers.                                          *)
LEMMA QuietStep ==
  ASSUME DataOK, PhaseOK, DataOK', SavepointHistory, Quiet,
         [RacedNext]_<<vars, raced>>
  PROVE  Quiet'
<1>1. [Next]_vars
  BY DEF RacedNext, RacedReorganise, Next, Node
<1>2. Linked(chain') /\ NothingHeld'
  BY <1>1, NodeChainLinked, NothingHeldStep DEF Quiet
<1>3. ASSUME ~raced'
      PROVE  LinkedIndex'
  <2>1. ~raced
    BY <1>3 DEF RacedNext, RacedReorganise, vars
  <2>2. LinkedIndex
    BY <2>1 DEF Quiet, LinkedIndex
  <2>a. Len(chain') \in Nat
    BY LenProperties DEF DataOK
  <2>3. CASE RacedReorganise
    <3>1. pc = "idle"
      BY <1>3, <2>3 DEF RacedReorganise
    <3>2. committed' = committed /\ batch' = << >> /\ queue' = << >>
      BY <2>3, <3>1
         DEF RacedReorganise, Reorganise, ReorgTo, database, Quiet, NothingHeld
    <3> QED
      BY <2>2, <3>2 DEF LinkedIndex, ChainLinked, HoldsBlocksOfNode, BatchExtends
  <2>4. CASE Fetch
    BY <2>2, <2>4, FetchKeepsLinks
  <2>5. CASE IndexBlock
    BY <2>2, <2>5, IndexKeepsLinks
  <2>6. CASE Commit
    BY <2>2, <2>6, CommitKeepsLinks DEF Quiet
  <2>7. CASE HandleReorg
    BY <2>2, <2>7, RollbackKeepsLinks DEF Quiet
  <2>8. CASE /\ chain' = chain \/ Mine
             /\ committed' = committed
             /\ (batch' = batch /\ queue' = queue) \/ (batch' = << >> /\ queue' = << >>)
    <3>1. /\ Len(chain) <= Len(chain')
          /\ \A h \in 1 .. Len(chain) : chain'[h] = chain[h]
      BY <2>8, NodeGrows
    <3> QED BY <2>2, <2>8, <2>a, <3>1, BlocksAside
  <2>9. CASE Mine \/ CallUpdate \/ BeginUpdate \/ ChannelClosed \/ NothingToCommit
    BY <2>8, <2>9
       DEF Mine, CallUpdate, BeginUpdate, ChannelClosed, NothingToCommit,
           EndUpdate, database, node
  <2>10. CASE TrimSavepoints \/ CreateSavepoint \/ ReorgDetected \/ SearchFork
    BY <2>8, <2>10
       DEF TrimSavepoints, CreateSavepoint, ReorgDetected, SearchFork,
           AfterSavepoints, EndUpdate, database, node
  <2>11. CASE Faults \/ UNCHANGED <<vars, raced>>
    BY <2>8, <2>11
       DEF Faults, FetchGivesUp, RpcFails, Crash, RequestShutdown, EndUpdate,
           vars, database, node
  <2> QED
    BY <2>3, <2>4, <2>5, <2>6, <2>7, <2>9, <2>10, <2>11
       DEF RacedNext, IndexThread
<1> QED BY <1>2, <1>3 DEF Quiet, LinkedIndex

(* The committed index is a chain as long as the node has reorganised only *)
(* between updates: detect_reorg, which compares the first block of a      *)
(* batch alone, is enough then, for every depth of reorganisation, size of *)
(* batch and crash.                                                        *)
THEOREM QuietIndexesAreLinked == RacedSpec => []ChainLinkedWhenQuiet
<1>1. RacedInit => Init /\ Quiet
  BY EmptySeq
     DEF RacedInit, Init, Quiet, NothingHeld, ChainLinked, HoldsBlocksOfNode,
         BatchExtends, Linked, Genesis
<1>2. [RacedNext]_<<vars, raced>> => [Next]_vars
  BY DEF RacedNext, RacedReorganise, Next, Node
<1>3. RacedSpec => Spec
  BY <1>1, <1>2, PTL DEF RacedSpec, Spec
<1>4. DataOK /\ PhaseOK /\ DataOK' /\ SavepointHistory /\ Quiet
      /\ [RacedNext]_<<vars, raced>> => Quiet'
  BY QuietStep
<1>5. Quiet => ChainLinkedWhenQuiet
  BY DEF Quiet, ChainLinkedWhenQuiet
<1> QED
  BY <1>1, <1>3, <1>4, <1>5, DataCorrect, SavepointsAreHistory, PTL DEF RacedSpec

=============================================================================
