-------------------------- MODULE ValueFetcherProofs --------------------------
(***************************************************************************)
(* What ValueFetcher promises, for every value of the constants.           *)
(*                                                                         *)
(* The two channels and the thread between them are one pipeline: an       *)
(* outpoint that was sent comes out as its value, in its turn.  What is in *)
(* the pipeline is named by the positions of the block's inputs.           *)
(***************************************************************************)
EXTENDS ValueFetcher, SequenceTheorems, TLAPS

(* What is under way, the next value to be consumed first.                 *)
Item(k) ==
  IF k <= Len(values) THEN values[k]
  ELSE IF k <= Len(values) + Len(batch) THEN batch[k - Len(values)]
  ELSE outpoints[k - Len(values) - Len(batch)]

Spends(p) == Block[p].previous_output

(* The inputs whose values may be under way.                               *)
First == IF pc = "index" THEN at ELSE 1
Last == IF pc = "send" THEN at - 1 ELSE Len(Block)

InBlock == pc \in {"send", "index"}

(* What the program counters know.                                         *)
ControlOK ==
  /\ InBlock => /\ height < Len(chain)
                /\ at \in 1 .. Len(Block) + 1
                /\ Valid(height + 1, Block)
  /\ \A g \in 1 .. Len(chain) : Len(chain[g]) <= MaxInputs /\ Valid(g, chain[g])
  /\ fetcher = "ended" => batch = << >> /\ outpoints = << >>
  /\ fetcher = "recv" => batch = << >>
  /\ fetcher # "request" /\ fetcher # "reply" => replies = << >>
  /\ fetcher = "reply" => Len(replies) = Len(batch)
  /\ \A i \in 1 .. Len(replies) : replies[i] = batch[i].txid
  /\ pc = "idle" => fetcher = "ended" /\ values = << >>
  /\ pc # "index" => input_values = << >>
  /\ pc = "index" => Len(input_values) = at - 1

(* The items are outputs that inputs First to Last spend and that were     *)
(* missing, in the order of the inputs.                                    *)
ItemsOrdered ==
  InBlock =>
    /\ \A k \in 1 .. InFlight : \E p \in First .. Last :
         Item(k) = Spends(p) /\ Missing(Spends(p))
    /\ \A k, l \in 1 .. InFlight : \A p, q \in First .. Last :
         k < l /\ Item(k) = Spends(p) /\ Item(l) = Spends(q) => p < q

(* None of them is left out, unless the thread ended and the rest is lost. *)
NoneSkipped ==
  InBlock =>
    \A p \in First .. Last : Missing(Spends(p)) =>
      \/ \E k \in 1 .. InFlight : Item(k) = Spends(p)
      \/ /\ fetcher = "ended"
         /\ \A k \in 1 .. InFlight : \A q \in First .. Last :
              Item(k) = Spends(q) => q < p

(* What the transactions of the block made so far is in the cache until    *)
(* an input spends it.                                                     *)
MadeIsCached ==
  pc = "index" =>
    \A p \in at .. Len(Block) : \A t \in Transactions(Block) :
      Spends(p) = OutPoint(height + 1, t) /\ t < Block[at].tx
        => Spends(p) \in value_cache

(* A block begins with nothing on the way to it; the step that begins one  *)
(* fails otherwise.                                                        *)
BlockBegins == BeginBlock /\ values = << >> /\ fetcher # "ended"

LEMMA BeginBlockCases == BeginBlock => BlockBegins \/ Fail
BY DEF BeginBlock, BlockBegins

(* While outpoints are sent, there is one at most for each input seen.     *)
SentAtMost == pc = "send" => InFlight <= at - 1

PipelineInv ==
  /\ TypeOK /\ ControlOK /\ ItemsOrdered /\ NoneSkipped /\ MadeIsCached
  /\ EveryInputGetsItsValue /\ NothingIsLeftOver /\ SentAtMost

-----------------------------------------------------------------------------
(* A block that the node brings is a list of at most MaxInputs inputs.     *)
LEMMA NewBlockShape ==
  ASSUME TypeOK, NEW block \in NewBlocks(height)
  PROVE  block \in Seq(Input) /\ Len(block) <= MaxInputs
<1> USE FetcherAssumption DEF TypeOK
<1>1. \A o \in Unspent(height) : o \in Output
  <2>1. \A o \in OldOutputs : o \in Output
    BY DEF OldOutputs, Output, Txids
  <2>2. \A o \in Made(height) : o \in Output
    <3> SUFFICES ASSUME NEW g \in 1 .. height, NEW t \in Transactions(chain[g])
                 PROVE  OutPoint(g, t) \in Output
      BY DEF Made
    <3>1. chain[g] \in Seq(Input)
      OBVIOUS
    <3>2. t \in Nat
      <4>1. PICK i \in DOMAIN chain[g] : t = chain[g][i].tx
        BY DEF Transactions
      <4>2. chain[g][i] \in Input
        BY <3>1
      <4> QED BY <4>1, <4>2 DEF Input
    <3>3. <<g, t>> \in Nat \X Nat
      <4>1. g \in Nat
        <5>1. Len(chain) \in Nat
          OBVIOUS
        <5> QED BY <5>1
      <4> QED BY ONLY <3>2, <4>1
    <3> QED BY <3>3 DEF OutPoint, Txid, Output, Txids
  <2> QED BY <2>1, <2>2 DEF Unspent
<1>2. PICK n \in 0 .. MaxInputs : block \in BlocksOfSize(n, Spendable(height))
  BY DEF NewBlocks
<1>a. PICK p \in Positions(n) :
        block \in {[i \in 1 .. n |-> [tx |-> p[i], previous_output |-> s[i]]] :
                     s \in [1 .. n -> Spendable(height)]}
  BY <1>2, Zenon DEF BlocksOfSize
<1>3. PICK s \in [1 .. n -> Spendable(height)] :
        block = [i \in 1 .. n |-> [tx |-> p[i], previous_output |-> s[i]]]
  BY <1>a, Zenon
<1>4. \A i \in 1 .. n : p[i] \in 1 .. MaxInputs
  <2>1. p \in [1 .. n -> 1 .. n]
    BY <1>a, Zenon DEF Positions
  <2> QED BY ONLY <2>1, n \in 0 .. MaxInputs, MaxInputs \in Nat
<1>5. \A i \in 1 .. n : s[i] \in Output
  <2>1. \A t \in 1 .. MaxInputs : OutPoint(height + 1, t) \in Output
    BY SMTT(30) DEF OutPoint, Txid, Output, Txids
  <2> QED BY <1>1, <1>3, <2>1 DEF Spendable
<1>6. block \in [1 .. n -> Input]
  BY <1>3, <1>4, <1>5 DEF Input
<1> QED BY <1>6

(* The block under way is one of the chain's, and its inputs are typed.    *)
LEMMA BlockUnderWay ==
  ASSUME TypeOK, ControlOK, height < Len(chain)
  PROVE  /\ Block \in Seq(Input) /\ Len(Block) \in 0 .. MaxInputs
         /\ Valid(height + 1, Block)
         /\ \A p \in 1 .. Len(Block) : Block[p] \in Input /\ Spends(p) \in Output
<1>1. height + 1 \in 1 .. Len(chain)
  BY DEF TypeOK
<1>2. Block \in Seq(Input)
  BY <1>1 DEF TypeOK, Block
<1>3. Len(Block) \in 0 .. MaxInputs /\ Valid(height + 1, Block)
  BY <1>1, <1>2, FetcherAssumption DEF ControlOK, Block
<1>4. \A p \in 1 .. Len(Block) : Block[p] \in Input
  BY <1>2
<1>5. \A p \in 1 .. Len(Block) : Spends(p) \in Output
  BY <1>4 DEF Spends, Input
<1> QED BY <1>2, <1>3, <1>4, <1>5

(* No two inputs of a block spend the same output.                         *)
LEMMA SpendsOnce ==
  ASSUME TypeOK, ControlOK, height < Len(chain),
         NEW p \in 1 .. Len(Block), NEW q \in 1 .. Len(Block), Spends(p) = Spends(q)
  PROVE  p = q
<1>1. Block \in Seq(Input) /\ Valid(height + 1, Block)
  BY BlockUnderWay
<1>2. p \in DOMAIN Block /\ q \in DOMAIN Block
  BY <1>1
<1> QED BY <1>1, <1>2 DEF Valid, Spends

(* Steps that move what is under way along the pipeline.                   *)
LEMMA PipelineMoves ==
  ASSUME PipelineInv, TypeOK', ControlOK',
         UNCHANGED <<chain, store, pc, at, input_values>>,
         fetcher = "ended" <=> fetcher' = "ended",
         InFlight' = InFlight,
         \A k \in 1 .. InFlight : Item(k)' = Item(k)
  PROVE  PipelineInv'
<1> USE DEF PipelineInv, store
<1>1. First' = First /\ Last' = Last /\ InBlock' = InBlock /\ Block' = Block
  BY DEF First, Last, InBlock, Block
<1>2. \A p : Spends(p)' = Spends(p) /\ Missing(Spends(p))' = Missing(Spends(p))
  BY <1>1 DEF Spends, Missing, TxidsOf, Block
<1>3. ItemsOrdered'
  BY <1>1, <1>2 DEF ItemsOrdered
<1>4. NoneSkipped'
  BY <1>1, <1>2 DEF NoneSkipped
<1>5. MadeIsCached'
  BY <1>1, <1>2 DEF MadeIsCached
<1> QED BY <1>1, <1>3, <1>4, <1>5 DEF EveryInputGetsItsValue, NothingIsLeftOver, SentAtMost

-----------------------------------------------------------------------------
(* Sorted by id, the results are in the order of the request.              *)
LEMMA SortedAnswer ==
  ASSUME NEW chunk \in Seq(Output), NEW order \in Orders(Len(chunk))
  PROVE  SortedById(Answer(chunk, order)) = [i \in 1 .. Len(chunk) |-> chunk[i].txid]
<1> DEFINE n == Len(chunk)
           results == Answer(chunk, order)
<1>1. n \in Nat /\ order \in [1 .. n -> 1 .. n]
  BY DEF Orders
<1>2. results \in [1 .. n -> [id : 1 .. n, tx : Txids]]
  <2>1. \A i \in 1 .. n : order[i] \in 1 .. n /\ chunk[order[i]].txid \in Txids
    <3> SUFFICES ASSUME NEW i \in 1 .. n
                 PROVE  order[i] \in 1 .. n /\ chunk[order[i]].txid \in Txids
      OBVIOUS
    <3>1. order[i] \in 1 .. n
      BY <1>1
    <3>2. chunk[order[i]] \in Output
      BY <3>1
    <3> QED BY <3>1, <3>2 DEF Output
  <2>2. results = [i \in 1 .. n |-> [id |-> order[i], tx |-> chunk[order[i]].txid]]
    BY DEF Answer
  <2> QED BY <2>1, <2>2
<1>3. Len(results) = n
  BY <1>2, <1>1
<1>4. ASSUME NEW i \in 1 .. n
      PROVE  results[CHOOSE k \in 1 .. n : results[k].id = i].tx = chunk[i].txid
  <2>1. \E k \in 1 .. n : results[k].id = i
    BY <1>1 DEF Orders, Answer
  <2>2. PICK k \in 1 .. n : /\ k = CHOOSE l \in 1 .. n : results[l].id = i
                            /\ results[k].id = i
    BY <2>1
  <2>3. results[k].tx = chunk[order[k]].txid /\ results[k].id = order[k]
    BY <1>1 DEF Answer
  <2> QED BY <2>2, <2>3
<1> HIDE DEF n, results
<1>5. SortedById(results) = [i \in 1 .. n |-> chunk[i].txid]
  BY <1>3, <1>4 DEF SortedById
<1> QED BY <1>5 DEF n, results

(* A request is for the next outpoints of the batch.                       *)
LEMMA ChunkOfBatch ==
  ASSUME TypeOK, Len(replies) < Len(batch)
  PROVE  /\ NextChunk \in Seq(Output)
         /\ Len(NextChunk) \in 1 .. Len(batch) - Len(replies)
         /\ \A i \in 1 .. Len(NextChunk) : NextChunk[i] = batch[Len(replies) + i]
<1>1. Len(batch) \in Nat /\ Len(replies) \in Nat /\ batch \in Seq(Output)
  BY DEF TypeOK
<1>2. ChunkSize(Len(batch)) \in Nat \ {0}
  BY <1>1, FetcherAssumption DEF ChunkSize
<1>3. PICK m \in 1 .. Len(batch) - Len(replies) :
        NextChunk = SubSeq(batch, Len(replies) + 1, Len(replies) + m)
  BY <1>1, <1>2, SMTT(30) DEF NextChunk
<1> QED BY <1>1, <1>3

LEMMA NewReplies ==
  ASSUME TypeOK, ControlOK, GetTransactions
  PROVE  /\ replies' \in Seq(Txids) /\ Len(replies') <= Len(batch)
         /\ \A i \in 1 .. Len(replies') : replies'[i] = batch[i].txid
<1>1. PICK order \in Orders(Len(NextChunk)) :
        replies' = replies \o SortedById(Answer(NextChunk, order))
  BY DEF GetTransactions
<1>2. /\ NextChunk \in Seq(Output)
      /\ Len(NextChunk) \in 1 .. Len(batch) - Len(replies)
      /\ \A i \in 1 .. Len(NextChunk) : NextChunk[i] = batch[Len(replies) + i]
  BY ChunkOfBatch DEF GetTransactions
<1> DEFINE n == Len(NextChunk)
           new == [i \in 1 .. n |-> NextChunk[i].txid]
<1>3. replies' = replies \o new
  BY <1>1, <1>2, SortedAnswer
<1>4. new \in Seq(Txids) /\ Len(new) = n /\ n \in Nat
  <2>1. n \in Nat /\ \A i \in 1 .. n : NextChunk[i].txid \in Txids
    <3>1. \A i \in 1 .. n : NextChunk[i] \in Output
      BY <1>2
    <3> QED BY <1>2, <3>1 DEF Output
  <2>2. new \in [1 .. n -> Txids]
    BY <2>1
  <2> QED BY <2>1, <2>2
<1>5. \A i \in 1 .. n : new[i] = batch[Len(replies) + i].txid
  BY <1>2
<1> HIDE DEF n, new
<1>6. replies \in Seq(Txids) /\ Len(replies) \in Nat
  BY DEF TypeOK
<1>7. replies' \in Seq(Txids) /\ Len(replies') = Len(replies) + n
  BY <1>3, <1>4, <1>6, ConcatProperties
<1>8. \A i \in 1 .. Len(replies') :
        replies'[i] = IF i <= Len(replies) THEN replies[i] ELSE new[i - Len(replies)]
  BY <1>3, <1>4, <1>6, <1>7
<1>9. ASSUME NEW i \in 1 .. Len(replies')
      PROVE  replies'[i] = batch[i].txid
  <2>1. CASE i <= Len(replies)
    BY <1>8, <2>1, <1>6 DEF ControlOK
  <2>2. CASE i > Len(replies)
    <3>1. i - Len(replies) \in 1 .. n /\ Len(replies) + (i - Len(replies)) = i
      BY <2>2, <1>7, <1>6, <1>4
    <3>2. replies'[i] = new[i - Len(replies)]
      BY <1>8, <2>2, <1>6, <1>7, <1>4
    <3> QED BY <3>1, <3>2, <1>5
  <2> QED BY <2>1, <2>2, <1>6, <1>7, <1>4
<1>10. Len(replies') <= Len(batch)
  BY <1>7, <1>2, <1>6 DEF n, TypeOK
<1> QED BY <1>7, <1>9, <1>10

(* The thread sends the value of the first outpoint of the batch.          *)
LEMMA SentIsHead ==
  ASSUME TypeOK, ControlOK, SendValue
  PROVE  /\ Len(batch) \in Nat \ {0} /\ batch[1] \in Output
         /\ [txid |-> Head(replies), vout |-> Head(batch).vout] = batch[1]
<1>1. replies # << >> /\ Len(replies) = Len(batch)
  BY DEF SendValue, ControlOK
<1>2. Len(batch) \in Nat \ {0} /\ batch[1] \in Output /\ Head(batch) = batch[1]
  BY <1>1 DEF TypeOK
<1>3. Head(replies) = replies[1] /\ replies[1] = batch[1].txid
  BY <1>1, <1>2 DEF TypeOK, ControlOK
<1> QED BY <1>2, <1>3 DEF Output

-----------------------------------------------------------------------------
(* Every step keeps the types.                                             *)
LEMMA TypeStep ==
  ASSUME TypeOK, ControlOK, [Next]_vars
  PROVE  TypeOK'
<1> USE FetcherAssumption DEF TypeOK, store, thread, channels
<1>1. ASSUME Mine PROVE TypeOK'
  <2>1. PICK block \in NewBlocks(height) : chain' = Append(chain, block)
    BY <1>1 DEF Mine
  <2>2. block \in Seq(Input)
    BY NewBlockShape
  <2>3. chain' \in Seq(Seq(Input)) /\ Len(chain') = Len(chain) + 1
    BY <2>1, <2>2, AppendProperties
  <2> QED BY <1>1, <2>3 DEF Mine
<1>2. ASSUME BeginUpdate PROVE TypeOK'
  BY <1>2 DEF BeginUpdate
<1>3. ASSUME BlockBegins PROVE TypeOK'
  BY <1>3 DEF BlockBegins, BeginBlock
<1>4. ASSUME Fail PROVE TypeOK'
  BY <1>4, EmptySeq DEF Fail, Disconnect
<1>5. ASSUME SendOutpoint PROVE TypeOK'
  <2>a. height < Len(chain)
    BY <1>5 DEF SendOutpoint, ControlOK, InBlock
  <2>b. at \in 1 .. Len(Block)
    <3>1. at >= 1 /\ at <= Len(Block)
      BY <1>5 DEF SendOutpoint, ControlOK, InBlock
    <3> QED BY <3>1, <2>a, BlockUnderWay
  <2>1. height < Len(chain) /\ at \in 1 .. Len(Block) /\ Len(Block) \in 0 .. MaxInputs
        /\ Block[at].previous_output \in Output
    BY <2>a, <2>b, BlockUnderWay DEF Spends
  <2>2. CASE Missing(Block[at].previous_output)
    <3>1. outpoints' \in Seq(Output) /\ Len(outpoints') = Len(outpoints) + 1
      <4>1. outpoints' = Append(outpoints, Block[at].previous_output)
        BY <1>5, <2>2 DEF SendOutpoint
      <4>2. outpoints \in Seq(Output)
        OBVIOUS
      <4> QED BY <2>1, <4>1, <4>2, AppendProperties
    <3> QED BY <1>5, <2>1, <2>2, <3>1, SMTT(30) DEF SendOutpoint
  <2>3. CASE ~ Missing(Block[at].previous_output)
    BY <1>5, <2>1, <2>3 DEF SendOutpoint
  <2> QED BY <2>2, <2>3
<1>6. ASSUME AllSent PROVE TypeOK'
  BY <1>6 DEF AllSent
<1>7. ASSUME IndexInput PROVE TypeOK'
  <2>a. height < Len(chain)
    BY <1>7 DEF IndexInput, ControlOK, InBlock
  <2>b. at \in 1 .. Len(Block)
    <3>1. at >= 1 /\ at <= Len(Block)
      BY <1>7 DEF IndexInput, ControlOK
    <3> QED BY <3>1, <2>a, BlockUnderWay
  <2>1. height < Len(chain) /\ at \in 1 .. Len(Block) /\ Len(Block) \in 0 .. MaxInputs
        /\ Block[at].previous_output \in Output
    BY <2>a, <2>b, BlockUnderWay DEF Spends
  <2> DEFINE o == Block[at].previous_output
  <2>2. /\ UNCHANGED <<chain, stored, height, uncommitted, pc, outpoints,
                      fetcher, batch, replies, failures>>
        /\ at' = at + 1 /\ (Cached(o) \/ Stored(o) \/ Received(o))
    BY <1>7 DEF IndexInput
  <2> HIDE DEF o
  <2>3. input_values' \in Seq(Output) /\ values' \in Seq(Output)
        /\ Len(values') <= Len(values) /\ Len(values') \in Nat
    <3>1. input_values \in Seq(Output) /\ values \in Seq(Output)
      OBVIOUS
    <3>2. CASE Cached(o) \/ Stored(o)
      <4>1. input_values' = Append(input_values, o) /\ values' = values /\ o \in Output
        BY <2>1, <3>2 DEF Cached, Stored, o
      <4> QED BY <3>1, <4>1, AppendProperties
    <3>3. CASE Received(o)
      <4>1. Head(values) \in Output /\ Tail(values) \in Seq(Output)
            /\ Len(Tail(values)) = Len(values) - 1
        BY <3>1, <3>3, HeadTailProperties DEF Received
      <4>2. input_values' = Append(input_values, Head(values)) /\ values' = Tail(values)
        BY <3>3 DEF Received
      <4>3. input_values' \in Seq(Output)
        BY <3>1, <4>1, <4>2, AppendProperties
      <4> QED BY <3>1, <4>1, <4>2, <4>3
    <3> QED BY <2>2, <3>2, <3>3
  <2> QED BY <2>1, <2>2, <2>3, SMTT(30)
<1>8. ASSUME EndBlock PROVE TypeOK'
  <2>1. height < Len(chain)
    BY <1>8 DEF EndBlock, ControlOK, InBlock
  <2>2. height' = height + 1 /\ at' = 0 /\ input_values' = << >> /\ pc' = "next_block"
        /\ UNCHANGED <<chain, outpoints, values, fetcher, batch, replies, failures>>
    BY <1>8 DEF EndBlock
  <2>3. CASE BatchFull
    <3>1. stored'.height = height + 1 /\ uncommitted' = 0
      BY <1>8, <2>3 DEF EndBlock, Commit
    <3> QED BY <2>1, <2>2, <3>1, EmptySeq
  <2>4. CASE ~ BatchFull
    BY <1>8, <2>1, <2>2, <2>4, EmptySeq DEF EndBlock, BatchFull
  <2> QED BY <2>3, <2>4
<1>9. ASSUME EndUpdate PROVE TypeOK'
  <2>1. CASE uncommitted > 0
    BY <1>9, <2>1, EmptySeq DEF EndUpdate, Commit, Disconnect
  <2>2. CASE ~ uncommitted > 0
    BY <1>9, <2>2, EmptySeq DEF EndUpdate, Disconnect
  <2> QED BY <2>1, <2>2
<1>10. ASSUME Recv PROVE TypeOK'
  <2>1. Head(outpoints) \in Output /\ Tail(outpoints) \in Seq(Output)
        /\ Len(Tail(outpoints)) = Len(outpoints) - 1
    BY <1>10, HeadTailProperties DEF Recv
  <2>2. batch' \in Seq(Output) /\ Len(batch') = 1
    BY <1>10, <2>1 DEF Recv
  <2>3. Len(replies) = 0
    BY <1>10 DEF Recv, ControlOK
  <2> QED BY <1>10, <2>1, <2>2, <2>3 DEF Recv
<1>11. ASSUME Collect PROVE TypeOK'
  <2>1. CASE outpoints # << >> /\ Len(batch) < MaxBatch
    <3>1. Head(outpoints) \in Output /\ Tail(outpoints) \in Seq(Output)
          /\ Len(Tail(outpoints)) = Len(outpoints) - 1
      BY <2>1, HeadTailProperties
    <3>2. batch' \in Seq(Output) /\ Len(batch') = Len(batch) + 1
      <4>1. batch' = Append(batch, Head(outpoints)) /\ batch \in Seq(Output)
        BY <1>11, <2>1 DEF Collect
      <4> QED BY <3>1, <4>1, AppendProperties
    <3>3. Len(replies) = 0 /\ outpoints' = Tail(outpoints) /\ fetcher' = fetcher
          /\ UNCHANGED <<chain, stored, height, uncommitted, pc, at, input_values,
                        values, replies, failures>>
      BY <1>11, <2>1 DEF Collect, ControlOK
    <3> QED BY <2>1, <3>1, <3>2, <3>3
  <2>2. CASE ~ (outpoints # << >> /\ Len(batch) < MaxBatch)
    BY <1>11, <2>2 DEF Collect
  <2> QED BY <2>1, <2>2
<1>12. ASSUME GetTransactions PROVE TypeOK'
  BY <1>12, NewReplies DEF GetTransactions
<1>13. ASSUME AllAnswered PROVE TypeOK'
  BY <1>13 DEF AllAnswered
<1>14. ASSUME RequestFails PROVE TypeOK'
  BY <1>14, EmptySeq DEF RequestFails
<1>15. ASSUME SendValue PROVE TypeOK'
  <2>1. values' = Append(values, batch[1]) /\ batch[1] \in Output /\ Len(batch) \in Nat \ {0}
    BY <1>15, SentIsHead DEF SendValue
  <2>2. values' \in Seq(Output) /\ Len(values') = Len(values) + 1
    BY <2>1, AppendProperties
  <2>3. batch' \in Seq(Output) /\ Len(batch') = Len(batch) - 1
    BY <1>15, <2>1, HeadTailProperties DEF SendValue
  <2>4. replies' \in Seq(Txids) /\ Len(replies') = Len(replies) - 1
    BY <1>15, HeadTailProperties DEF SendValue
  <2> QED BY <1>15, <2>2, <2>3, <2>4 DEF SendValue
<1>16. ASSUME AllReplied PROVE TypeOK'
  BY <1>16 DEF AllReplied
<1>17. ASSUME UNCHANGED vars PROVE TypeOK'
  BY <1>17 DEF vars
<1> QED
  BY <1>1, <1>2, <1>3, <1>4, <1>5, <1>6, <1>7, <1>8, <1>9, <1>10, <1>11, <1>12,
     <1>13, <1>14, <1>15, <1>16, <1>17, BeginBlockCases
     DEF Next, IndexThread, FetcherThread, SendFails, ReceiveFails

(* Every step keeps what the program counters know.                        *)
LEMMA ControlStep ==
  ASSUME TypeOK, ControlOK, NothingIsLeftOver, [Next]_vars
  PROVE  ControlOK'
<1> USE FetcherAssumption DEF store, thread, channels
<1>0. TypeOK'
  BY TypeStep
<1>1. ASSUME Mine PROVE ControlOK'
  <2>1. PICK block \in NewBlocks(height) :
          Valid(height + 1, block) /\ chain' = Append(chain, block)
    BY <1>1 DEF Mine
  <2>2. block \in Seq(Input) /\ Len(block) <= MaxInputs
    BY NewBlockShape
  <2>3. chain \in Seq(Seq(Input)) /\ height = Len(chain) /\ Len(chain) \in Nat
    BY <1>1 DEF Mine, TypeOK
  <2>4. /\ Len(chain') = Len(chain) + 1
        /\ \A g \in 1 .. Len(chain) : chain'[g] = chain[g]
        /\ chain'[Len(chain) + 1] = block
    BY <2>1, <2>2, <2>3, AppendProperties
  <2>5. \A g \in 1 .. Len(chain') : Len(chain'[g]) <= MaxInputs /\ Valid(g, chain'[g])
    BY <2>1, <2>2, <2>3, <2>4 DEF ControlOK
  <2>6. ~ InBlock /\ ~ InBlock'
    BY <1>1, <2>3 DEF Mine, ControlOK, InBlock
  <2> QED BY <1>1, <2>5, <2>6 DEF Mine, ControlOK
<1>2. ASSUME BeginUpdate PROVE ControlOK'
  BY <1>2 DEF BeginUpdate, ControlOK, InBlock
<1>3. ASSUME BlockBegins PROVE ControlOK'
  <2>1. height < Len(chain) /\ Block' = Block
    BY <1>3 DEF BlockBegins, BeginBlock, Block
  <2>2. Valid(height + 1, Block) /\ Len(Block) \in Nat
    BY <2>1, BlockUnderWay
  <2> QED BY <1>3, <2>1, <2>2 DEF BlockBegins, BeginBlock, ControlOK, InBlock, Block
<1>4. ASSUME Fail PROVE ControlOK'
  BY <1>4 DEF Fail, Disconnect, ControlOK, InBlock
<1>5. ASSUME SendOutpoint PROVE ControlOK'
  <2>1. at <= Len(Block) /\ Len(Block) \in Nat /\ InBlock
    BY <1>5, BlockUnderWay DEF SendOutpoint, ControlOK, InBlock
  <2>2. fetcher = "ended" => outpoints' = outpoints
    BY <1>5 DEF SendOutpoint
  <2>3. /\ UNCHANGED <<chain, height, pc, values, input_values, fetcher, batch, replies>>
        /\ at' = at + 1 /\ pc = "send" /\ Block' = Block
    BY <1>5 DEF SendOutpoint, Block
  <2> QED BY <2>1, <2>2, <2>3 DEF ControlOK, InBlock, Block
<1>6. ASSUME AllSent PROVE ControlOK'
  <2>1. Len(Block) \in Nat /\ Block' = Block /\ input_values = << >>
    BY <1>6, BlockUnderWay DEF AllSent, ControlOK, InBlock, Block
  <2> QED BY <1>6, <2>1 DEF AllSent, ControlOK, InBlock, Block
<1>7. ASSUME IndexInput PROVE ControlOK'
  <2> DEFINE o == Block[at].previous_output
  <2>1. /\ UNCHANGED <<chain, height, pc, outpoints, fetcher, batch, replies>>
        /\ at' = at + 1 /\ pc = "index" /\ at <= Len(Block) /\ Block' = Block
        /\ Cached(o) \/ Stored(o) \/ Received(o)
    BY <1>7 DEF IndexInput, Block
  <2>2. Len(Block) \in Nat /\ o \in Output /\ at \in 1 .. Len(Block)
    BY <2>1, BlockUnderWay DEF ControlOK, InBlock, Spends
  <2> HIDE DEF o
  <2>3. input_values' = Append(input_values, o)
          \/ /\ values # << >> /\ input_values' = Append(input_values, Head(values))
    BY <2>1 DEF Cached, Stored, Received
  <2>4. Len(input_values') = Len(input_values) + 1
    <3>1. input_values \in Seq(Output) /\ (values # << >> => Head(values) \in Output)
      BY HeadTailProperties DEF TypeOK
    <3> QED BY <2>2, <2>3, <3>1, AppendProperties
  <2> QED BY <2>1, <2>2, <2>4 DEF ControlOK, InBlock, Block
<1>8. ASSUME EndBlock PROVE ControlOK'
  BY <1>8 DEF EndBlock, ControlOK, InBlock
<1>9. ASSUME EndUpdate PROVE ControlOK'
  BY <1>9 DEF EndUpdate, Disconnect, ControlOK, InBlock
<1>10. ASSUME Recv PROVE ControlOK'
  <2>1. pc # "idle"
    BY <1>10 DEF Recv, ControlOK
  <2> QED BY <1>10, <2>1 DEF Recv, ControlOK, InBlock, Block
<1>11. ASSUME Collect PROVE ControlOK'
  <2>1. /\ UNCHANGED <<chain, height, pc, at, input_values, values, replies>>
        /\ fetcher = "collect" /\ fetcher' \in {"collect", "request"}
    BY <1>11 DEF Collect
  <2>2. replies = << >> /\ pc # "idle" /\ Block' = Block
    BY <2>1 DEF ControlOK, Block
  <2> QED BY <2>1, <2>2 DEF ControlOK, InBlock, Block
<1>12. ASSUME GetTransactions PROVE ControlOK'
  <2>1. /\ UNCHANGED <<chain, height, pc, at, input_values, values, outpoints, fetcher, batch>>
        /\ fetcher = "request"
    BY <1>12 DEF GetTransactions
  <2>2. \A i \in 1 .. Len(replies') : replies'[i] = batch[i].txid
    BY <1>12, NewReplies
  <2> QED BY <2>1, <2>2 DEF ControlOK, InBlock, Block
<1>13. ASSUME AllAnswered PROVE ControlOK'
  BY <1>13 DEF AllAnswered, ControlOK, InBlock, Block
<1>14. ASSUME RequestFails PROVE ControlOK'
  BY <1>14 DEF RequestFails, ControlOK, InBlock, Block
<1>15. ASSUME SendValue PROVE ControlOK'
  <2>1. replies # << >> /\ Len(replies) = Len(batch) /\ replies \in Seq(Txids)
        /\ batch \in Seq(Output) /\ Len(batch) \in Nat \ {0}
    BY <1>15, SentIsHead DEF SendValue, ControlOK, TypeOK
  <2>2. /\ Len(replies') = Len(replies) - 1 /\ Len(batch') = Len(batch) - 1
        /\ \A i \in 1 .. Len(replies) - 1 :
             replies'[i] = replies[i + 1] /\ batch'[i] = batch[i + 1]
    BY <1>15, <2>1, HeadTailProperties DEF SendValue
  <2>3. \A i \in 1 .. Len(replies') : replies'[i] = batch'[i].txid
    BY <2>1, <2>2 DEF ControlOK
  <2>4. /\ UNCHANGED <<chain, height, pc, at, input_values, outpoints, fetcher>>
        /\ fetcher = "reply" /\ pc # "idle"
    BY <1>15 DEF SendValue, ControlOK
  <2> QED BY <2>1, <2>2, <2>3, <2>4 DEF ControlOK, InBlock, Block
<1>16. ASSUME AllReplied PROVE ControlOK'
  <2>1. batch = << >>
    BY <1>16 DEF AllReplied, ControlOK, TypeOK
  <2> QED BY <1>16, <2>1 DEF AllReplied, ControlOK, InBlock, Block
<1>17. ASSUME UNCHANGED vars PROVE ControlOK'
  BY <1>17 DEF vars, ControlOK, InBlock, Block
<1> QED
  BY <1>1, <1>2, <1>3, <1>4, <1>5, <1>6, <1>7, <1>8, <1>9, <1>10, <1>11, <1>12,
     <1>13, <1>14, <1>15, <1>16, <1>17, BeginBlockCases
     DEF Next, IndexThread, FetcherThread, SendFails, ReceiveFails

-----------------------------------------------------------------------------
(* The lengths of the pipeline's parts, and where a part's items are.      *)
LEMMA ItemTypes ==
  ASSUME TypeOK
  PROVE  /\ Len(values) \in Nat /\ Len(batch) \in Nat /\ Len(outpoints) \in Nat
         /\ InFlight \in Nat
         /\ \A k \in 1 .. InFlight : Item(k) \in Output
<1>1. Len(values) \in Nat /\ Len(batch) \in Nat /\ Len(outpoints) \in Nat
      /\ values \in Seq(Output) /\ batch \in Seq(Output) /\ outpoints \in Seq(Output)
  BY DEF TypeOK
<1>2. ASSUME NEW k \in 1 .. InFlight PROVE Item(k) \in Output
  <2>1. CASE k <= Len(values)
    BY <1>1, <2>1 DEF Item
  <2>2. CASE k > Len(values) /\ k <= Len(values) + Len(batch)
    BY <1>1, <2>2 DEF Item
  <2>3. CASE k > Len(values) + Len(batch)
    BY <1>1, <2>3 DEF Item, InFlight
  <2> QED BY <1>1, <2>1, <2>2, <2>3 DEF InFlight
<1>3. InFlight \in Nat
  BY <1>1 DEF InFlight
<1> QED BY <1>1, <1>2, <1>3

LEMMA ThreadMoves ==
  ASSUME PipelineInv, TypeOK', ControlOK',
         Recv \/ Collect \/ GetTransactions \/ AllAnswered \/ SendValue \/ AllReplied
  PROVE  PipelineInv'
<1> USE DEF PipelineInv
<1>1. UNCHANGED <<chain, store, pc, at, input_values>>
  BY DEF Recv, Collect, GetTransactions, AllAnswered, SendValue, AllReplied, channels
<1>2. fetcher # "ended" /\ fetcher' # "ended"
  BY DEF Recv, Collect, GetTransactions, AllAnswered, SendValue, AllReplied
<1>3. Len(values) \in Nat /\ Len(batch) \in Nat /\ Len(outpoints) \in Nat
      /\ values \in Seq(Output) /\ batch \in Seq(Output) /\ outpoints \in Seq(Output)
  BY ItemTypes DEF TypeOK
<1>4. CASE Recv
  <2>1. batch = << >> /\ batch' = <<Head(outpoints)>> /\ outpoints' = Tail(outpoints)
        /\ outpoints # << >> /\ values' = values
    BY <1>4 DEF Recv, ControlOK
  <2>2. /\ Len(outpoints') = Len(outpoints) - 1 /\ Len(batch) = 0 /\ Len(batch') = 1
        /\ batch'[1] = outpoints[1] /\ Len(outpoints) >= 1
        /\ \A k \in 1 .. Len(outpoints) - 1 : outpoints'[k] = outpoints[k + 1]
    BY <2>1, <1>3, HeadTailProperties
  <2>3. InFlight' = InFlight
    BY <2>1, <2>2, <1>3 DEF InFlight
  <2>4. \A k \in 1 .. InFlight : Item(k)' = Item(k)
    BY <2>1, <2>2, <1>3 DEF Item, InFlight
  <2> QED BY <1>1, <1>2, <2>3, <2>4, PipelineMoves
<1>5. CASE Collect
  <2>1. CASE outpoints # << >> /\ Len(batch) < MaxBatch
    <3>1. batch' = Append(batch, Head(outpoints)) /\ outpoints' = Tail(outpoints)
          /\ values' = values
      BY <1>5, <2>1 DEF Collect
    <3>2. /\ Len(outpoints') = Len(outpoints) - 1 /\ Len(outpoints) >= 1
          /\ Head(outpoints) = outpoints[1] /\ Head(outpoints) \in Output
          /\ \A k \in 1 .. Len(outpoints) - 1 : outpoints'[k] = outpoints[k + 1]
      BY <2>1, <3>1, <1>3, HeadTailProperties
    <3>3. /\ Len(batch') = Len(batch) + 1 /\ batch'[Len(batch) + 1] = outpoints[1]
          /\ \A k \in 1 .. Len(batch) : batch'[k] = batch[k]
      BY <3>1, <3>2, <1>3, AppendProperties
    <3>4. InFlight' = InFlight
      <4>1. Len(values') = Len(values) /\ Len(batch') = Len(batch) + 1
            /\ Len(outpoints') = Len(outpoints) - 1
        BY <3>1, <3>2, <3>3
      <4> QED BY ONLY <4>1, <1>3 DEF InFlight
    <3>5. \A k \in 1 .. InFlight : Item(k)' = Item(k)
      <4> SUFFICES ASSUME NEW k \in 1 .. InFlight
                   PROVE  Item(k)' = Item(k)
        OBVIOUS
      <4> DEFINE v == Len(values)
                 b == Len(batch)
      <4>1. values' = values /\ v \in Nat /\ b \in Nat /\ Len(batch') = b + 1
        BY <3>1, <3>3, <1>3
      <4>2. k \in 1 .. v + b + Len(outpoints)
        BY DEF InFlight
      <4>3. CASE k <= v + b
        <5>1. k > v => batch'[k - v] = batch[k - v]
          BY <4>1, <4>2, <4>3, <3>3
        <5> QED BY ONLY <4>1, <4>2, <4>3, <5>1, <1>3 DEF Item
      <4>4. CASE k = v + b + 1
        BY ONLY <4>1, <4>2, <4>4, <3>3, <1>3 DEF Item
      <4>5. CASE k > v + b + 1
        <5>1. outpoints'[k - v - b - 1] = outpoints[k - v - b]
          <6>1. k - v - b - 1 \in 1 .. Len(outpoints) - 1
            BY ONLY <4>1, <4>2, <4>5, <1>3
          <6> QED BY ONLY <6>1, <3>2, <4>1, <1>3, SMTT(30)
        <5>2. Item(k) = outpoints[k - v - b]
          BY ONLY <4>1, <4>2, <4>5, <1>3 DEF Item
        <5>3. Item(k)' = outpoints'[k - v - (b + 1)]
          BY ONLY <4>1, <4>2, <4>5, <1>3 DEF Item
        <5> QED BY ONLY <5>1, <5>2, <5>3, <4>1, <4>2
      <4> QED BY ONLY <4>1, <4>2, <4>3, <4>4, <4>5, <1>3
    <3> QED BY <1>1, <1>2, <3>4, <3>5, PipelineMoves
  <2>2. CASE ~ (outpoints # << >> /\ Len(batch) < MaxBatch)
    <3>1. UNCHANGED <<values, batch, outpoints>>
      BY <1>5, <2>2 DEF Collect
    <3> QED BY <1>1, <1>2, <3>1, PipelineMoves DEF Item, InFlight
  <2> QED BY <2>1, <2>2
<1>6. CASE SendValue
  <2>1. values' = Append(values, batch[1]) /\ batch[1] \in Output /\ Len(batch) >= 1
        /\ batch # << >> /\ batch' = Tail(batch) /\ outpoints' = outpoints
    BY <1>6, SentIsHead DEF SendValue
  <2>2. /\ Len(values') = Len(values) + 1 /\ values'[Len(values) + 1] = batch[1]
        /\ \A k \in 1 .. Len(values) : values'[k] = values[k]
    BY <2>1, <1>3, AppendProperties
  <2>3. /\ Len(batch') = Len(batch) - 1
        /\ \A k \in 1 .. Len(batch) - 1 : batch'[k] = batch[k + 1]
    BY <2>1, <1>3, HeadTailProperties
  <2>4. InFlight' = InFlight
    BY <2>1, <2>2, <2>3, <1>3 DEF InFlight
  <2>5. \A k \in 1 .. InFlight : Item(k)' = Item(k)
    BY <2>1, <2>2, <2>3, <1>3, SMTT(30) DEF Item, InFlight
  <2> QED BY <1>1, <1>2, <2>4, <2>5, PipelineMoves
<1>7. CASE GetTransactions \/ AllAnswered \/ AllReplied
  <2>1. UNCHANGED <<values, batch, outpoints>>
    BY <1>7 DEF GetTransactions, AllAnswered, AllReplied, channels
  <2> QED BY <1>1, <1>2, <2>1, PipelineMoves DEF Item, InFlight
<1> QED BY <1>4, <1>5, <1>6, <1>7

(* An outpoint is sent: it becomes the last item.                          *)
LEMMA SendStep ==
  ASSUME PipelineInv, TypeOK', ControlOK', SendOutpoint
  PROVE  PipelineInv'
<1> USE DEF PipelineInv
<1>1. /\ pc = "send" /\ at' = at + 1 /\ at \in 1 .. Len(Block) /\ Len(Block) \in Nat
      /\ UNCHANGED <<chain, store, pc, input_values, values, thread, failures>>
      /\ height < Len(chain) /\ Spends(at) \in Output /\ InBlock
  BY BlockUnderWay DEF SendOutpoint, ControlOK, InBlock
<1>2. /\ First = 1 /\ First' = 1 /\ Last = at - 1 /\ Last' = at
      /\ InBlock' /\ Block' = Block /\ pc' = "send"
  BY <1>1 DEF First, Last, InBlock, Block, store
<1>3. \A p : Spends(p)' = Spends(p) /\ Missing(Spends(p))' = Missing(Spends(p))
  BY <1>1, <1>2 DEF Spends, Missing, TxidsOf, Block, store
<1>4. Len(values) \in Nat /\ Len(batch) \in Nat /\ Len(outpoints) \in Nat
      /\ InFlight \in Nat /\ outpoints \in Seq(Output)
  BY ItemTypes DEF TypeOK
<1>8. \A p, q \in 1 .. at : Spends(p) = Spends(q) => p = q
  <2>1. \A p \in 1 .. at : p \in 1 .. Len(Block)
    BY <1>1
  <2> QED BY <2>1, <1>1, SpendsOnce
<1>5. EveryInputGetsItsValue' /\ NothingIsLeftOver' /\ MadeIsCached'
  BY <1>1, <1>2 DEF EveryInputGetsItsValue, NothingIsLeftOver, MadeIsCached, ControlOK
<1>6. CASE Missing(Spends(at))
  <2>1. outpoints' = Append(outpoints, Spends(at)) /\ fetcher # "ended"
    BY <1>6 DEF SendOutpoint, Spends
  <2>2. /\ Len(outpoints') = Len(outpoints) + 1
        /\ outpoints'[Len(outpoints) + 1] = Spends(at)
        /\ \A k \in 1 .. Len(outpoints) : outpoints'[k] = outpoints[k]
    BY <2>1, <1>1, <1>4, AppendProperties
  <2>3. InFlight' = InFlight + 1
    BY <2>2, <1>1, <1>4 DEF InFlight, thread
  <2>4. \A k \in 1 .. InFlight : Item(k)' = Item(k)
    BY <2>2, <1>1, <1>4, SMTT(30) DEF Item, InFlight, thread
  <2>5. \A k : k = InFlight + 1 => Item(k)' = Spends(at)
    BY <2>2, <1>1, <1>4 DEF Item, InFlight, thread
  <2>6. ItemsOrdered'
    <3>1. ASSUME NEW k \in 1 .. InFlight + 1
          PROVE  \E p \in 1 .. at : Item(k)' = Spends(p) /\ Missing(Spends(p))
      <4>1. CASE k \in 1 .. InFlight
        <5>1. PICK p \in 1 .. at - 1 : Item(k) = Spends(p) /\ Missing(Spends(p))
          BY <4>1, <1>1, <1>2 DEF ItemsOrdered
        <5> QED BY <4>1, <5>1, <2>4, <1>1
      <4>2. CASE k = InFlight + 1
        BY <4>2, <2>5, <1>6, <1>1
      <4> QED BY <4>1, <4>2, <1>4
    <3>2. ASSUME NEW k \in 1 .. InFlight + 1, NEW l \in 1 .. InFlight + 1,
                 NEW p \in 1 .. at, NEW q \in 1 .. at,
                 k < l, Item(k)' = Spends(p), Item(l)' = Spends(q)
          PROVE  p < q
      <4>1. k \in 1 .. InFlight /\ Item(k) = Spends(p)
        BY <3>2, <1>4, <2>4
      <4>2. PICK r \in 1 .. at - 1 : Item(k) = Spends(r)
        BY <4>1, <1>1, <1>2 DEF ItemsOrdered
      <4>3. p = r
        <5>1. r \in 1 .. at /\ Spends(p) = Spends(r)
          BY <4>1, <4>2, <1>1
        <5> QED BY <5>1, <1>8
      <4>4. CASE l \in 1 .. InFlight
        <5>1. PICK v \in 1 .. at - 1 : Item(l) = Spends(v)
          BY <4>4, <1>1, <1>2 DEF ItemsOrdered
        <5>2. q = v
          BY <3>2, <4>4, <5>1, <2>4, <1>1, <1>8
        <5> QED BY <3>2, <4>1, <4>2, <4>3, <4>4, <5>1, <5>2, <1>1, <1>2 DEF ItemsOrdered
      <4>5. CASE l = InFlight + 1
        <5>1. q = at
          BY <3>2, <4>5, <2>5, <1>1, <1>8
        <5> QED BY <4>3, <5>1, <1>1
      <4> QED BY <4>4, <4>5, <1>4
    <3> QED BY <3>1, <3>2, <1>2, <1>3, <2>3 DEF ItemsOrdered
  <2>7. NoneSkipped'
    <3>1. ASSUME NEW p \in 1 .. at, Missing(Spends(p))
          PROVE  \E k \in 1 .. InFlight + 1 : Item(k)' = Spends(p)
      <4>1. CASE p = at
        BY <4>1, <2>5, <1>4
      <4>2. CASE p \in 1 .. at - 1
        <5>1. PICK k \in 1 .. InFlight : Item(k) = Spends(p)
          BY <3>1, <4>2, <1>1, <1>2, <2>1 DEF NoneSkipped
        <5> QED BY <5>1, <2>4, <1>4
      <4> QED BY <4>1, <4>2, <1>1
    <3> QED BY <3>1, <1>2, <1>3, <2>3 DEF NoneSkipped
  <2>8. SentAtMost'
    BY <1>1, <2>3, <1>4 DEF SentAtMost
  <2> QED BY <1>5, <2>6, <2>7, <2>8
<1>7. CASE ~ Missing(Spends(at))
  <2>1. outpoints' = outpoints
    BY <1>7 DEF SendOutpoint, Spends
  <2>2. InFlight' = InFlight /\ \A k : Item(k)' = Item(k)
    BY <2>1, <1>1 DEF InFlight, Item, thread
  <2>3. ItemsOrdered'
    <3>1. \A k \in 1 .. InFlight : \E p \in 1 .. at - 1 :
            Item(k) = Spends(p) /\ Missing(Spends(p))
      BY <1>1, <1>2 DEF ItemsOrdered
    <3>2. ASSUME NEW k \in 1 .. InFlight, NEW p \in 1 .. at, Item(k) = Spends(p)
          PROVE  p \in 1 .. at - 1
      <4>1. PICK q \in 1 .. at - 1 : Item(k) = Spends(q)
        BY <3>1
      <4>2. q \in 1 .. at /\ Spends(p) = Spends(q)
        BY <3>2, <4>1, <1>1
      <4>3. p = q
        BY <4>2, <1>8
      <4> QED BY <4>1, <4>3
    <3>3. \A k, l \in 1 .. InFlight : \A p, q \in 1 .. at :
            k < l /\ Item(k) = Spends(p) /\ Item(l) = Spends(q) => p < q
      BY <3>2, <1>1, <1>2 DEF ItemsOrdered
    <3>4. \A k \in 1 .. InFlight : \E p \in 1 .. at :
            Item(k) = Spends(p) /\ Missing(Spends(p))
      BY <3>1, <1>1
    <3> QED BY <3>3, <3>4, <2>2, <1>2, <1>3 DEF ItemsOrdered
  <2>4. NoneSkipped'
    <3>1. ASSUME NEW p \in 1 .. at, Missing(Spends(p))
          PROVE  \/ \E k \in 1 .. InFlight : Item(k) = Spends(p)
                 \/ /\ fetcher = "ended"
                    /\ \A k \in 1 .. InFlight : \A q \in 1 .. at :
                         Item(k) = Spends(q) => q < p
      <4>1. p \in 1 .. at - 1
        BY <3>1, <1>7, <1>1
      <4>2. CASE \E k \in 1 .. InFlight : Item(k) = Spends(p)
        BY <4>2
      <4>3. CASE /\ fetcher = "ended"
                 /\ \A k \in 1 .. InFlight : \A q \in 1 .. at - 1 :
                      Item(k) = Spends(q) => q < p
        <5>1. ASSUME NEW k \in 1 .. InFlight, NEW q \in 1 .. at, Item(k) = Spends(q)
              PROVE  q < p
          <6>1. PICK r \in 1 .. at - 1 : Item(k) = Spends(r)
            BY <1>1, <1>2 DEF ItemsOrdered
          <6>2. q = r
            <7>1. r \in 1 .. at /\ Spends(q) = Spends(r)
              BY <5>1, <6>1, <1>1
            <7> QED BY <7>1, <1>8
          <6> QED BY <4>3, <6>1, <6>2
        <5> QED BY <4>3, <5>1
      <4> QED BY <3>1, <4>1, <4>2, <4>3, <1>1, <1>2 DEF NoneSkipped
    <3> QED BY <3>1, <2>2, <1>1, <1>2, <1>3 DEF NoneSkipped, thread
  <2>5. SentAtMost'
    BY <1>1, <1>4, <2>2 DEF SentAtMost
  <2> QED BY <1>5, <2>3, <2>4, <2>5
<1> QED BY <1>6, <1>7

(* An input that is neither cached nor stored was missing when the block   *)
(* was scanned, and the values of the later ones are not touched.          *)
LEMMA StillMissing ==
  ASSUME PipelineInv, IndexInput
  PROVE  /\ Spends(at) \notin value_cache \cup outpoint_to_value => Missing(Spends(at))
         /\ \A p \in at + 1 .. Len(Block) : Missing(Spends(p))' = Missing(Spends(p))
<1> USE DEF PipelineInv
<1>1. /\ pc = "index" /\ InBlock /\ at \in 1 .. Len(Block) /\ Len(Block) \in Nat
      /\ UNCHANGED <<chain, height>> /\ height < Len(chain)
      /\ Valid(height + 1, Block) /\ Block \in Seq(Input) /\ height \in Nat
      /\ Len(Block) <= MaxInputs
      /\ Cached(Spends(at)) \/ Stored(Spends(at)) \/ Received(Spends(at))
  BY BlockUnderWay DEF IndexInput, ControlOK, InBlock, Spends, TypeOK
<1>2. Block' = Block /\ TxidsOf(height + 1, Block)' = TxidsOf(height + 1, Block)
  BY <1>1 DEF Block, TxidsOf, Transactions
<1>3. \A t \in Transactions(Block) : t \in 1 .. MaxInputs
  <2>1. \A a \in DOMAIN Block : Block[a] \in Input
    BY <1>1
  <2> QED BY <2>1 DEF Transactions, Input
<1>4. ASSUME Spends(at) \notin value_cache \cup outpoint_to_value
      PROVE  Missing(Spends(at))
  <2>1. SUFFICES ASSUME NEW t \in Transactions(Block),
                        Spends(at).txid = Txid(height + 1, t)
                 PROVE  FALSE
    BY <1>4 DEF Missing, TxidsOf
  <2>2. at \in DOMAIN Block
    BY <1>1
  <2>3. t < Block[at].tx /\ Spends(at) = OutPoint(height + 1, t)
    BY <2>1, <2>2, <1>1, <1>3 DEF Valid, Spends
  <2>4. Spends(at) \in value_cache
    BY <2>3, <1>1 DEF MadeIsCached
  <2> QED BY <2>4, <1>4
<1>5. ASSUME NEW p \in at + 1 .. Len(Block)
      PROVE  Missing(Spends(p))' = Missing(Spends(p))
  <2>1. p \in 1 .. Len(Block) /\ Spends(p) # Spends(at) /\ Spends(p)' = Spends(p)
    BY <1>1, <1>2, SpendsOnce DEF Spends
  <2>2. CASE Spends(p).txid \in TxidsOf(height + 1, Block)
    BY <2>1, <2>2, <1>2 DEF Missing
  <2>3. CASE Spends(p).txid \notin TxidsOf(height + 1, Block)
    <3>1. OutPoint(height + 1, Block[at].tx).txid \in TxidsOf(height + 1, Block)
      BY <1>1, SMTT(30) DEF OutPoint, TxidsOf, Transactions
    <3>2. Spends(p) \notin OutputsAt(at)
      BY <2>3, <3>1 DEF OutputsAt
    <3>3. /\ Spends(p) \in value_cache' <=> Spends(p) \in value_cache
          /\ Spends(p) \in outpoint_to_value' <=> Spends(p) \in outpoint_to_value
      BY <1>1, <2>1, <3>2 DEF Cached, Stored, Received
    <3> QED BY <2>1, <3>3, <1>2 DEF Missing
  <2> QED BY <2>2, <2>3
<1> QED BY <1>4, <1>5

(* An input is indexed; if its value is received it is the first item.     *)
LEMMA IndexStep ==
  ASSUME PipelineInv, TypeOK', ControlOK', IndexInput
  PROVE  PipelineInv'
<1> USE DEF PipelineInv
<1>1. /\ pc = "index" /\ InBlock /\ at \in 1 .. Len(Block) /\ Len(Block) \in Nat
      /\ UNCHANGED <<chain, height, pc, outpoints, fetcher, batch, replies>>
      /\ height < Len(chain) /\ at' = at + 1
      /\ Valid(height + 1, Block) /\ Block \in Seq(Input)
      /\ Cached(Spends(at)) \/ Stored(Spends(at)) \/ Received(Spends(at))
  BY BlockUnderWay DEF IndexInput, ControlOK, InBlock, Spends, TypeOK, thread
<1>2. /\ First = at /\ Last = Len(Block) /\ First' = at + 1 /\ Last' = Len(Block)
      /\ InBlock' /\ Block' = Block
  BY <1>1 DEF First, Last, InBlock, Block
<1>3. \A p : Spends(p)' = Spends(p)
  BY <1>2 DEF Spends
<1>4. \A p \in at + 1 .. Len(Block) : Missing(Spends(p))' = Missing(Spends(p))
  BY StillMissing
<1>5. Len(values) \in Nat /\ Len(batch) \in Nat /\ Len(outpoints) \in Nat
      /\ InFlight \in Nat /\ values \in Seq(Output) /\ input_values \in Seq(Output)
      /\ Len(input_values) = at - 1 /\ Spends(at) \in Output
  BY <1>1, ItemTypes, BlockUnderWay DEF TypeOK, ControlOK
<1>6. \A p, q \in 1 .. Len(Block) : Spends(p) = Spends(q) => p = q
  BY <1>1, SpendsOnce
<1>7. \A p \in at .. Len(Block) : p \in 1 .. Len(Block)
  BY <1>1
<1>8. /\ \A k \in 1 .. InFlight : \E p \in at .. Len(Block) :
           Item(k) = Spends(p) /\ Missing(Spends(p))
      /\ \A k, l \in 1 .. InFlight : \A p, q \in at .. Len(Block) :
           k < l /\ Item(k) = Spends(p) /\ Item(l) = Spends(q) => p < q
  BY <1>1, <1>2 DEF ItemsOrdered
<1>9. \A p \in at .. Len(Block) : Missing(Spends(p)) =>
        \/ \E k \in 1 .. InFlight : Item(k) = Spends(p)
        \/ /\ fetcher = "ended"
           /\ \A k \in 1 .. InFlight : \A q \in at .. Len(Block) :
                Item(k) = Spends(q) => q < p
  BY <1>1, <1>2 DEF NoneSkipped
<1>10. at \in at .. Len(Block) /\ at \in 1 .. Len(Block)
  BY <1>1
<1>11. MadeIsCached'
  <2> SUFFICES ASSUME NEW p \in at + 1 .. Len(Block), NEW t \in Transactions(Block),
                      Spends(p) = OutPoint(height + 1, t), t < Block[at + 1].tx
               PROVE  Spends(p) \in value_cache'
    BY <1>1, <1>2, <1>3 DEF MadeIsCached
  <2>1. p \in 1 .. Len(Block) /\ p \in at .. Len(Block) /\ Spends(p) # Spends(at)
        /\ at + 1 \in 1 .. Len(Block)
    BY <1>1, <1>6
  <2>2. value_cache \ {Spends(at)} \subseteq value_cache' /\ OutputsAt(at) \subseteq value_cache'
    BY <1>1 DEF Cached, Stored, Received
  <2>3. PICK r \in 1 .. Len(Block) : t = Block[r].tx
    BY <1>1 DEF Transactions
  <2>4. \A a, b \in 1 .. Len(Block) :
          Block[a].tx \in Nat /\ (a < b => Block[a].tx <= Block[b].tx)
    <3>1. \A a \in 1 .. Len(Block) : a \in DOMAIN Block /\ Block[a].tx \in Nat
      <4>1. \A a \in 1 .. Len(Block) : a \in DOMAIN Block /\ Block[a] \in Input
        BY <1>1
      <4> QED BY <4>1, FetcherAssumption DEF Input
    <3> QED BY <3>1, <1>1 DEF Valid
  <2>5. CASE t < Block[at].tx
    BY <2>1, <2>2, <2>5, <1>1 DEF MadeIsCached
  <2>6. CASE ~ t < Block[at].tx
    <3>1. r <= at
      BY <2>3, <2>4, <2>1, <1>1
    <3>2. t = Block[at].tx /\ Block[at + 1].tx # Block[at].tx
      BY <3>1, <2>3, <2>4, <2>6, <2>1, <1>1
    <3> QED BY <3>2, <2>2 DEF OutputsAt
  <2> QED BY <2>5, <2>6
<1>12. NothingIsLeftOver' /\ SentAtMost'
  BY <1>1 DEF NothingIsLeftOver, SentAtMost
<1>13. CASE Received(Spends(at))
  <2>1. /\ values # << >> /\ Missing(Spends(at))
        /\ input_values' = Append(input_values, Head(values)) /\ values' = Tail(values)
    BY <1>13, StillMissing DEF Received
  <2>2. /\ Len(values) >= 1 /\ Head(values) = values[1] /\ values[1] \in Output
        /\ Len(values') = Len(values) - 1
        /\ \A k \in 1 .. Len(values) - 1 : values'[k] = values[k + 1]
    BY <2>1, <1>5, HeadTailProperties
  <2>3. 1 \in 1 .. InFlight /\ Item(1) = values[1]
    BY <2>2, <1>5 DEF Item, InFlight
  <2>4. Item(1) = Spends(at)
    <3>1. PICK p \in at .. Len(Block) : Item(1) = Spends(p)
      BY <2>3, <1>8
    <3>2. ~ p < at
      BY <3>1, <1>1
    <3>3. PICK k \in 1 .. InFlight : Item(k) = Spends(at)
      BY <2>1, <2>3, <3>1, <3>2, <1>9, <1>10
    <3>4. k = 1
      BY <3>1, <3>2, <3>3, <2>3, <1>8, <1>10, <1>5
    <3> QED BY <3>3, <3>4
  <2>5. InFlight' = InFlight - 1
    BY <2>2, <1>1, <1>5 DEF InFlight
  <2>6. \A k \in 1 .. InFlight - 1 : Item(k)' = Item(k + 1)
    BY <2>2, <1>1, <1>5 DEF Item, InFlight
  <2>7. EveryInputGetsItsValue'
    <3>1. /\ Len(input_values') = at /\ input_values'[at] = Spends(at)
          /\ \A j \in 1 .. at - 1 : input_values'[j] = input_values[j]
          /\ input_values' \in Seq(Output)
      BY <2>1, <2>2, <2>3, <2>4, <1>1, <1>5, AppendProperties
    <3>2. \A j \in 1 .. at - 1 : input_values[j] = Spends(j)
      BY <1>5 DEF EveryInputGetsItsValue, Spends
    <3>3. \A j \in 1 .. at : input_values'[j] = Spends(j)
      BY <3>1, <3>2, <1>1
    <3> QED BY <3>1, <3>3, <1>2 DEF EveryInputGetsItsValue, Spends
  <2>8. \A k \in 1 .. InFlight - 1 : k + 1 \in 1 .. InFlight /\ k \in 1 .. InFlight
    BY <1>5
  <2>9. ASSUME NEW k \in 2 .. InFlight, NEW p \in at .. Len(Block), Item(k) = Spends(p)
        PROVE  p \in at + 1 .. Len(Block)
    <3>1. k \in 1 .. InFlight /\ 1 < k
      BY <1>5
    <3>2. at < p
      BY <2>9, <3>1, <2>3, <2>4, <1>8, <1>10
    <3> QED BY <3>2, <1>1
  <2>10. ItemsOrdered'
    <3>1. ASSUME NEW k \in 1 .. InFlight - 1
          PROVE  \E p \in at + 1 .. Len(Block) : Item(k)' = Spends(p) /\ Missing(Spends(p))
      <4>1. PICK p \in at .. Len(Block) : Item(k + 1) = Spends(p) /\ Missing(Spends(p))
        BY <2>8, <1>8
      <4>2. k + 1 \in 2 .. InFlight
        BY <1>5
      <4>3. p \in at + 1 .. Len(Block)
        BY <4>1, <4>2, <2>9
      <4> QED BY <4>1, <4>3, <2>6
    <3>2. \A k, l \in 1 .. InFlight - 1 : \A p, q \in at + 1 .. Len(Block) :
            k < l /\ Item(k)' = Spends(p) /\ Item(l)' = Spends(q) => p < q
      <4>1. \A p \in at + 1 .. Len(Block) : p \in at .. Len(Block)
        BY <1>1
      <4> QED BY <4>1, <2>6, <2>8, <1>8, <1>5, SMTT(30)
    <3>3. (1 .. InFlight)' = 1 .. InFlight - 1
      BY <2>5
    <3> QED BY <3>1, <3>2, <3>3, <1>2, <1>3, <1>4 DEF ItemsOrdered
  <2>11. NoneSkipped'
    <3>1. ASSUME NEW p \in at + 1 .. Len(Block), Missing(Spends(p))
          PROVE  \/ \E k \in 1 .. InFlight - 1 : Item(k)' = Spends(p)
                 \/ /\ fetcher = "ended"
                    /\ \A k \in 1 .. InFlight - 1 : \A q \in at + 1 .. Len(Block) :
                         Item(k)' = Spends(q) => q < p
      <4>1. p \in at .. Len(Block) /\ p # at /\ p \in 1 .. Len(Block)
        BY <1>1
      <4>2. CASE \E k \in 1 .. InFlight : Item(k) = Spends(p)
        <5>1. PICK k \in 1 .. InFlight : Item(k) = Spends(p)
          BY <4>2
        <5>2. k # 1
          BY <5>1, <2>4, <4>1, <1>6, <1>10
        <5>3. k - 1 \in 1 .. InFlight - 1 /\ (k - 1) + 1 = k
          BY <5>2, <1>5
        <5> QED BY <5>1, <5>3, <2>6
      <4>3. CASE /\ fetcher = "ended"
                 /\ \A k \in 1 .. InFlight : \A q \in at .. Len(Block) :
                      Item(k) = Spends(q) => q < p
        <5>1. \A q \in at + 1 .. Len(Block) : q \in at .. Len(Block)
          BY <1>1
        <5> QED BY <4>3, <5>1, <2>6, <2>8
      <4> QED BY <3>1, <4>1, <4>2, <4>3, <1>9
    <3>2. (1 .. InFlight)' = 1 .. InFlight - 1
      BY <2>5
    <3> QED BY <3>1, <3>2, <1>1, <1>2, <1>3, <1>4 DEF NoneSkipped
  <2> QED BY <1>11, <1>12, <2>7, <2>10, <2>11
<1>14. CASE Cached(Spends(at)) \/ Stored(Spends(at))
  <2>1. /\ ~ Missing(Spends(at)) /\ values' = values
        /\ input_values' = Append(input_values, Spends(at))
    BY <1>14 DEF Cached, Stored, Missing
  <2>2. InFlight' = InFlight /\ \A k : Item(k)' = Item(k)
    BY <2>1, <1>1 DEF InFlight, Item
  <2>3. EveryInputGetsItsValue'
    <3>1. /\ Len(input_values') = at /\ input_values'[at] = Spends(at)
          /\ \A j \in 1 .. at - 1 : input_values'[j] = input_values[j]
          /\ input_values' \in Seq(Output)
      BY <2>1, <1>1, <1>5, AppendProperties
    <3>2. \A j \in 1 .. at - 1 : input_values[j] = Spends(j)
      BY <1>5 DEF EveryInputGetsItsValue, Spends
    <3>3. \A j \in 1 .. at : input_values'[j] = Spends(j)
      BY <3>1, <3>2, <1>1
    <3> QED BY <3>1, <3>3, <1>2 DEF EveryInputGetsItsValue, Spends
  <2>4. \A p \in at + 1 .. Len(Block) : p \in at .. Len(Block)
    BY <1>1
  <2>5. ItemsOrdered'
    <3>1. ASSUME NEW k \in 1 .. InFlight
          PROVE  \E p \in at + 1 .. Len(Block) : Item(k) = Spends(p) /\ Missing(Spends(p))
      <4>1. PICK p \in at .. Len(Block) : Item(k) = Spends(p) /\ Missing(Spends(p))
        BY <1>8
      <4>2. p # at
        BY <4>1, <2>1
      <4>3. p \in at + 1 .. Len(Block)
        BY <4>2, <1>1
      <4> QED BY <4>1, <4>3
    <3>2. \A k, l \in 1 .. InFlight : \A p, q \in at + 1 .. Len(Block) :
            k < l /\ Item(k) = Spends(p) /\ Item(l) = Spends(q) => p < q
      BY <2>4, <1>8
    <3> QED BY <3>1, <3>2, <2>2, <1>2, <1>3, <1>4 DEF ItemsOrdered
  <2>6. NoneSkipped'
    <3>1. \A p \in at + 1 .. Len(Block) : Missing(Spends(p)) =>
            \/ \E k \in 1 .. InFlight : Item(k) = Spends(p)
            \/ /\ fetcher = "ended"
               /\ \A k \in 1 .. InFlight : \A q \in at + 1 .. Len(Block) :
                    Item(k) = Spends(q) => q < p
      BY <2>4, <1>9
    <3> QED BY <3>1, <2>2, <1>1, <1>2, <1>3, <1>4 DEF NoneSkipped
  <2> QED BY <1>11, <1>12, <2>3, <2>5, <2>6
<1> QED BY <1>1, <1>13, <1>14

(* The thread ends: the values that are in the channel can still be had,   *)
(* what comes after them is lost.                                          *)
LEMMA RequestFailsStep ==
  ASSUME PipelineInv, TypeOK', ControlOK', RequestFails
  PROVE  PipelineInv'
<1> USE DEF PipelineInv
<1>1. /\ UNCHANGED <<chain, store, pc, at, input_values, values>>
      /\ fetcher' = "ended" /\ batch' = << >> /\ outpoints' = << >>
  BY DEF RequestFails
<1>2. First' = First /\ Last' = Last /\ InBlock' = InBlock /\ Block' = Block
  BY <1>1 DEF First, Last, InBlock, Block, store
<1>3. \A p : Spends(p)' = Spends(p) /\ Missing(Spends(p))' = Missing(Spends(p))
  BY <1>1, <1>2 DEF Spends, Missing, TxidsOf, Block, store
<1>4. Len(values) \in Nat /\ Len(batch) \in Nat /\ Len(outpoints) \in Nat
      /\ InFlight \in Nat /\ InFlight' = Len(values) /\ Len(values) <= InFlight
  BY <1>1, ItemTypes DEF InFlight
<1>5. \A k \in 1 .. Len(values) : Item(k)' = Item(k) /\ k \in 1 .. InFlight
  BY <1>1, <1>4 DEF Item, InFlight
<1>6. EveryInputGetsItsValue' /\ NothingIsLeftOver' /\ MadeIsCached' /\ SentAtMost'
  <2>1. at \in Nat
    BY DEF TypeOK
  <2>2. NothingIsLeftOver' /\ SentAtMost'
    BY <1>1, <1>4, <2>1 DEF NothingIsLeftOver, SentAtMost
  <2>3. EveryInputGetsItsValue'
    BY <1>1, <1>2 DEF EveryInputGetsItsValue
  <2>4. MadeIsCached'
    BY <1>1, <1>2, <1>3 DEF MadeIsCached, store
  <2> QED BY <2>2, <2>3, <2>4
<1>7. ItemsOrdered'
  BY <1>2, <1>3, <1>4, <1>5, SMTT(30) DEF ItemsOrdered
<1>8. NoneSkipped'
  <2> SUFFICES ASSUME InBlock, NEW p \in First .. Last, Missing(Spends(p)),
                      ~ \E k \in 1 .. Len(values) : Item(k)' = Spends(p)
               PROVE  \A k \in 1 .. Len(values) : \A q \in First .. Last :
                        Item(k)' = Spends(q) => q < p
    BY <1>1, <1>2, <1>3, <1>4 DEF NoneSkipped
  <2>1. CASE \E k \in 1 .. InFlight : Item(k) = Spends(p)
    <3>1. PICK l \in 1 .. InFlight : Item(l) = Spends(p)
      BY <2>1
    <3>2. l > Len(values)
      BY <3>1, <1>4, <1>5
    <3> QED BY <3>1, <3>2, <1>4, <1>5 DEF ItemsOrdered
  <2>2. CASE ~ \E k \in 1 .. InFlight : Item(k) = Spends(p)
    BY <2>2, <1>5 DEF NoneSkipped
  <2> QED BY <2>1, <2>2
<1> QED BY <1>6, <1>7, <1>8

(* Every step keeps the invariant.                                         *)
LEMMA PipelineStep ==
  ASSUME PipelineInv, [Next]_vars
  PROVE  PipelineInv'
<1> USE DEF PipelineInv
<1>1. TypeOK' /\ ControlOK'
  BY TypeStep, ControlStep
<1>2. Len(values) \in Nat /\ Len(batch) \in Nat /\ Len(outpoints) \in Nat /\ InFlight \in Nat
  BY ItemTypes
<1>3. pc = "idle" => InFlight = 0
  BY DEF ControlOK, InFlight
<1>4. CASE Mine
  <2>1. ~ InBlock /\ pc' = pc /\ InFlight' = InFlight /\ input_values' = << >>
    BY <1>4 DEF Mine, ControlOK, InBlock, InFlight, channels, thread
  <2> QED BY <1>1, <2>1 DEF InBlock, ItemsOrdered, NoneSkipped, MadeIsCached,
                     EveryInputGetsItsValue, NothingIsLeftOver, SentAtMost
<1>5. CASE BeginUpdate
  <2>1. pc = "idle" /\ pc' = "next_block" /\ InFlight' = InFlight /\ input_values' = << >>
    BY <1>5 DEF BeginUpdate, ControlOK, InFlight, channels
  <2> QED BY <1>1, <1>3, <2>1 DEF InBlock, ItemsOrdered, NoneSkipped, MadeIsCached,
                            EveryInputGetsItsValue, NothingIsLeftOver, SentAtMost
<1>6. CASE BlockBegins
  <2>1. /\ pc = "next_block" /\ pc' = "send" /\ at' = 1 /\ InFlight' = InFlight
        /\ input_values' = << >>
    BY <1>6 DEF BlockBegins, BeginBlock, ControlOK, InFlight, channels, thread
  <2>2. InFlight' = 0 /\ First' = 1 /\ Last' = 0
    BY <2>1 DEF NothingIsLeftOver, First, Last
  <2> QED BY <1>1, <2>1, <2>2 DEF InBlock, ItemsOrdered, NoneSkipped, MadeIsCached,
                            EveryInputGetsItsValue, NothingIsLeftOver, SentAtMost
<1>7. CASE Fail
  <2>1. pc' = "idle" /\ input_values' = << >>
    BY <1>7 DEF Fail
  <2> QED BY <1>1, <2>1 DEF InBlock, ItemsOrdered, NoneSkipped, MadeIsCached,
                     EveryInputGetsItsValue, NothingIsLeftOver, SentAtMost
<1>8. CASE AllSent
  <2>1. /\ pc = "send" /\ pc' = "index" /\ at' = 1 /\ at = Len(Block) + 1
        /\ Len(Block) \in Nat /\ input_values' = << >> /\ InBlock /\ height < Len(chain)
        /\ UNCHANGED <<chain, store, channels, thread>>
    BY <1>8, BlockUnderWay DEF AllSent, ControlOK, InBlock
  <2>2. /\ First = 1 /\ First' = 1 /\ Last = Len(Block) /\ Last' = Len(Block)
        /\ Block' = Block /\ InFlight' = InFlight /\ \A k : Item(k)' = Item(k)
        /\ height' = height
    BY <2>1 DEF First, Last, Block, store, InFlight, Item, channels, thread
  <2>3. \A p : Spends(p)' = Spends(p) /\ Missing(Spends(p))' = Missing(Spends(p))
    BY <2>1, <2>2 DEF Spends, Missing, TxidsOf, Block, store
  <2>4. MadeIsCached'
    <3> SUFFICES ASSUME NEW p \in 1 .. Len(Block), NEW t \in Transactions(Block),
                        t < Block[1].tx
                 PROVE  FALSE
      BY <2>1, <2>2, <2>3 DEF MadeIsCached
    <3>1. PICK r \in DOMAIN Block : t = Block[r].tx
      BY DEF Transactions
    <3>2. Block \in Seq(Input) /\ Valid(height + 1, Block)
      BY <2>1, BlockUnderWay
    <3>3. r \in 1 .. Len(Block) /\ 1 \in DOMAIN Block /\ Block[1] \in Input /\ Block[r] \in Input
      BY <3>1, <3>2, <2>1
    <3>4. 1 = r \/ 1 < r
      BY <3>3
    <3>5. Block[1].tx <= Block[r].tx
      BY <3>1, <3>2, <3>3, <3>4, FetcherAssumption DEF Valid, Input
    <3> QED BY <3>1, <3>3, <3>5, FetcherAssumption DEF Input
  <2>5. ItemsOrdered' /\ NoneSkipped'
    BY <2>1, <2>2, <2>3 DEF ItemsOrdered, NoneSkipped, InBlock, thread
  <2> QED BY <1>1, <2>1, <2>4, <2>5 DEF EveryInputGetsItsValue, NothingIsLeftOver, SentAtMost
<1>9. CASE EndBlock
  <2>1. /\ pc = "index" /\ pc' = "next_block" /\ input_values' = << >>
        /\ at = Len(Block) + 1 /\ Len(Block) \in Nat /\ InFlight' = InFlight
    BY <1>9, BlockUnderWay DEF EndBlock, ControlOK, InBlock, InFlight, channels, thread
  <2>2. InFlight = 0
    <3>1. First = Len(Block) + 1 /\ Last = Len(Block) /\ InBlock
      BY <2>1 DEF First, Last, InBlock
    <3>2. \A k \in 1 .. InFlight : FALSE
      BY <3>1, <2>1 DEF ItemsOrdered
    <3> QED BY <3>2, <1>2
  <2> QED BY <1>1, <2>1, <2>2 DEF InBlock, ItemsOrdered, NoneSkipped, MadeIsCached,
                            EveryInputGetsItsValue, NothingIsLeftOver, SentAtMost
<1>10. CASE EndUpdate
  <2>1. pc' = "idle" /\ input_values' = << >>
    BY <1>10 DEF EndUpdate, ControlOK
  <2> QED BY <1>1, <2>1 DEF InBlock, ItemsOrdered, NoneSkipped, MadeIsCached,
                     EveryInputGetsItsValue, NothingIsLeftOver, SentAtMost
<1>11. CASE UNCHANGED vars
  <2>1. /\ UNCHANGED <<chain, store, pc, at, input_values>>
        /\ fetcher = "ended" <=> fetcher' = "ended"
        /\ InFlight' = InFlight /\ \A k : Item(k)' = Item(k)
    BY <1>11 DEF vars, channels, thread, InFlight, Item
  <2> QED BY <1>1, <2>1, PipelineMoves
<1> QED
  BY <1>1, <1>4, <1>5, <1>6, <1>7, <1>8, <1>9, <1>10, <1>11,
     SendStep, IndexStep, ThreadMoves, RequestFailsStep, BeginBlockCases
     DEF Next, IndexThread, FetcherThread, SendFails, ReceiveFails

LEMMA PipelineInit ==
  ASSUME Init
  PROVE  PipelineInv
<1> USE FetcherAssumption DEF Init
<1>1. TypeOK
  BY EmptySeq DEF TypeOK
<1>2. ControlOK
  BY DEF ControlOK, InBlock
<1> QED BY <1>1, <1>2 DEF PipelineInv, InBlock, ItemsOrdered, NoneSkipped, MadeIsCached,
                    EveryInputGetsItsValue, NothingIsLeftOver, SentAtMost

LEMMA PipelineInvariant == Spec => []PipelineInv
<1>1. Init => PipelineInv
  BY PipelineInit
<1>2. PipelineInv /\ [Next]_vars => PipelineInv'
  BY PipelineStep
<1> QED BY <1>1, <1>2, PTL DEF Spec

-----------------------------------------------------------------------------
(* The state is well typed and both channels keep to their size.           *)
THEOREM FetcherTypeCorrect == Spec => []TypeOK
<1>1. PipelineInv => TypeOK
  BY DEF PipelineInv
<1> QED BY <1>1, PipelineInvariant, PTL

(* Every input of a block gets the value of the output it spends, for any  *)
(* chain, sizes of channels, batches and requests, and any failures of the *)
(* node: index_block and the thread agree on nothing but the order.        *)
THEOREM ValuesReachTheirInputs == Spec => []EveryInputGetsItsValue
<1>1. PipelineInv => EveryInputGetsItsValue
  BY DEF PipelineInv
<1> QED BY <1>1, PipelineInvariant, PTL

(* The error "Previous block did not consume all input values" is never    *)
(* one of values left over: when a block begins nothing is under way.      *)
THEOREM NoBlockLeavesValues == Spec => []NothingIsLeftOver
<1>1. PipelineInv => NothingIsLeftOver
  BY DEF PipelineInv
<1> QED BY <1>1, PipelineInvariant, PTL

(* The index thread and the fetcher never wait for each other's channel,   *)
(* if no block has more inputs than two channels and one outpoint.  With   *)
(* the code's 20,000 that is 40,001, more than a block of Dogecoin holds.  *)
THEOREM ChannelsDoNotDeadlock ==
  ASSUME MaxInputs <= 2 * ChannelBufferSize + 1
  PROVE  Spec => []NeverBothBlocked
<1>1. PipelineInv => NeverBothBlocked
  <2> SUFFICES ASSUME PipelineInv, pc = "send", at <= Len(Block),
                      Len(outpoints) = ChannelBufferSize,
                      fetcher = "reply", replies # << >>,
                      Len(values) = ChannelBufferSize
               PROVE  FALSE
    BY DEF NeverBothBlocked
  <2>1. TypeOK /\ ControlOK /\ SentAtMost
    BY DEF PipelineInv
  <2>2. height < Len(chain)
    BY <2>1 DEF ControlOK, InBlock
  <2>3. Len(Block) \in 0 .. MaxInputs /\ at \in Nat
    BY <2>1, <2>2, BlockUnderWay DEF TypeOK
  <2>4. Len(batch) \in Nat \ {0}
    BY <2>1 DEF ControlOK, TypeOK
  <2>5. Len(values) + Len(batch) + Len(outpoints) <= at - 1
    BY <2>1 DEF SentAtMost, InFlight
  <2> QED BY <2>3, <2>4, <2>5, FetcherAssumption
<1> QED BY <1>1, PipelineInvariant, PTL

=============================================================================
