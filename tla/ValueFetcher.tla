----------------------------- MODULE ValueFetcher -----------------------------
(***************************************************************************)
(* The values of inputs that no table has (updater.rs, fetcher.rs).        *)
(*                                                                         *)
(* index_block first sends every outpoint it will miss to a thread of its  *)
(* own, over a bounded channel, and only then indexes the block; each time *)
(* an input's value is neither cached nor stored it takes the next value   *)
(* out of a second bounded channel.  Nothing but the order says which      *)
(* value is whose.  The thread collects outpoints into batches, cuts a     *)
(* batch into parallel requests and sends the values back.                 *)
(*                                                                         *)
(* The value of an output is written as the output itself.                 *)
(***************************************************************************)
EXTENDS Integers, Sequences, FiniteSets

CONSTANTS
  OldTxid,            \* transactions from before the first inscription height
  ChannelBufferSize,  \* CHANNEL_BUFFER_SIZE
  MaxBatch,           \* BATCH_SIZE
  ParallelRequests,   \* index.nr_parallel_requests
  CommitSize,         \* 1000: blocks of a write transaction
  MaxHeight,          \* bound: blocks
  MaxInputs,          \* bound: inputs of a block
  MaxFailures         \* bound: failed requests

ASSUME FetcherAssumption ==
  /\ ChannelBufferSize \in Nat \ {0} /\ MaxBatch \in Nat \ {0}
  /\ ParallelRequests \in Nat \ {0} /\ CommitSize \in Nat \ {0}
  /\ MaxHeight \in Nat /\ MaxInputs \in Nat /\ MaxFailures \in Nat

VARIABLES
  chain,              \* the node: its blocks
  stored,             \* OUTPOINT_TO_VALUE as committed, and the blocks in it
  outpoint_to_value,  \* OUTPOINT_TO_VALUE as the open transaction sees it
  value_cache,
  height,             \* Updater.height
  uncommitted,        \* blocks of the open transaction
  pc,                 \* where update_index or index_block is
  at,                 \* the input it looks at
  input_values,       \* of the inputs indexed so far
  outpoints,          \* the channel to the thread
  values,             \* the channel back
  fetcher,            \* where the thread is
  batch,              \* the outpoints it collected
  replies,            \* the values it has still to send
  failures            \* requests that failed so far

store == <<stored, outpoint_to_value, value_cache, height, uncommitted>>
channels == <<outpoints, values>>
thread == <<fetcher, batch, replies>>
vars == <<chain, store, pc, at, input_values, channels, thread, failures>>

-----------------------------------------------------------------------------
(* A block is the list of its inputs, each with the position of its        *)
(* transaction.  Transaction t of block h has one output.  The coinbase    *)
(* has no input that is looked up.                                         *)
Txid(h, t) == <<h, t>>
OutPoint(h, t) == [txid |-> Txid(h, t), vout |-> 0]

Block == chain[height + 1]
Transactions(block) == {block[i].tx : i \in DOMAIN block}
TxidsOf(h, block) == {Txid(h, t) : t \in Transactions(block)}

(* A block the node accepts spends outputs that are there, once, those of  *)
(* its own transactions only later in the block.                           *)
Valid(h, block) ==
  /\ \A i \in DOMAIN block : \A t \in 1 .. MaxInputs :
       block[i].previous_output.txid = Txid(h, t)
         => /\ t \in Transactions(block) /\ t < block[i].tx
            /\ block[i].previous_output = OutPoint(h, t)
  /\ \A i, j \in DOMAIN block :
       /\ i < j => block[i].tx <= block[j].tx
       /\ block[i].previous_output = block[j].previous_output => i = j

OldOutputs == {[txid |-> t, vout |-> 0] : t \in OldTxid}
Made(h) ==
  UNION {{OutPoint(g, t) : t \in Transactions(chain[g])} : g \in 1 .. h}
Spent(h) ==
  UNION {{chain[g][i].previous_output : i \in DOMAIN chain[g]} : g \in 1 .. h}
Unspent(h) == (OldOutputs \cup Made(h)) \ Spent(h)

(* Blocks the node may bring after the first h.                            *)
Positions(n) ==
  {p \in [1 .. n -> 1 .. n] :
     /\ n > 0 => p[1] = 1
     /\ \A i \in 1 .. n - 1 : p[i + 1] \in {p[i], p[i] + 1}}
BlocksOfSize(n, spendable) ==
  UNION {{[i \in 1 .. n |-> [tx |-> p[i], previous_output |-> s[i]]] :
            s \in [1 .. n -> spendable]} : p \in Positions(n)}
Spendable(h) ==
  Unspent(h) \cup {OutPoint(h + 1, t) : t \in 1 .. MaxInputs}
NewBlocks(h) ==
  UNION {BlocksOfSize(n, Spendable(h)) : n \in 0 .. MaxInputs}

-----------------------------------------------------------------------------
(* Is the value of o one that index_block asks the thread for?             *)
Missing(o) ==
  /\ o.txid \notin TxidsOf(height + 1, Block)
  /\ o \notin value_cache
  /\ o \notin outpoint_to_value

Unordered(results) ==  \* a mutant: the results are taken as they come
  [i \in 1 .. Len(results) |-> results[i].tx]

(* sort_by(id): the results of a request in the order of its txids.        *)
SortedById(results) ==
  [i \in 1 .. Len(results) |->
     results[CHOOSE k \in 1 .. Len(results) : results[k].id = i].tx]

ChunkSize(n) == (n \div ParallelRequests) + 1

(* The next of outpoints.chunks(chunk_size): one request.                  *)
NextChunk ==
  LET size == ChunkSize(Len(batch))
      left == Len(batch) - Len(replies)
  IN  SubSeq(batch, Len(replies) + 1,
             Len(replies) + (IF left < size THEN left ELSE size))

(* The node's answer to a request, in any order: the request for the       *)
(* transaction of chunk[k] has id k.                                       *)
Orders(n) ==
  {p \in [1 .. n -> 1 .. n] : \A i \in 1 .. n : \E k \in 1 .. n : p[k] = i}
Answer(chunk, order) ==
  [i \in 1 .. Len(chunk) |-> [id |-> order[i], tx |-> chunk[order[i]].txid]]

-----------------------------------------------------------------------------
Init ==
  /\ chain = << >>
  /\ stored = [height |-> 0, values |-> {}]
  /\ outpoint_to_value = {} /\ value_cache = {}
  /\ height = 0 /\ uncommitted = 0
  /\ pc = "idle" /\ at = 0 /\ input_values = << >>
  /\ outpoints = << >> /\ values = << >>
  /\ fetcher = "ended" /\ batch = << >> /\ replies = << >>
  /\ failures = 0

(* The node brings a block; at most one is waiting.                        *)
Mine ==
  /\ Len(chain) = height /\ height < MaxHeight
  /\ \E block \in NewBlocks(height) :
       Valid(height + 1, block) /\ chain' = Append(chain, block)
  /\ UNCHANGED <<store, pc, at, input_values, channels, thread, failures>>

(* The channels and the thread belong to one call of update_index.         *)
Disconnect ==
  /\ outpoints' = << >> /\ values' = << >>
  /\ fetcher' = "ended" /\ batch' = << >> /\ replies' = << >>

BeginUpdateOneThread ==  \* a mutant: the thread of the first update serves all
  /\ pc = "idle"
  /\ pc' = "next_block"
  /\ fetcher' = IF failures = 0 THEN "recv" ELSE "ended"
  /\ UNCHANGED <<chain, store, at, input_values, channels, batch, replies,
                 failures>>

(* Updater::new and the first lines of update_index: spawn_fetcher.        *)
BeginUpdate ==
  /\ pc = "idle"
  /\ pc' = "next_block"
  /\ fetcher' = "recv"
  /\ UNCHANGED <<chain, store, at, input_values, channels, batch, replies,
                 failures>>

(* An error of index_block: the transaction and the cache are dropped.     *)
Fail ==
  /\ pc' = "idle" /\ at' = 0 /\ input_values' = << >>
  /\ outpoint_to_value' = stored.values /\ value_cache' = {}
  /\ height' = stored.height /\ uncommitted' = 0
  /\ Disconnect
  /\ UNCHANGED <<chain, stored, failures>>

(* value_receiver.try_recv() must say Empty; otherwise "Previous block did *)
(* not consume all input values".                                          *)
BeginBlock ==
  /\ pc = "next_block" /\ height < Len(chain)
  /\ IF values = << >> /\ fetcher # "ended"
       THEN /\ pc' = "send" /\ at' = 1
            /\ UNCHANGED <<chain, store, input_values, channels, thread, failures>>
       ELSE Fail

(* blocking_send, for what will be missing                                 *)
SendOutpoint ==
  /\ pc = "send" /\ at <= Len(Block)
  /\ LET o == Block[at].previous_output
     IN  IF Missing(o)
         THEN /\ fetcher # "ended" /\ Len(outpoints) < ChannelBufferSize
              /\ outpoints' = Append(outpoints, o)
         ELSE UNCHANGED outpoints
  /\ at' = at + 1
  /\ UNCHANGED <<chain, store, pc, input_values, values, thread, failures>>

SendFails ==
  /\ pc = "send" /\ at <= Len(Block) /\ Missing(Block[at].previous_output)
  /\ fetcher = "ended"
  /\ Fail

AllSent ==
  /\ pc = "send" /\ at > Len(Block)
  /\ pc' = "index" /\ at' = 1
  /\ UNCHANGED <<chain, store, input_values, channels, thread, failures>>

(* After its last input the outputs of a transaction go to the cache.      *)
OutputsAt(i) ==
  IF i = Len(Block) \/ Block[i + 1].tx # Block[i].tx
  THEN {OutPoint(height + 1, Block[i].tx)} ELSE {}

Cached(o) ==
  /\ o \in value_cache
  /\ input_values' = Append(input_values, o)
  /\ value_cache' = (value_cache \ {o}) \cup OutputsAt(at)
  /\ UNCHANGED <<outpoint_to_value, values>>

Stored(o) ==
  /\ o \notin value_cache /\ o \in outpoint_to_value
  /\ input_values' = Append(input_values, o)
  /\ value_cache' = value_cache \cup OutputsAt(at)
  /\ outpoint_to_value' = outpoint_to_value \ {o}
  /\ UNCHANGED values

Received(o) ==
  /\ o \notin value_cache /\ o \notin outpoint_to_value
  /\ values # << >>
  /\ input_values' = Append(input_values, Head(values))
  /\ values' = Tail(values)
  /\ value_cache' = value_cache \cup OutputsAt(at)
  /\ UNCHANGED outpoint_to_value

(* index_transaction_inscriptions, one input                               *)
IndexInput ==
  /\ pc = "index" /\ at <= Len(Block)
  /\ LET o == Block[at].previous_output
     IN  Cached(o) \/ Stored(o) \/ Received(o)
  /\ at' = at + 1
  /\ UNCHANGED <<chain, stored, height, uncommitted, pc, outpoints, thread,
                 failures>>

(* "failed to get transaction": the channel is closed and empty.           *)
ReceiveFails ==
  /\ pc = "index" /\ at <= Len(Block)
  /\ Block[at].previous_output \notin value_cache \cup outpoint_to_value
  /\ values = << >> /\ fetcher = "ended"
  /\ Fail

Commit(table, n) ==
  /\ stored' = [height |-> n, values |-> table]
  /\ outpoint_to_value' = table
  /\ value_cache' = {} /\ uncommitted' = 0

BatchFull == uncommitted + 1 = CommitSize

EndBlock ==
  /\ pc = "index" /\ at > Len(Block)
  /\ pc' = "next_block" /\ at' = 0 /\ input_values' = << >>
  /\ height' = height + 1
  /\ IF BatchFull
     THEN Commit(outpoint_to_value \cup value_cache, height + 1)
     ELSE /\ uncommitted' = uncommitted + 1
          /\ UNCHANGED <<stored, outpoint_to_value, value_cache>>
  /\ UNCHANGED <<chain, channels, thread, failures>>

(* There is no further block: what is left is committed.                   *)
EndUpdate ==
  /\ pc = "next_block" /\ height = Len(chain)
  /\ pc' = "idle"
  /\ IF uncommitted > 0
     THEN Commit(outpoint_to_value \cup value_cache, height)
     ELSE UNCHANGED <<stored, outpoint_to_value, value_cache, uncommitted>>
  /\ Disconnect
  /\ UNCHANGED <<chain, height, at, input_values, failures>>

-----------------------------------------------------------------------------
(* The thread: recv, try_recv until nothing is there, requests, replies.   *)
Recv ==
  /\ fetcher = "recv" /\ outpoints # << >>
  /\ batch' = <<Head(outpoints)>> /\ outpoints' = Tail(outpoints)
  /\ fetcher' = "collect"
  /\ UNCHANGED <<chain, store, pc, at, input_values, values, replies, failures>>

Collect ==
  /\ fetcher = "collect"
  /\ IF outpoints # << >> /\ Len(batch) < MaxBatch
     THEN /\ batch' = Append(batch, Head(outpoints))
          /\ outpoints' = Tail(outpoints)
          /\ UNCHANGED fetcher
     ELSE fetcher' = "request" /\ UNCHANGED <<batch, outpoints>>
  /\ UNCHANGED <<chain, store, pc, at, input_values, values, replies, failures>>

(* get_transactions of one chunk.  The chunks are asked for at once, and   *)
(* their answers are used in the order of the chunks when all are there.   *)
GetTransactions ==
  /\ fetcher = "request" /\ Len(replies) < Len(batch)
  /\ \E order \in Orders(Len(NextChunk)) :
       replies' = replies \o SortedById(Answer(NextChunk, order))
  /\ UNCHANGED <<chain, store, pc, at, input_values, channels, fetcher, batch,
                 failures>>

AllAnswered ==
  /\ fetcher = "request" /\ Len(replies) = Len(batch)
  /\ fetcher' = "reply"
  /\ UNCHANGED <<chain, store, pc, at, input_values, channels, batch, replies,
                 failures>>

(* "Couldn't receive txs": the thread ends, and with it both channels.     *)
RequestFails ==
  /\ fetcher = "request" /\ failures < MaxFailures
  /\ failures' = failures + 1
  /\ fetcher' = "ended" /\ batch' = << >> /\ replies' = << >>
  /\ outpoints' = << >>
  /\ UNCHANGED <<chain, store, pc, at, input_values, values>>

(* value_sender.send of the output that outpoints[i] names                 *)
SendValue ==
  /\ fetcher = "reply" /\ replies # << >>
  /\ Len(values) < ChannelBufferSize
  /\ values' = Append(values, [txid |-> Head(replies), vout |-> Head(batch).vout])
  /\ replies' = Tail(replies) /\ batch' = Tail(batch)
  /\ UNCHANGED <<chain, store, pc, at, input_values, outpoints, fetcher,
                 failures>>

AllReplied ==
  /\ fetcher = "reply" /\ replies = << >>
  /\ fetcher' = "recv"
  /\ UNCHANGED <<chain, store, pc, at, input_values, channels, batch, replies,
                 failures>>

IndexThread ==
  \/ BeginUpdate \/ BeginBlock
  \/ SendOutpoint \/ SendFails \/ AllSent
  \/ IndexInput \/ ReceiveFails \/ EndBlock \/ EndUpdate

FetcherThread ==
  \/ Recv \/ Collect \/ GetTransactions \/ AllAnswered \/ SendValue \/ AllReplied

Next == Mine \/ IndexThread \/ FetcherThread \/ RequestFails

Spec == Init /\ [][Next]_vars

(* Both are threads of the operating system; the node answers or refuses.  *)
FairSpec == Spec /\ WF_vars(IndexThread) /\ WF_vars(FetcherThread)

-----------------------------------------------------------------------------
InFlight == Len(values) + Len(batch) + Len(outpoints)

Txids == OldTxid \cup (Nat \X Nat)
Output == [txid : Txids, vout : {0}]
Input == [tx : 1 .. MaxInputs, previous_output : Output]

TypeOK ==
  /\ chain \in Seq(Seq(Input))
  /\ pc \in {"idle", "next_block", "send", "index"}
  /\ fetcher \in {"recv", "collect", "request", "reply", "ended"}
  /\ height \in 0 .. Len(chain) /\ stored.height \in 0 .. Len(chain)
  /\ uncommitted \in 0 .. CommitSize - 1
  /\ at \in 0 .. MaxInputs + 1 /\ failures \in 0 .. MaxFailures
  /\ outpoints \in Seq(Output) /\ Len(outpoints) <= ChannelBufferSize
  /\ values \in Seq(Output) /\ Len(values) <= ChannelBufferSize
  /\ batch \in Seq(Output) /\ Len(batch) <= MaxBatch
  /\ replies \in Seq(Txids) /\ Len(replies) <= Len(batch)
  /\ input_values \in Seq(Output)

(* Each input of a block gets the value of the output it spends: the       *)
(* thread's values are consumed in the order they were asked for, by the   *)
(* inputs they were asked for (updater.rs:345, inscription_updater.rs:170).*)
EveryInputGetsItsValue ==
  \A i \in DOMAIN input_values :
    input_values[i] = Block[i].previous_output

(* A block never ends while a value is under way: when the next one begins *)
(* the receiver is empty, or the thread has ended (updater.rs:349).        *)
NothingIsLeftOver ==
  pc = "next_block" => InFlight = 0

(* The index thread waits to send an outpoint while the fetcher waits to   *)
(* send a value: neither ever goes on.  Two channels and a batch of one    *)
(* hold 2 * CHANNEL_BUFFER_SIZE + 1 outpoints (updater.rs:258, 387).       *)
NeverBothBlocked ==
  ~ /\ pc = "send" /\ at <= Len(Block) /\ Missing(Block[at].previous_output)
    /\ Len(outpoints) = ChannelBufferSize
    /\ fetcher = "reply" /\ replies # << >>
    /\ Len(values) = ChannelBufferSize

(* Every block the node brings is indexed and committed in the end,        *)
(* however requests fail, as long as they do not fail for ever: a block    *)
(* whose values could not be fetched is tried again from the last commit   *)
(* (index.rs:502).                                                         *)
EveryBlockIsIndexed ==
  \A n \in 1 .. MaxHeight : (Len(chain) = n) ~> (stored.height >= n)

=============================================================================
