--------------------------- MODULE InscriptionIndex ---------------------------
(***************************************************************************)
(* The inscription updater (inscription_updater.rs) inside the updater's   *)
(* loop over blocks (updater.rs): which inscription is on which satpoint.  *)
(* The chain brings transactions one at a time, those of a block before    *)
(* its coinbase, which is the order in which they are indexed.             *)
(*                                                                         *)
(* An inscription may be spread over a chain of transactions, each of      *)
(* which spends an output of the one before with its first input.          *)
(***************************************************************************)
EXTENDS SatIndex

CONSTANTS
  Options,                  \* the options an index is made with
  FirstInscriptionHeight,
  Script,                   \* scripts of first inputs
  CoinbaseOutputs,          \* bound: lists of values of each block's coinbase
  SpendOutputs,             \* bound: lists of values of a transaction
  MaxHeight,                \* bound: blocks
  CommitHeights,            \* bound: heights at which there may be a commit
  MaxInputs,                \* bound: inputs of a transaction
  Valueless                 \* may a transaction spend nothing but zeros?

(* A script's pushes: does it begin with "ord", the number of pieces it    *)
(* says there are, and the numbers of those it brings.                     *)
ASSUME IndexAssumption ==
  /\ Options \subseteq [sats : BOOLEAN, transactions : BOOLEAN]
  /\ FirstInscriptionHeight \in Nat /\ MaxHeight \in Nat /\ MaxInputs \in Nat
  /\ Script \subseteq [protocol : BOOLEAN, pieces : Nat, numbers : Seq(Nat)]
  /\ CoinbaseOutputs \in [0 .. MaxHeight -> SUBSET Seq(Nat)]
  /\ SpendOutputs \subseteq Seq(Nat) /\ CommitHeights \subseteq Nat
  /\ Valueless \in BOOLEAN
  /\ Txid \subseteq Nat \ {0}

VARIABLES
  options,
  unspent,                  \* the chain: values of the unspent outputs
  next_txid,                \* the chain: the next transaction
  claimable,                \* the chain: subsidy and fees of this block
  in_block,                 \* a block is being indexed
  stopped,                  \* index_block has failed, as it will at each retry
  value_cache,
  outpoint_to_value,        \* OUTPOINT_TO_VALUE
  address_to_outpoint,      \* ADDRESS_TO_OUTPOINT, of all addresses
  transaction_id_to_transaction,    \* its keys
  satpoint_to_id,           \* SATPOINT_TO_INSCRIPTION_ID
  id_to_satpoint,           \* INSCRIPTION_ID_TO_SATPOINT
  number_to_id,             \* INSCRIPTION_NUMBER_TO_INSCRIPTION_ID
  id_to_entry,              \* INSCRIPTION_ID_TO_INSCRIPTION_ENTRY
  sat_to_inscription_id,    \* SAT_TO_INSCRIPTION_ID
  partial_txid_to_txids,    \* PARTIAL_TXID_TO_INSCRIPTION_TXIDS
  txid_to_tx,               \* INSCRIPTION_TXID_TO_TX: their scripts
  id_to_txids,              \* INSCRIPTION_ID_TO_TXIDS
  flotsam,                  \* inscriptions that left as fees
  reward,                   \* subsidy and fees of this block
  next_number,
  operations                \* what CRC20 is told: moves by transaction

chain == <<unspent, next_txid, claimable>>
values == <<value_cache, outpoint_to_value, address_to_outpoint,
            transaction_id_to_transaction>>
located == <<satpoint_to_id, id_to_satpoint, number_to_id, id_to_entry,
             sat_to_inscription_id, next_number, operations>>
chains == <<partial_txid_to_txids, txid_to_tx, id_to_txids>>
vars == <<options, height, in_block, stopped, sats, lost_sats, chain, values,
          located, chains, flotsam, reward>>

index_inscriptions == height >= FirstInscriptionHeight

(* The genesis coinbase cannot be spent.                                   *)
Spendable == {o \in DOMAIN unspent : o.txid # 1}

-----------------------------------------------------------------------------
(* InscriptionParser::parse of a chain of scripts.  Pieces count down to 0; *)
(* a script of the chain may bring several, and what follows a number out  *)
(* of order is not looked at.                                              *)
InOrder(n, numbers) ==
  Max({k \in 0 .. Len(numbers) : \A j \in 1 .. k : numbers[j] = n - j})

PiecesLeft(scripts) ==
  LET left[i \in DOMAIN scripts] ==
        LET before == IF i = 1 THEN scripts[1].pieces ELSE left[i - 1]
        IN  before - InOrder(before, scripts[i].numbers)
  IN  left

Parse(scripts) ==
  LET left == PiecesLeft(scripts)
      Follows(i) == scripts[i].numbers # << >>
                      /\ scripts[i].numbers[1] = left[i - 1] - 1
      Done == {i \in DOMAIN scripts : left[i] = 0}
      Upto == IF Done = {} THEN Len(scripts) ELSE Min(Done)
  IN  CASE ~scripts[1].protocol \/ scripts[1].pieces = 0 -> "None"
        [] \E i \in 2 .. Upto : ~Follows(i) -> "None"
        [] OTHER -> IF Done = {} THEN "Partial" ELSE "Complete"

-----------------------------------------------------------------------------
(* The value of an input: taken out of the cache or the table, or fetched  *)
(* from the node.                                                          *)
ValueOf(o) ==
  CASE IsNull(o) -> Subsidy(height)
    [] o \in DOMAIN value_cache -> value_cache[o]
    [] o \in (DOMAIN outpoint_to_value) \ DOMAIN value_cache -> outpoint_to_value[o]
    [] OTHER -> unspent[o]

InputValues(tx) == [i \in DOMAIN tx.inputs |-> ValueOf(tx.inputs[i])]

RemovedFromTableNot(tx) == {}  \* a mutant: the row is read and stays

(* The rows of OUTPOINT_TO_VALUE that are removed as they are read.        *)
RemovedFromTable(tx) ==
  (ToSet(tx.inputs) \cap DOMAIN outpoint_to_value) \ DOMAIN value_cache

(* The address of a spent output is looked up in its transaction.          *)
MoveValues(tx) ==
  LET outs == OutPointsOf(tx)
      stored == IF options.transactions
                THEN transaction_id_to_transaction \cup {tx.txid}
                ELSE transaction_id_to_transaction
  IN  /\ transaction_id_to_transaction' = stored
      /\ value_cache' = With(Without(value_cache, ToSet(tx.inputs)),
                             [o \in ToSet(outs) |-> tx.outputs[o.vout + 1]])
      /\ outpoint_to_value' = Without(outpoint_to_value, RemovedFromTable(tx))
      /\ address_to_outpoint' =
           address_to_outpoint \ {o \in RemovedFromTable(tx) : o.txid \in stored}

-----------------------------------------------------------------------------
OnOutputOfSameTx(o) ==  \* a mutant: the range of keys is too wide
  {sp \in DOMAIN satpoint_to_id : sp.outpoint.txid = o.txid}

OnOutput(o) == {sp \in DOMAIN satpoint_to_id : sp.outpoint = o}

(* Inscriptions on the inputs of tx, at their offset in all of its inputs. *)
OldFlotsam(tx) ==
  UNION {{[txid |-> tx.txid, id |-> satpoint_to_id[sp], origin |-> "Old",
           offset |-> StartOf(InputValues(tx), i) + sp.offset, old |-> sp]
            : sp \in OnOutput(tx.inputs[i])} : i \in DOMAIN tx.inputs}

(* The chain of partial transactions that tx continues, with tx.           *)
Continued(tx) ==
  LET before == tx.inputs[1].txid
  IN  IF before \in DOMAIN partial_txid_to_txids
      THEN Append(partial_txid_to_txids[before], tx.txid) ELSE <<tx.txid>>

Scripts(tx) ==
  [i \in DOMAIN Continued(tx) |->
     IF i = Len(Continued(tx)) THEN tx.script
     ELSE txid_to_tx[Continued(tx)[i]]]

(* Only a first sat without an inscription can get one.                    *)
Parsed(tx, onInputs) ==
  IF \E f \in onInputs : f.offset = 0 THEN "Skipped" ELSE Parse(Scripts(tx))

NewFlotsam(tx, parsed) ==
  IF parsed = "Complete"
  THEN {[txid |-> tx.txid, id |-> Continued(tx)[1], origin |-> "New",
         offset |-> 0, old |-> [outpoint |-> tx.inputs[1], offset |-> 0]]}
  ELSE {}

OtherChainsAll(tx) == partial_txid_to_txids  \* a mutant: never removes

OtherChains(tx) == Without(partial_txid_to_txids, {tx.inputs[1].txid})

MoveChains(tx, parsed) ==
  LET done == parsed \in {"Partial", "Complete"}
  IN  /\ partial_txid_to_txids' =
           CASE parsed = "Partial" -> WithRow(OtherChains(tx), tx.txid, Continued(tx))
             [] parsed = "Complete" -> OtherChains(tx)
             [] OTHER -> partial_txid_to_txids
      /\ txid_to_tx' =
           IF done THEN WithRow(txid_to_tx, tx.txid, tx.script) ELSE txid_to_tx
      /\ id_to_txids' =
           IF parsed = "Complete"
           THEN WithRow(id_to_txids, Continued(tx)[1], Continued(tx))
           ELSE id_to_txids

-----------------------------------------------------------------------------
(* The flotsam that lands in the outputs of tx, and what floats on.        *)
Landing(tx, all) == {f \in all : f.offset < Total(tx.outputs)}
Floating(tx, all) == {f \in all : f.offset >= Total(tx.outputs)}

(* sort_by_key is stable: of two at one offset, that of the earlier        *)
(* transaction comes first.                                                *)
Ahead(f, g) ==
  f.offset < g.offset \/ (f.offset = g.offset /\ f.txid < g.txid)

SortByOffset(all) ==
  [k \in 1 .. Cardinality(all) |->
     CHOOSE f \in all : Cardinality({g \in all : Ahead(g, f)}) = k - 1]

OutputAt(tx, offset) ==
  LET j == Min({i \in DOMAIN tx.outputs :
                  offset < StartOf(tx.outputs, i) + tx.outputs[i]})
  IN  [outpoint |-> OutPointsOf(tx)[j],
       offset |-> offset - StartOf(tx.outputs, j)]

Tables == [satpoint_to_id |-> satpoint_to_id, id_to_satpoint |-> id_to_satpoint,
           number_to_id |-> number_to_id, id_to_entry |-> id_to_entry,
           sat_to_inscription_id |-> sat_to_inscription_id,
           next_number |-> next_number, operations |-> operations]

RemovedNot(by_satpoint, f) == by_satpoint  \* a mutant: the old row stays

Removed(by_satpoint, f) ==
  IF f.origin = "Old" THEN Without(by_satpoint, {f.old}) ELSE by_satpoint

OperationOfNew(f, to) ==  \* a mutant: where it was is where it went
  [id |-> f.id, new |-> f.origin = "New", old |-> to, to |-> to]

OperationOf(f, to) ==
  [id |-> f.id, new |-> f.origin = "New", old |-> f.old, to |-> to]

(* update_inscription_location: f goes to the satpoint `to'.  The sat of a *)
(* new inscription is looked up in the ranges of the inputs.               *)
Located(t, f, to, ranges) ==
  LET new == f.origin = "New"
      sat == IF options.sats THEN SatAt(ranges, f.offset) ELSE {}
      ops == IF f.txid \in DOMAIN t.operations THEN t.operations[f.txid] ELSE << >>
  IN  [satpoint_to_id |-> WithRow(Removed(t.satpoint_to_id, f), to, f.id),
       id_to_satpoint |-> WithRow(t.id_to_satpoint, f.id, to),
       number_to_id |-> IF new THEN WithRow(t.number_to_id, t.next_number, f.id)
                        ELSE t.number_to_id,
       id_to_entry |->
         IF new
         THEN WithRow(t.id_to_entry, f.id, [number |-> t.next_number, sat |-> sat])
         ELSE t.id_to_entry,
       sat_to_inscription_id |->
         IF new THEN With(t.sat_to_inscription_id, [s \in sat |-> f.id])
         ELSE t.sat_to_inscription_id,
       next_number |-> IF new THEN t.next_number + 1 ELSE t.next_number,
       operations |-> WithRow(t.operations, f.txid, Append(ops, OperationOf(f, to)))]

(* Each of a set of flotsam goes where `To' says, in the order of offsets. *)
TablesAfter(sorted, To, ranges) ==
  LET t[k \in 0 .. Len(sorted)] ==
        IF k = 0 THEN Tables
        ELSE Located(t[k - 1], sorted[k], To[sorted[k]], ranges)
  IN  t[Len(sorted)]

Locate(all, To, ranges) ==
  LET t == TablesAfter(SortByOffset(all), To, ranges)
  IN  /\ satpoint_to_id' = t.satpoint_to_id
      /\ id_to_satpoint' = t.id_to_satpoint
      /\ number_to_id' = t.number_to_id
      /\ id_to_entry' = t.id_to_entry
      /\ sat_to_inscription_id' = t.sat_to_inscription_id
      /\ next_number' = t.next_number
      /\ operations' = t.operations

(* The offset in the queue of the coinbase of what tx leaves to it.        *)
Refloated(tx, f) == [f EXCEPT !.offset = reward + @ - Total(tx.outputs)]

LostSatPointWhole(tx, f) ==  \* a mutant: forgets what the outputs took
  [outpoint |-> NullOutPoint, offset |-> lost_sats + f.offset]

LostSatPoint(tx, f) ==
  [outpoint |-> NullOutPoint,
   offset |-> lost_sats + f.offset - Total(tx.outputs)]

(* index_transaction_inscriptions of a transaction and of a coinbase.  A   *)
(* coinbase that leaves inscriptions puts them on the null outpoint.       *)
IndexInscriptions(tx, ranges) ==
  LET onInputs == OldFlotsam(tx)
      parsed == Parsed(tx, onInputs)
      all == onInputs \cup NewFlotsam(tx, parsed)
      landing == Landing(tx, all)
  IN  /\ MoveValues(tx)
      /\ MoveChains(tx, parsed)
      /\ Locate(landing, [f \in landing |-> OutputAt(tx, f.offset)], ranges)
      /\ flotsam' = flotsam \cup {Refloated(tx, f) : f \in Floating(tx, all)}
      /\ reward' = reward + Total(InputValues(tx)) - Total(tx.outputs)

IndexCoinbaseInscriptions(tx, ranges) ==
  /\ MoveValues(tx)
  /\ Locate(flotsam,
            [f \in flotsam |->
               IF f.offset < Total(tx.outputs) THEN OutputAt(tx, f.offset)
               ELSE LostSatPoint(tx, f)],
            ranges)
  /\ flotsam' = {}
  /\ reward' = 0
  /\ UNCHANGED chains

-----------------------------------------------------------------------------
(* The chain.  A transaction spends different outputs and pays no more     *)
(* than they hold, a coinbase no more than the subsidy and the fees.       *)
InputLists ==
  {ins \in UNION {[1 .. n -> Spendable] : n \in 1 .. MaxInputs} : IsInjective(ins)}

Spends ==
  {[txid |-> next_txid, inputs |-> ins, outputs |-> outs, script |-> s] :
     ins \in InputLists, outs \in SpendOutputs, s \in Script}

InputTotal(tx) == Total([i \in DOMAIN tx.inputs |-> unspent[tx.inputs[i]]])

Valid(tx) ==
  /\ Total(tx.outputs) <= InputTotal(tx)
  /\ Valueless \/ InputTotal(tx) > 0

Extend(tx) ==
  /\ unspent' = With(Without(unspent, ToSet(tx.inputs)),
                     [o \in ToSet(OutPointsOf(tx)) |-> tx.outputs[o.vout + 1]])
  /\ next_txid' = next_txid + 1

-----------------------------------------------------------------------------
Init ==
  /\ options \in Options
  /\ height = 0 /\ in_block = FALSE /\ stopped = FALSE
  /\ SatsInit(options.sats) /\ lost_sats = 0
  /\ unspent = << >> /\ next_txid = 1 /\ claimable = 0
  /\ value_cache = << >> /\ outpoint_to_value = << >>
  /\ address_to_outpoint = {} /\ transaction_id_to_transaction = {}
  /\ satpoint_to_id = << >> /\ id_to_satpoint = << >>
  /\ number_to_id = << >> /\ id_to_entry = << >>
  /\ sat_to_inscription_id = << >>
  /\ next_number = 0 /\ operations = << >>
  /\ partial_txid_to_txids = << >> /\ txid_to_tx = << >> /\ id_to_txids = << >>
  /\ flotsam = {} /\ reward = 0

(* The number after the last row of its table.                             *)
NextNumber == Max({n + 1 : n \in DOMAIN number_to_id} \cup {0})

(* index_block begins, and makes an InscriptionUpdater.                    *)
BeginBlock ==
  /\ ~stopped /\ ~in_block /\ height < MaxHeight
  /\ in_block' = TRUE
  /\ claimable' = Subsidy(height)
  /\ reward' = Subsidy(height)
  /\ next_number' = NextNumber
  /\ operations' = << >>
  /\ IF options.sats THEN StartSats ELSE UNCHANGED sats
  /\ UNCHANGED <<options, height, stopped, lost_sats, unspent, next_txid, values,
                 satpoint_to_id, id_to_satpoint, number_to_id, id_to_entry,
                 sat_to_inscription_id, chains, flotsam>>

(* A transaction leaves a txid for the coinbase.                           *)
More == ~stopped /\ in_block /\ next_txid + 1 \in Txid

IndexTransaction(tx) ==
  /\ Valid(tx)
  /\ Extend(tx)
  /\ claimable' = claimable + InputTotal(tx) - Total(tx.outputs)
  /\ IF index_inscriptions
     THEN IndexInscriptions(tx, IF options.sats THEN InputRanges(tx) ELSE << >>)
     ELSE UNCHANGED <<values, located, chains, flotsam, reward>>
  /\ IF options.sats THEN IndexSats(tx) ELSE UNCHANGED sats
  /\ UNCHANGED <<options, height, in_block, stopped, lost_sats>>

CoinbaseOf(outs) ==
  [txid |-> next_txid, inputs |-> <<NullOutPoint>>, outputs |-> outs]

Claims(outs) ==
  ~stopped /\ in_block /\ next_txid \in Txid /\ Total(outs) <= claimable

IndexCoinbase(outs) ==
  LET tx == CoinbaseOf(outs)
  IN  /\ Claims(outs)
      /\ Extend(tx) /\ claimable' = 0
      /\ in_block' = FALSE
      /\ height' = height + 1
      /\ IF index_inscriptions
         THEN IndexCoinbaseInscriptions(tx, coinbase_inputs)
         ELSE /\ reward' = 0
              /\ UNCHANGED <<values, located, chains, flotsam>>
      /\ CASE options.sats -> IndexCoinbaseSats(tx)
           [] ~options.sats /\ index_inscriptions ->
                /\ lost_sats' = lost_sats + reward - Total(outs)
                /\ UNCHANGED sats
           [] OTHER -> UNCHANGED <<sats, lost_sats>>
      /\ UNCHANGED <<options, stopped>>

(* The ranges of its inputs do not fill the outputs of a valid transaction: *)
(* index_block fails, the write transaction is dropped, and each retry from *)
(* the last commit on, an earlier state of this behavior, ends here again. *)
Stop(tx) ==
  /\ options.sats /\ ~Enough(tx, InputRanges(tx))
  /\ stopped' = TRUE
  /\ UNCHANGED <<options, height, in_block, sats, lost_sats, chain, values,
                 located, chains, flotsam, reward>>

(* Updater::commit moves the caches to the tables.                         *)
Commit ==
  /\ ~stopped /\ ~in_block /\ height \in CommitHeights
  /\ value_cache # << >> \/ range_cache # << >>
  /\ IF options.sats THEN FlushSats ELSE UNCHANGED sats
  /\ outpoint_to_value' = With(outpoint_to_value, value_cache)
  /\ address_to_outpoint' = address_to_outpoint \cup DOMAIN value_cache
  /\ value_cache' = << >>
  /\ UNCHANGED <<options, height, in_block, stopped, lost_sats, chain,
                 transaction_id_to_transaction, located, chains, flotsam, reward>>

(* Below FirstInscriptionHeight an index without sats fetches headers only *)
(* (updater.rs:212): the chain moves on and the tables do not.             *)
Next ==
  \/ BeginBlock
  \/ More /\ \E tx \in Spends : IndexTransaction(tx)
  \/ More /\ \E tx \in Spends : Valid(tx) /\ Stop(tx)
  \/ \E outs \in CoinbaseOutputs[height] : IndexCoinbase(outs)
  \/ \E outs \in CoinbaseOutputs[height] : Claims(outs) /\ Stop(CoinbaseOf(outs))
  \/ Commit

Spec == Init /\ [][Next]_vars

-----------------------------------------------------------------------------
Disjoint(c, d) == ToSet(c) \cap ToSet(d) = {}

(* A transaction is in one chain at most: a partial one, kept under its    *)
(* last transaction, or that of the inscription named by its first.  Each  *)
(* transaction of a partial chain is stored, so that the lookup of         *)
(* index_transaction_inscriptions cannot panic.                            *)
ChainsAreDisjoint ==
  LET partial == partial_txid_to_txids
  IN  /\ \A k, l \in DOMAIN partial : k # l => Disjoint(partial[k], partial[l])
      /\ \A i, j \in DOMAIN id_to_txids :
           i # j => Disjoint(id_to_txids[i], id_to_txids[j])
      /\ \A k \in DOMAIN partial, i \in DOMAIN id_to_txids :
           Disjoint(partial[k], id_to_txids[i])
      /\ \A k \in DOMAIN partial :
           Last(partial[k]) = k /\ ToSet(partial[k]) \subseteq DOMAIN txid_to_tx
      /\ \A i \in DOMAIN id_to_txids : Head(id_to_txids[i]) = i

(* The values of inputs come from rows that are true and not yet spent;    *)
(* with --index-transactions the addresses list exactly those in the table.*)
ValuesAgree ==
  /\ (DOMAIN value_cache) \cap (DOMAIN outpoint_to_value) = {}
  /\ \A o \in DOMAIN value_cache :
       o \in DOMAIN unspent /\ value_cache[o] = unspent[o]
  /\ \A o \in DOMAIN outpoint_to_value :
       o \in DOMAIN unspent /\ outpoint_to_value[o] = unspent[o]
  /\ options.transactions => address_to_outpoint = DOMAIN outpoint_to_value

-----------------------------------------------------------------------------
(* The inscriptions on their way to the coinbase.                          *)
FlyingIds == {f.id : f \in flotsam}

(* A satpoint among the lost sats.  With --index-sats it counts the sats   *)
(* of the ranges that were lost, and these are not what they were when     *)
(* they were stored: nothing is said of such satpoints.                    *)
Uncounted(sp) == options.sats /\ IsNull(sp.outpoint)

PlacesAreInverse ==
  /\ \A sp \in DOMAIN satpoint_to_id :
       /\ satpoint_to_id[sp] \in DOMAIN id_to_satpoint
       /\ id_to_satpoint[satpoint_to_id[sp]] = sp
  /\ \A id \in DOMAIN id_to_satpoint :
       /\ id_to_satpoint[id] \in DOMAIN satpoint_to_id
       /\ satpoint_to_id[id_to_satpoint[id]] = id \/ Uncounted(id_to_satpoint[id])

NumbersAreGapless ==
  LET fresh == {f.id : f \in {g \in flotsam : g.origin = "New"}}
  IN  /\ DOMAIN number_to_id = 0 .. next_number - 1
      /\ \A n \in DOMAIN number_to_id :
           /\ number_to_id[n] \in DOMAIN id_to_entry
           /\ id_to_entry[number_to_id[n]].number = n
      /\ DOMAIN id_to_entry = DOMAIN id_to_satpoint
      /\ DOMAIN id_to_txids = DOMAIN id_to_entry \cup fresh
      /\ DOMAIN id_to_entry \cap fresh = {}
      /\ Cardinality(DOMAIN id_to_entry) = next_number

(* The tables of inscriptions say the same.  Whatever lands where, a row   *)
(* of SATPOINT_TO_INSCRIPTION_ID is not overwritten or removed by another  *)
(* inscription's move, but for one of a lost inscription with --index-sats. *)
(* Numbers are given in order, once, and each inscription has one; those   *)
(* on their way to the coinbase get theirs there.                          *)
TablesAgree == PlacesAreInverse /\ NumbersAreGapless

(* An inscription is within an output that is unspent, or within the lost  *)
(* sats (but for Uncounted), unless it is on its way to the coinbase,      *)
(* within what that may claim.                                             *)
InscriptionsAreOnUnspent ==
  /\ \A id \in (DOMAIN id_to_satpoint) \ FlyingIds :
       LET sp == id_to_satpoint[id]
       IN  IF IsNull(sp.outpoint) THEN Uncounted(sp) \/ sp.offset < lost_sats
           ELSE sp.outpoint \in DOMAIN unspent /\ sp.offset < unspent[sp.outpoint]
  /\ \A f \in flotsam : f.offset < claimable

(* An inscription moves only in a step of the block that spends its output,*)
(* and its number and sat never change.                                    *)
MovesOnlyWithItsCoin ==
  [][\A id \in DOMAIN id_to_satpoint :
       /\ id_to_entry'[id] = id_to_entry[id]
       /\ id_to_satpoint'[id] # id_to_satpoint[id] =>
            id_to_satpoint[id].outpoint \notin DOMAIN unspent']_vars

(* What CRC20 is told of a block, each operation with its transaction; and *)
(* what it is told of the same inscription after m.                        *)
Told(ops) ==
  UNION {{[txid |-> t, op |-> ops[t][k]] : k \in DOMAIN ops[t]} : t \in DOMAIN ops}

After(m) == {u \in Told(operations) : u.op.id = m.op.id /\ u.txid > m.txid}

(* What CRC20 is told of an inscription in a block, transaction by         *)
(* transaction, is a path that ends where the inscription is: of a         *)
(* transaction it is told once, each move begins where the one before      *)
(* ended, and only the first of them can be that of a new inscription.     *)
OperationsArePaths ==
  /\ \A t \in DOMAIN operations : \A k, l \in DOMAIN operations[t] :
       k # l => operations[t][k].id # operations[t][l].id
  /\ \A m \in Told(operations) :
       IF After(m) = {} THEN m.op.to = id_to_satpoint[m.op.id]
       ELSE \E u \in After(m) :
              /\ \A v \in After(m) : u.txid <= v.txid
              /\ u.op.old = m.op.to /\ ~u.op.new

-----------------------------------------------------------------------------
(* With --index-sats each unspent output has one row of ranges, in the     *)
(* cache of the batch or in the table, and no spent one has: an input's    *)
(* ranges are found, whatever was flushed between its output and it        *)
(* ("Could not find outpoint" of updater.rs:472 is not met).               *)
OutputsHaveRanges ==
  options.sats =>
    /\ (DOMAIN range_cache) \cap (DOMAIN outpoint_to_sat_ranges) = {}
    /\ (DOMAIN range_cache) \cup (DOMAIN outpoint_to_sat_ranges)
         = (DOMAIN unspent) \cup {NullOutPoint}

(* The place of subsidy and fees until the coinbase.                       *)
QueuePlace == [txid |-> 0, vout |-> 1]

(* Where the tables say a sat is: a place and an offset, if there is one.  *)
PlacesIn(table, s) ==
  UNION {{[outpoint |-> o, offset |-> k] : k \in OffsetsOf(table[o], s)}
           : o \in DOMAIN table}

Places(s) ==
  PlacesIn(range_cache, s) \cup PlacesIn(outpoint_to_sat_ranges, s)
    \cup {[outpoint |-> QueuePlace, offset |-> k] :
            k \in OffsetsOf(coinbase_inputs, s)}

Mined == StartingSat(IF in_block THEN height + 1 ELSE height)

PlaceOf(s) ==
  LET places == Places(s)
  IN  IF Cardinality(places) = 1 THEN CHOOSE p \in places : TRUE
      ELSE [outpoint |-> QueuePlace, offset |-> -1]

-----------------------------------------------------------------------------
(* The sizes of places are the chain's, and not the index's.               *)
SizeOf ==
  [p \in DOMAIN unspent \cup {QueuePlace, NullOutPoint} |->
     CASE p = QueuePlace -> claimable
       [] p = NullOutPoint -> lost_sats
       [] OTHER -> unspent[p]]

Flow == INSTANCE SatFlow WITH
  Queue <- QueuePlace, Lost <- NullOutPoint,
  mined <- Mined, at <- [s \in 0 .. Mined - 1 |-> PlaceOf(s)], size <- SizeOf

(* "Satoshis are ... transferred from transaction inputs to transaction    *)
(* outputs first-in-first-out" (docs/src/overview.md:7).  With             *)
(* --index-sats the ranges of the cache, the table and the queue would put *)
(* every sat there; they do not, as store keeps a part of a range only.    *)
SatsFlow ==
  /\ options.sats => Flow!FlowInit
  /\ [][options.sats => Flow!FlowNext]_(Flow!flow)
===============================================================================
