------------------------------- MODULE SatIndex -------------------------------
(***************************************************************************)
(* The sat tables of the updater (updater.rs): which ranges of sats each   *)
(* unspent output holds, where the rare ones are, and what was lost.       *)
(* A transaction is [txid, inputs, outputs, script]; its outputs are their *)
(* values.  The inscription updater is called in the middle of each of     *)
(* these steps and is composed with them in InscriptionIndex.              *)
(***************************************************************************)
EXTENDS Ordinals

CONSTANT Txid       \* 1, 2, ...: transactions, in the order of the chain

VARIABLES
  height,                   \* Updater::height: the next block, or this one
  coinbase_inputs,          \* ranges of this block's subsidy and fees
  range_cache,              \* Updater::range_cache
  outpoint_to_sat_ranges,   \* OUTPOINT_TO_SAT_RANGES
  sat_to_satpoint,          \* SAT_TO_SATPOINT
  lost_sats                 \* Statistic::LostSats

sats == <<coinbase_inputs, range_cache, outpoint_to_sat_ranges,
          sat_to_satpoint>>

OutPoint == [txid : Txid, vout : Nat]
NullOutPoint == [txid |-> 0, vout |-> 0]

OutPointsOf(tx) ==
  [j \in DOMAIN tx.outputs |-> [txid |-> tx.txid, vout |-> j - 1]]

IsNull(o) == o = NullOutPoint
IsCoinbase(tx) == IsNull(tx.inputs[1])

(* redb's remove and insert, of several rows and of one.                   *)
Without(f, keys) == [k \in (DOMAIN f) \ keys |-> f[k]]
With(f, rows) ==
  [k \in (DOMAIN f) \cup (DOMAIN rows) |->
     IF k \in DOMAIN rows THEN rows[k] ELSE f[k]]
WithRow(f, key, value) == With(f, [k \in {key} |-> value])

SatsInit(index_sats) ==
  /\ coinbase_inputs = << >>
  /\ range_cache = << >>
  /\ outpoint_to_sat_ranges =
       IF index_sats THEN [o \in {NullOutPoint} |-> << >>] ELSE << >>
  /\ sat_to_satpoint = << >>

-----------------------------------------------------------------------------
(* The ranges of the inputs of a transaction, in order, from the cache if  *)
(* they are there and else from the table.                                 *)
RangesOf(o) ==
  IF o \in DOMAIN range_cache THEN range_cache[o]
  ELSE outpoint_to_sat_ranges[o]

InputRanges(tx) ==
  IF IsCoinbase(tx) THEN coinbase_inputs
  ELSE FlattenSeq([i \in DOMAIN tx.inputs |-> RangesOf(tx.inputs[i])])

(* Pieces of sats laid out at an outpoint from an offset on: the satpoints *)
(* of those that begin with an uncommon sat.  Of two that begin with one,  *)
(* the row of the later one is kept.                                       *)
RareIn(pieces, outpoint, offset) ==
  [s \in {pieces[i][1] : i \in {j \in DOMAIN pieces : ~IsCommon(pieces[j][1])}} |->
     [outpoint |-> outpoint,
      offset |-> offset + StartOf(Sizes(pieces),
                            Max({i \in DOMAIN pieces : pieces[i][1] = s}))]]

(* index_transaction_sats: the outputs of tx take the first of the ranges. *)
(* When there are none left the rest of an output is an error.             *)
Enough(tx, ranges) == Total(tx.outputs) <= RangesTotal(ranges)

TakenBy(tx, ranges, j) ==
  Slice(ranges, StartOf(tx.outputs, j),
                StartOf(tx.outputs, j) + tx.outputs[j])

Left(tx, ranges) == Slice(ranges, Total(tx.outputs), RangesTotal(ranges) + 1)

(* Fees queue up behind the subsidy.                                       *)
Queued(left) == coinbase_inputs \o left

CacheFilled(tx, ranges) ==  \* a mutant: no row for an output of no sats
  LET outs == {o \in ToSet(OutPointsOf(tx)) : tx.outputs[o.vout + 1] > 0}
  IN  range_cache' =
        With(Without(range_cache, ToSet(tx.inputs)),
             [o \in outs |-> Stored(TakenBy(tx, ranges, o.vout + 1))])

CacheOutputs(tx, ranges) ==
  LET outs == OutPointsOf(tx)
  IN  range_cache' =
        With(Without(range_cache, ToSet(tx.inputs)),
             [o \in ToSet(outs) |-> Stored(TakenBy(tx, ranges, o.vout + 1))])

RareOutputs(tx, ranges) ==
  LET outs == OutPointsOf(tx)
      rare[j \in 0 .. Len(outs)] ==
        IF j = 0 THEN sat_to_satpoint
        ELSE With(rare[j - 1], RareIn(TakenBy(tx, ranges, j), outs[j], 0))
  IN  rare[Len(outs)]

(* The subsidy comes first in the queue of the coinbase.                   *)
StartSats ==
  /\ coinbase_inputs' =
       <<<<StartingSat(height), StartingSat(height) + Subsidy(height)>>>>
  /\ UNCHANGED <<range_cache, outpoint_to_sat_ranges, sat_to_satpoint>>

(* The iteration of a block's loop for a transaction that spends outputs.  *)
IndexSats(tx) ==
  LET ranges == InputRanges(tx)
  IN  /\ Enough(tx, ranges)
      /\ CacheOutputs(tx, ranges)
      /\ sat_to_satpoint' = RareOutputs(tx, ranges)
      /\ coinbase_inputs' = Queued(Left(tx, ranges))
      /\ outpoint_to_sat_ranges' =
           Without(outpoint_to_sat_ranges,
                   ToSet(tx.inputs) \ DOMAIN range_cache)

(* The coinbase comes last; what it leaves is appended to the ranges of    *)
(* the null outpoint.                                                      *)
IndexCoinbaseSats(tx) ==
  LET left == Left(tx, coinbase_inputs)
      lost == IF NullOutPoint \in DOMAIN outpoint_to_sat_ranges
              THEN outpoint_to_sat_ranges[NullOutPoint] ELSE << >>
  IN  /\ Enough(tx, coinbase_inputs)
      /\ CacheOutputs(tx, coinbase_inputs)
      /\ sat_to_satpoint' =
           With(RareOutputs(tx, coinbase_inputs),
                RareIn(left, NullOutPoint, lost_sats))
      /\ outpoint_to_sat_ranges' =
           IF left = << >> THEN outpoint_to_sat_ranges
           ELSE WithRow(outpoint_to_sat_ranges, NullOutPoint, lost \o Stored(left))
      /\ lost_sats' = lost_sats + RangesTotal(left)
      /\ coinbase_inputs' = << >>

(* Updater::commit drains the cache into the table.                        *)
FlushSats ==
  /\ outpoint_to_sat_ranges' = With(outpoint_to_sat_ranges, range_cache)
  /\ range_cache' = << >>
  /\ UNCHANGED <<coinbase_inputs, sat_to_satpoint>>
===============================================================================
