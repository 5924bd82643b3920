---------------------------- MODULE IndexQueries ----------------------------
(***************************************************************************)
(* The queries of Index (index.rs), as operators on db, the tables as one  *)
(* read transaction of redb sees them: a record with a partial function    *)
(* per table, whose keys are sorted.  An Option is a set of at most one    *)
(* value.  An outpoint is a number in the order of its key, Lost the       *)
(* outpoint OutPoint::null(); a satpoint is <<outpoint, offset>>.          *)
(* A query that opens a second read transaction is two operators here;     *)
(* block_count(), which many compare first, is taken from the same one: it *)
(* only tells whether the first height of cunes or inscriptions is passed. *)
(***************************************************************************)
EXTENDS Naturals, FiniteSets, Sequences, SequencesExt

CONSTANTS
  FirstCuneHeight,         \* Index::first_cune_height
  FirstInscriptionHeight,  \* Index::first_inscription_height
  IndexCunes,              \* --index-cunes
  IndexSats,               \* --index-sats
  IndexTransactions        \* --index-transactions

Lost == 0

Row(table, key) == IF key \in DOMAIN table THEN {table[key]} ELSE {}

Ascending(S) == SetToSortSeq(S, <)

(* HEIGHT_TO_BLOCK_HASH holds a hash for each height from 0.               *)
BlockCount(db) == Cardinality(DOMAIN db.hashes)

Height(db) == {h \in DOMAIN db.hashes : h + 1 = BlockCount(db)}

BlockHash(db, height) == Row(db.hashes, height)

(* blocks: the last blocks of the index, newest first.                     *)
Blocks(db, take) ==
  LET count == BlockCount(db)
      n == IF take < count THEN take ELSE count
  IN  [i \in 1 .. n |-> <<count - i, db.hashes[count - i]>>]

-----------------------------------------------------------------------------
(* Cunes.  An entry of CUNE_ID_TO_CUNE_ENTRY is the name of the cune.      *)
CunesIndexed(db) == BlockCount(db) >= FirstCuneHeight /\ IndexCunes

GetCuneById(db, id) == Row(db.entries, id)

CuneByName(db, name) == {id \in Row(db.cuneIds, name) : id \in DOMAIN db.entries}

Cunes(db) == DOMAIN db.entries

(* The sequence of <<cune, amount>> of an outpoint; the entry of an id is  *)
(* unwrapped, in the same transaction.                                     *)
BalancesForOutpoint(db, o) ==
  IF CunesIndexed(db) /\ o \in DOMAIN db.cuneBalances
  THEN [i \in DOMAIN db.cuneBalances[o] |->
         LET pile == db.cuneBalances[o][i] IN <<db.entries[pile[1]], pile[2]>>]
  ELSE << >>

(* get_cune_balances, whose ids get_cune_balance_map looks up in a second  *)
(* transaction and unwraps.                                                *)
CuneBalances(db) ==
  IF CunesIndexed(db)
  THEN UNION {{<<o, db.cuneBalances[o][i][1]>> : i \in DOMAIN db.cuneBalances[o]}
                : o \in DOMAIN db.cuneBalances}
  ELSE {}

CuneByInscription(db, inscription) ==
  {db.entries[db.cuneIds[name]] : name \in Row(db.cuneOf, inscription)}

-----------------------------------------------------------------------------
(* Outputs, transactions and sats.                                         *)
AccountOutputs(db, address) == Ascending(UNION Row(db.addresses, address))

(* The transaction of an outpoint is in the table, or the node is asked,   *)
(* and any error of the node is None; found ranges over what can come of   *)
(* it.  No transaction has the txid of Lost.                               *)
GetTransaction(db, o) ==
  IF o = Lost THEN {FALSE}
  ELSE IF IndexTransactions /\ o \in db.transactions THEN {TRUE}
  ELSE BOOLEAN

EntryBytes == 11
ChunkBytes == 24

(* list takes the ranges apart in chunks of 24 bytes, although an entry    *)
(* has 11: a chunk never has the length of an entry, and the conversion    *)
(* of the first is unwrapped.  Without a chunk the list is empty.          *)
ListedChunks(db, o) == (Len(db.ranges[o]) * EntryBytes) \div ChunkBytes

ListPanics(db, o) == o \in DOMAIN db.ranges /\ ListedChunks(db, o) > 0

(* rare_sat_satpoints: all of SAT_TO_SATPOINT.                             *)
RareSatSatpoints(db) == {<<sat, db.satpointOfSat[sat]>> : sat \in DOMAIN db.satpointOfSat}

RareSatSatpoint(db, sat) == Row(db.satpointOfSat, sat)

InscriptionBySat(db, sat) == Row(db.inscriptionOfSat, sat)

-----------------------------------------------------------------------------
(* Inscriptions.                                                           *)
IdByNumber(db, n) == Row(db.numbers, n)

GetEntry(db, id) == Row(db.numberOf, id)

SatpointById(db, id) == Row(db.satpoints, id)

Exists(db, id) == id \in DOMAIN db.satpoints

(* The second transaction of get_inscription_by_id: the transactions of    *)
(* the inscription, which parse to a complete one.                         *)
HasBody(db, id) == id \in db.bodies

(* Inscriptions on an output, in the order of their keys: the bytes of an  *)
(* offset are little-endian, so this is the order of offsets below 256.    *)
OnOutput(db, o) ==
  SetToSortSeq({id \in DOMAIN db.satpoints : db.satpoints[id][1] = o},
               LAMBDA i, j : db.satpoints[i][2] < db.satpoints[j][2])

LatestNumber(db) == {n \in DOMAIN db.numbers : n + 1 = Cardinality(DOMAIN db.numbers)}

(* The last n inscriptions: get_homepage_inscriptions has their ids,       *)
(* get_feed_inscriptions their numbers too.                                *)
FeedInscriptions(db, n) ==
  LET numbers == Reverse(Ascending(DOMAIN db.numbers))
      last == SubSeq(numbers, 1, IF n < Len(numbers) THEN n ELSE Len(numbers))
  IN  [i \in DOMAIN last |-> <<last[i], db.numbers[last[i]]>>]

Newest(db, n) ==
  LET rows == FeedInscriptions(db, n) IN [i \in DOMAIN rows |-> rows[i][2]]

(* inscription_count: the inscriptions whose id has the txid.              *)
InscriptionCount(db, ofTransaction) ==
  Cardinality({id \in DOMAIN db.satpoints : id \in ofTransaction})

(* The n inscriptions up to number from, newest first, and the numbers of  *)
(* the pages before and after.                                             *)
LatestPage(db, n, from) ==
  LET latest == CHOOSE l \in LatestNumber(db) : TRUE
      start == IF from = {} THEN latest ELSE CHOOSE f \in from : TRUE
      Newer(m) == {k \in DOMAIN db.numbers : m < k /\ k <= start}
  IN  IF LatestNumber(db) = {} THEN [page |-> {}, prev |-> {}, next |-> {}]
      ELSE [page |-> {m \in DOMAIN db.numbers : m <= start /\ Cardinality(Newer(m)) < n},
            prev |-> IF start >= n THEN {start - n} \cap DOMAIN db.numbers ELSE {},
            next |-> IF start >= latest THEN {}
                     ELSE {IF start + n < latest THEN start + n ELSE latest}]

-----------------------------------------------------------------------------
(* CRC20.                                                                  *)
Crc20Indexed(db) == BlockCount(db) >= FirstInscriptionHeight

TokenInfo(db, tick) == IF Crc20Indexed(db) THEN {tick} \cap db.tokens ELSE {}

TokensInfo(db) == IF Crc20Indexed(db) THEN db.tokens ELSE {}

TokenHolder(db, tick) ==
  IF Crc20Indexed(db) THEN UNION Row(db.holders, tick) ELSE {}

Crc20Balance(db, script, tick) ==
  IF Crc20Indexed(db) THEN Row(db.balances, <<script, tick>>) ELSE {}

Crc20Balances(db, script) ==
  IF Crc20Indexed(db)
  THEN {[tick |-> k[2], balance |-> db.balances[k]]
          : k \in {l \in DOMAIN db.balances : l[1] = script}}
  ELSE {}

(* The ids among ids whose transfer is logged for the script.              *)
TransferableById(db, script, ids) ==
  IF Crc20Indexed(db) THEN {id \in ids : <<script, id>> \in db.transferable} ELSE {}
=============================================================================
