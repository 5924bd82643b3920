------------------------------ MODULE StorageKeys ------------------------------
(***************************************************************************)
(* The keys of the database: how ids, outpoints, satpoints, sat ranges     *)
(* (src/src/index/entry.rs) and the scripts, ticks and inscriptions of     *)
(* CRC20 (src/src/crc20/tick.rs, script_key.rs) become bytes and text, and *)
(* the scans over ranges of such keys (index.rs, crc20_updater.rs).  A key *)
(* is a sequence of numbers, its bytes or the codes of its characters; a   *)
(* table is a function on its keys, which redb keeps in the order of their *)
(* bytes.  The widths are constants.  An Option is a set of at most one.   *)
(***************************************************************************)
EXTENDS Limits, FiniteSets, Sequences, SequencesExt, Bitwise

CONSTANTS
  IndexBytes,       \* bytes of an index or vout, 4
  OffsetBytes,      \* bytes of an offset, 8
  TickBytes,        \* TICK_BYTE_COUNT, 4
  BaseBits,         \* bits of the start of a sat range, 51
  RangeBytes,       \* bytes of a sat range, 11
  Addresses,        \* the scripts that have an address; others have a hash
  Lowercase(_)      \* str::to_lowercase, of the bytes of a tick

Bytes == 0 .. 255

LittleEndian(n, width) == [i \in 1 .. width |-> (n \div 256 ^ (i - 1)) % 256]
BigEndian(n, width) == Reverse(LittleEndian(n, width))
OfLittleEndian(bytes) == FoldRight(LAMBDA b, n : b + 256 * n, bytes, 0)

(* The order of keys: at the first difference, or the shorter one first.   *)
Precedes(a, b) ==
  \E n \in DOMAIN b :
    /\ \A i \in 1 .. n - 1 : i \in DOMAIN a /\ a[i] = b[i]
    /\ n \in DOMAIN a => a[n] < b[n]

KeysFrom(table, from, to) ==
  {k \in DOMAIN table : ~Precedes(k, from) /\ Precedes(k, to)}

InOrder(keys) == SortSeq(FoldSet(LAMBDA k, s : Append(s, k), << >>, keys), Precedes)

Without(table, key) == [k \in DOMAIN table \ {key} |-> table[k]]
With(table, key, row) == [k \in DOMAIN table \cup {key} |->
                            IF k = key THEN row ELSE table[k]]
Get(table, key) == {table[k] : k \in {key} \cap DOMAIN table}

-----------------------------------------------------------------------------
(* Ids, outpoints and satpoints: index in big endian in the first, vout    *)
(* and offset in little endian in the others.                              *)
StoreInscriptionId(id) == id.txid \o BigEndian(id.index, IndexBytes)

LoadInscriptionId(key) ==
  LET txidBytes == Len(key) - IndexBytes
  IN  [txid |-> SubSeq(key, 1, txidBytes),
       index |-> OfLittleEndian(Reverse(SubSeq(key, txidBytes + 1, Len(key))))]

StoreOutPoint(o) == o.txid \o LittleEndian(o.vout, IndexBytes)

LoadOutPoint(key) ==
  LET txidBytes == Len(key) - IndexBytes
  IN  [txid |-> SubSeq(key, 1, txidBytes),
       vout |-> OfLittleEndian(SubSeq(key, txidBytes + 1, Len(key)))]

StoreSatPoint(p) == StoreOutPoint(p.outpoint) \o LittleEndian(p.offset, OffsetBytes)

LoadSatPoint(key) ==
  LET outpointBytes == Len(key) - OffsetBytes
  IN  [outpoint |-> LoadOutPoint(SubSeq(key, 1, outpointBytes)),
       offset |-> OfLittleEndian(SubSeq(key, outpointBytes + 1, Len(key)))]

(* A sat range is its start and size in one number, of which the lowest    *)
(* bytes are kept.                                                         *)
StoreSatRange(range) ==
  LittleEndian(range[1] | ((range[2] - range[1]) * 2 ^ BaseBits), RangeBytes)

LoadSatRange(bytes) ==
  LET whole == BaseBits \div 8
      base == OfLittleEndian(SubSeq(bytes, 1, whole + 1)) % 2 ^ BaseBits
      delta == OfLittleEndian(SubSeq(bytes, whole + 1, RangeBytes)) \div 2 ^ (BaseBits % 8)
  IN  <<base, base + delta>>

(* The symbol of a cune entry, u32::MAX for none; the other fields are     *)
(* stored as they are.                                                     *)
StoreSymbol(symbol) == IF symbol = {} THEN U32Max ELSE CHOOSE s \in symbol : TRUE
LoadSymbol(n) == {n} \cap Chars

(* An etching's txid is stored as its two halves, each a number.           *)
StoreEtching(txid) ==
  <<OfLittleEndian(SubSeq(txid, 1, Len(txid) \div 2)),
    OfLittleEndian(SubSeq(txid, Len(txid) \div 2 + 1, Len(txid)))>>
LoadEtching(halves, width) ==
  LittleEndian(halves[1], width \div 2) \o LittleEndian(halves[2], width \div 2)

(* Index::inscription_count: the last index is not counted.                *)
InscriptionCount(satpoints, txid) ==
  LET Id(index) == StoreInscriptionId([txid |-> txid, index |-> index])
  IN  Cardinality(KeysFrom(satpoints, Id(0), Id(256 ^ IndexBytes - 1)))

(* Index::inscriptions_on_output, in the order of the table.               *)
InscriptionsOnOutput(ids, outpoint) ==
  LET Key(offset) == StoreSatPoint([outpoint |-> outpoint, offset |-> offset])
      last == Key(256 ^ OffsetBytes - 1)
      keys == InOrder(KeysFrom(ids, Key(0), last) \cup ({last} \cap DOMAIN ids))
  IN  [i \in DOMAIN keys |-> <<LoadSatPoint(keys[i]), LoadInscriptionId(ids[keys[i]])>>]

-----------------------------------------------------------------------------
(* CRC20.  A script is shown as its address, or as its hash.  A tick is a  *)
(* sequence of TickBytes bytes.                                            *)
Underscore == 95
BehindHex == 103    \* "g"

HexDigit(d) == IF d < 10 THEN 48 + d ELSE 87 + d
Hex(bytes) ==
  FlattenSeq([i \in DOMAIN bytes |->
    <<HexDigit(bytes[i] \div 16), HexDigit(bytes[i] % 16)>>])

HexValue(c) ==
  {c - 48 : x \in {c} \cap 48 .. 57} \cup {c - 87 : x \in {c} \cap 97 .. 102}
    \cup {c - 55 : x \in {c} \cap 65 .. 70}
OfHex(text) ==
  IF Len(text) % 2 = 1 \/ \E i \in DOMAIN text : HexValue(text[i]) = {} THEN {}
  ELSE LET Value(i) == CHOOSE v \in HexValue(text[i]) : TRUE
       IN  {[i \in 1 .. Len(text) \div 2 |-> 16 * Value(2 * i - 1) + Value(2 * i)]}

(* A lower-case tick may be longer than the tick: the key has room for     *)
(* four times its bytes.                                                   *)
Repeated(byte) == [i \in 1 .. 4 * TickBytes |-> byte]
TickHex(tick) ==
  LET lower == Lowercase(tick)
  IN  Hex([i \in 1 .. 4 * TickBytes |-> IF i \in DOMAIN lower THEN lower[i] ELSE 0])

Joined(script, text) == script \o <<Underscore>> \o text

ScriptTickKey(script, tick) == Joined(script, TickHex(tick))
MinScriptTickKey(script) == Joined(script, Hex(Repeated(0)))
MaxScriptTickKey(script) == Joined(script, Hex(Repeated(255)))

ScriptTickIdKey(script, tick, id) == Joined(ScriptTickKey(script, tick), id)
MinScriptTickIdKey(script, tick) == ScriptTickKey(script, tick)
(* A version that ends before the last of the ids.                         *)
MaxScriptTickIdKeyHex(script, tick) == Joined(ScriptTickKey(script, tick), <<102>>)

MaxScriptTickIdKey(script, tick) == Joined(ScriptTickKey(script, tick), <<BehindHex>>)

(* ScriptKey::from_str reads addresses, and no hashes.                     *)
ScriptKeyOf(text) == {text} \cap Addresses

DeserializeScriptTickKey(text) ==
  LET at == Min({i \in DOMAIN text : text[i] = Underscore} \cup {Len(text) + 1})
  IN  {[script |-> s, tick |-> SubSeq(lower, 1, TickBytes)] :
         <<s, lower>> \in ScriptKeyOf(SubSeq(text, 1, at - 1))
           \X {l \in OfHex(SubSeq(text, at + 1, Len(text))) : Len(l) = 4 * TickBytes}}

-----------------------------------------------------------------------------
(* The tables of the CRC20 updater.                                        *)
InsertTransferable(log, script, tick, row) ==
  With(log, ScriptTickIdKey(script, tick, row.id), row)

RemoveTransferable(log, script, tick, id) ==
  Without(log, ScriptTickIdKey(script, tick, id))

RowsFrom(table, from, to) ==
  LET keys == InOrder(KeysFrom(table, from, to)) IN [i \in DOMAIN keys |-> table[keys[i]]]

GetTransferable(log, script) ==
  RowsFrom(log, MinScriptTickKey(script), MaxScriptTickKey(script))

GetTransferableByTick(log, script, tick) ==
  RowsFrom(log, MinScriptTickIdKey(script, tick), MaxScriptTickIdKey(script, tick))

(* The first log of the script with the id, whatever its tick.             *)
GetTransferableById(log, script, id) ==
  LET found == SelectSeq(GetTransferable(log, script), LAMBDA row : row.id = id)
  IN  IF found = << >> THEN {} ELSE {found[1]}

UpdateTokenBalance(balances, script, row) ==
  With(balances, ScriptTickKey(script, row.tick), row)

GetBalance(balances, script, tick) == Get(balances, ScriptTickKey(script, tick))

GetBalances(balances, script) ==
  RowsFrom(balances, MinScriptTickKey(script), MaxScriptTickKey(script))

InsertTokenInfo(tokens, tick, row) == With(tokens, TickHex(tick), row)

(* A multimap table is a set of pairs.                                     *)
InsertTokenHolder(holders, script, tick) == holders \cup {<<TickHex(tick), script>>}
RemoveTokenHolder(holders, script, tick) == holders \ {<<TickHex(tick), script>>}

(* Index::get_crc20_token_holder passes over the scripts without address.  *)
GetTokenHolder(holders, tick) ==
  {h[2] : h \in {g \in holders : g[1] = TickHex(tick) /\ ScriptKeyOf(g[2]) # {}}}
=================================================================================
