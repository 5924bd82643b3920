------------------------------- MODULE MCEncodings -------------------------------
(***************************************************************************)
(* What is written is read back: cunestones, names, places, sats, amounts  *)
(* and inscriptions as the text or script that stands for them, and rows   *)
(* of the database under their keys.  Someone writes a note and reads it;  *)
(* between notes, the updaters write and remove rows of four tables, whose *)
(* rows are kept beside them as they are meant.                            *)
(***************************************************************************)
EXTENDS Cunestones, StorageKeys, InscriptionScripts, Notation

CONSTANT MaxRows    \* bound: rows of all tables

VARIABLES
  note,        \* what is written: kind, value, text
  log,         \* CRC20_TRANSFERABLE_INSCRIPTION_LOG, ...
  balances,
  holders,
  idsAt,       \* satpoint to inscription id, and
  satpoints,   \*   inscription id to satpoint
  rows         \* what these tables stand for

vars == <<note, log, balances, holders, idsAt, satpoints, rows>>
tables == <<log, balances, holders, idsAt, satpoints, rows>>

-----------------------------------------------------------------------------
(* The smaller integers and alphabets of the run.                          *)
MCChars == 0 .. 300 \ 200 .. 210
MCNameOfMax == <<2, 17, 23, 15>>     \* the name of 65535
MCEpochHeight == <<0, 4, 7>>
MCEpochSubsidy == <<10, 5, 2>>
MCEpochSat == <<0, 40, 55>>
MCHrpNames == {<<98, 99>>}           \* "bc"

(* "i" with two dots, above and below: three bytes in lower case.          *)
MCLowercase(tick) ==
  IF tick = <<196, 176>> THEN <<105, 204, 135>>
  ELSE [i \in DOMAIN tick |-> Lower(tick[i])]

MCTable ==
  <<[type |-> "text/html;charset=utf-8", media |-> "Iframe", extensions |-> {"html"}],
    [type |-> "text/html;charset=utf8", media |-> "Iframe", extensions |-> {"html"}],
    [type |-> "image/avif", media |-> "Image", extensions |-> {}],
    [type |-> "text/plain", media |-> "Text", extensions |-> {"txt", "md"}]>>
MCNormalised(type) ==
  IF type = "text/html; charset=utf-8" THEN "text/html;charset=utf-8" ELSE type

-----------------------------------------------------------------------------
(* What is written.                                                        *)
Optional(values) == {{}} \cup {{v} : v \in values}

SomeTerms ==
  {[limit |-> l, cap |-> {3}, heightStart |-> {}, heightEnd |-> h,
    offsetStart |-> {}, offsetEnd |-> {}] : l \in Optional({4095}), h \in Optional({200})}

SomeEtchings ==
  {[divisibility |-> d, cune |-> {16512}, spacers |-> s, symbol |-> {36},
    terms |-> t, premine |-> p, turbo |-> turbo]
     : d \in Optional({38}), s \in Optional({5}),
       t \in Optional(SomeTerms), p \in Optional({0, 16511}), turbo \in BOOLEAN}

SomeEdicts ==
  LET e(id, amount, output) == [id |-> id, amount |-> amount, output |-> output]
  IN  {<< >>, <<e(130, 16512, 0)>>,
       <<e(70, 1, 2), e(20, 127, 1), e(70, 128, 2), e(0, 5, 0)>>}

SomeCunestones ==
  {[edicts |-> es, etching |-> et, pointer |-> p, cenotaph |-> c]
     : es \in SomeEdicts, et \in Optional(SomeEtchings),
       p \in Optional({0, 300}), c \in BOOLEAN}

SomeCunes == 0 .. 30 \cup 695 .. 710 \cup 18270 .. 18290 \cup CuneMax - 2 .. CuneMax

SomeTxids == {<<48, 57, 97, 102, 48, 49>>, <<98, 99, 50, 51, 52, 53>>,
              <<98, 99, 49, 51, 52, 53>>}
SomeNumbers == {0, 7, 10, 255, 1000}
SomeSatPoints == [outpoint : [txid : SomeTxids, vout : SomeNumbers], offset : SomeNumbers]
SomeAmounts == {0, 1, 9, 10, 100, 101, 120, 1050, 65535}

(* Outputs and the sats someone looks for in them.                         *)
SomeRanges == {<< >>, <<<<0, 10>>>>, <<<<12, 20>>, <<30, 31>>>>, <<<<40, 45>>, <<3, 5>>>>,
               <<<<21, 30>>, <<20, 21>>>>, <<<<57, 59>>, <<56, 57>>>>,
               <<<<33, 35>>, <<37, 38>>, <<50, 52>>>>}
SomeNeedles == {<< >>, <<3>>, <<30, 12>>, <<4, 20, 29, 11>>, <<58, 4, 58, 40, 0>>}
Overlapping(a, b) ==
  \E i \in DOMAIN a, j \in DOMAIN b : a[i][1] < b[j][2] /\ b[j][1] < a[i][2]

(* Inscriptions, as the sequences of bodies that each transaction pushes.  *)
OfLength(n) == [i \in 1 .. n |-> 100]
SomeChains ==
  {<<<<OfLength(n)>>>> : n \in {0, 1, 75, 76, 255}}
    \cup {<<<<OfLength(1)>>, <<OfLength(2), OfLength(76)>>>>,
          <<<<OfLength(2), << >>>>, <<OfLength(1)>>, <<OfLength(75)>>>>,
          <<[i \in 1 .. 17 |-> OfLength(1)]>>}
SomeDelegates ==
  Optional([txid : {OfLength(TxidBytes)}, index : {0, 1, 256, 65537}])

(* Starts and sizes of ranges: within the bits of each, and beyond them.   *)
SomeStored ==
  {0, 1, 1023, 2047, 2048, 2053, 5000} \X {0, 1, 7, 8, 500, 8191, 8192, 9000, 20000}
-----------------------------------------------------------------------------
Scripts == {<<65>>, <<65, 98>>, <<48>>}     \* "A", "Ab" and the hash "0"
MCAddresses == {<<65>>, <<65, 98>>}
Ticks == {<<65, 98>>, <<97, 98>>, <<97, 99>>, <<196, 176>>}
Ids == {<<48, 105, 48>>, <<102, 105, 49>>}  \* "0i0" and "fi1"
OutPoints == [txid : {<<1>>, <<2>>}, vout : {0, 1}]
Offsets == {0, 1, 256}

Row(script, tick, id) == [id |-> id, tick |-> tick, owner |-> script]
Same(tick, other) == Lowercase(tick) = Lowercase(other)
RowCount ==
  Cardinality(rows.log) + Cardinality(rows.balances)
    + Cardinality(rows.holders) + Cardinality(rows.ids)

Blank == [kind |-> "none", value |-> 0, text |-> 0]
Written(kind, value, text) == [kind |-> kind, value |-> value, text |-> text]

Init ==
  /\ note = Blank
  /\ log = << >> /\ balances = << >> /\ holders = {}
  /\ idsAt = << >> /\ satpoints = << >>
  /\ rows = [log |-> {}, balances |-> {}, holders |-> {}, ids |-> {}]

Writing == note.kind = "none" /\ RowCount = 0 /\ UNCHANGED tables

WriteCunestone ==
  /\ Writing
  /\ \E c \in SomeCunestones :
       note' = Written("cunestone", c,
                 <<<<OtherOp>>, Encipher(c), <<OpReturn, Push(<<1>>)>>, << >>>>)

WriteCune ==
  /\ Writing
  /\ \E n \in SomeCunes, spacers \in SUBSET {1, 2, 4} :
       note' = Written("cune", [cune |-> n, spacers |-> spacers],
                 SpacedCuneText([cune |-> n, spacers |-> spacers]))

(* The tip, above which names of cunes are etched.                         *)
WriteTip ==
  /\ Writing
  /\ \E h \in 0 .. FirstCuneHeight + Halving + 2 :
       note' = Written("tip", h, MinimumAtHeight(h))

WritePlace ==
  /\ Writing
  /\ \E p \in SomeSatPoints : note' = Written("satpoint", p, SatPointText(p))

WriteSat ==
  /\ Writing
  /\ \E s \in 0 .. 60 : note' = Written("sat", s, DecimalSatText(s))

WriteAmount ==
  /\ Writing
  /\ \E n \in SomeAmounts, decimals \in 0 .. 4 :
       note' = Written("amount", [amount |-> n, decimals |-> decimals],
                       FormatBalance(n, decimals))

WriteWallet ==
  /\ Writing
  /\ \E first, second \in SomeRanges, needles \in SomeNeedles :
       LET utxos == {[output |-> 1, ranges |-> first], [output |-> 2, ranges |-> second]}
       IN  /\ ~Overlapping(first, second)
           /\ note' = Written("wallet", [needles |-> needles, utxos |-> utxos],
                              OutputRanges(utxos))

(* The index of a delegate is written without the zeros at its end.        *)
DelegateField(id) ==
  id.txid \o LET bytes == <<id.index % 256, (id.index \div 256) % 256, id.index \div 65536>>
             IN  WithoutTrailing(bytes, 0)
PushInt(n) == IF n \in 1 .. 16 THEN <<80 + n>> ELSE PushSlice(IF n = 0 THEN << >> ELSE <<n>>)

(* Pieces are numbered down to 0, the delegate is behind the last one.     *)
ChainScripts(chain, delegate) ==
  LET Sizes_(i) == Total([j \in 1 .. i |-> Len(chain[j])])
      count == Sizes_(Len(chain))
      Pieces(i) == FlattenSeq([k \in DOMAIN chain[i] |->
                     PushInt(count - Sizes_(i - 1) - k) \o PushSlice(chain[i][k])])
      Behind == FlattenSeq(SetToSeq({PushSlice(DelegateTag) \o PushSlice(DelegateField(d))
                                       : d \in delegate}))
  IN  [i \in DOMAIN chain |->
         (IF i = 1 THEN PushSlice(ProtocolId) \o PushInt(count) \o PushSlice(<<120>>)
          ELSE << >>)
           \o Pieces(i) \o (IF i = Len(chain) THEN Behind ELSE << >>)]

WriteInscription ==
  /\ Writing
  /\ \E chain \in SomeChains, delegate \in SomeDelegates :
       note' = Written("inscription", [chain |-> chain, delegate |-> delegate],
                       [i \in DOMAIN chain |-> <<ChainScripts(chain, delegate)[i], << >>>>])

WriteStored ==
  /\ Writing
  /\ \E r \in SomeStored, txid \in [1 .. 4 -> {0, 255}] :
       note' = Written("stored", [range |-> <<r[1], r[1] + r[2]>>, txid |-> txid],
                       [range |-> StoreSatRange(<<r[1], r[1] + r[2]>>),
                        txid |-> StoreEtching(txid)])

ReadNote == note.kind # "none" /\ note' = Blank /\ UNCHANGED tables

-----------------------------------------------------------------------------
Filing == note.kind = "none" /\ UNCHANGED note

FileTransferable ==
  /\ Filing /\ RowCount < MaxRows
  /\ \E script \in Scripts, tick \in Ticks, id \in Ids :
       /\ \A r \in rows.log : r.id # id
       /\ log' = InsertTransferable(log, script, tick, Row(script, tick, id))
       /\ rows' = [rows EXCEPT !.log = @ \cup {Row(script, tick, id)}]
       /\ UNCHANGED <<balances, holders, idsAt, satpoints>>

DropTransferable ==
  /\ Filing
  /\ \E r \in rows.log :
       /\ log' = RemoveTransferable(log, r.owner, r.tick, r.id)
       /\ rows' = [rows EXCEPT !.log = @ \ {r}]
       /\ UNCHANGED <<balances, holders, idsAt, satpoints>>

FileBalance ==
  /\ Filing /\ RowCount < MaxRows
  /\ \E script \in Scripts, tick \in Ticks, amount \in {0, 1} :
       LET row == [tick |-> tick, amount |-> amount, owner |-> script]
           others == {r \in rows.balances : r.owner # script \/ ~Same(r.tick, tick)}
       IN  /\ balances' = UpdateTokenBalance(balances, script, row)
           /\ rows' = [rows EXCEPT !.balances = others \cup {row}]
           /\ UNCHANGED <<log, holders, idsAt, satpoints>>

FileHolder ==
  /\ Filing /\ RowCount < MaxRows
  /\ \E script \in Scripts, tick \in Ticks :
       /\ holders' = InsertTokenHolder(holders, script, tick)
       /\ rows' = [rows EXCEPT !.holders = @ \cup {<<Lowercase(tick), script>>}]
       /\ UNCHANGED <<log, balances, idsAt, satpoints>>

DropHolder ==
  /\ Filing
  /\ \E script \in Scripts, tick \in Ticks :
       /\ holders' = RemoveTokenHolder(holders, script, tick)
       /\ rows' = [rows EXCEPT !.holders = @ \ {<<Lowercase(tick), script>>}]
       /\ UNCHANGED <<log, balances, idsAt, satpoints>>

FileInscription ==
  /\ Filing /\ RowCount < MaxRows
  /\ \E outpoint \in OutPoints, offset \in Offsets, txid \in {<<1>>, <<2>>}, index \in {0, 1} :
       LET point == [outpoint |-> outpoint, offset |-> offset]
           id == [txid |-> txid, index |-> index]
       IN  /\ \A r \in rows.ids : r[1] # point /\ r[2] # id
           /\ idsAt' = With(idsAt, StoreSatPoint(point), StoreInscriptionId(id))
           /\ satpoints' = With(satpoints, StoreInscriptionId(id), StoreSatPoint(point))
           /\ rows' = [rows EXCEPT !.ids = @ \cup {<<point, id>>}]
           /\ UNCHANGED <<log, balances, holders>>

Next ==
  \/ WriteCunestone \/ WriteCune \/ WriteTip \/ WritePlace \/ WriteSat
  \/ WriteAmount \/ WriteWallet \/ WriteInscription \/ WriteStored \/ ReadNote
  \/ FileTransferable \/ DropTransferable \/ FileBalance
  \/ FileHolder \/ DropHolder \/ FileInscription

Spec == Init /\ [][Next]_vars

-----------------------------------------------------------------------------
(* A cunestone is read as it was written, whatever its edicts and the      *)
(* lengths of its integers: the edicts by their ids and then in their      *)
(* order, and behind them the premine; all of the etching but its terms    *)
(* and turbo, for which encipher sets no flag (cunestone.rs:181-189).  They *)
(* are read as none, where the test of cunes.rs:4324-4358 enciphers an     *)
(* etching with a limit and expects the limit in the index.                *)
SameEdicts(read, written) ==
  /\ Len(read) = Len(written)
  /\ \A i \in 2 .. Len(read) : read[i - 1].id <= read[i].id
  /\ \A i \in DOMAIN written :
       LET OfId(e) == e.id = written[i].id
       IN  SelectSeq(read, OfId) = SelectSeq(written, OfId)

CunestonesReadBack ==
  note.kind = "cunestone" =>
    \E d \in Decipher(note.text) :
      LET c == note.value
          count == Len(c.edicts)
          premine == UNION {e.premine : e \in c.etching} \ {0}
      IN  /\ d.pointer = c.pointer
          /\ d.cenotaph = c.cenotaph
          /\ d.etching = {[e EXCEPT !.terms = {}, !.turbo = FALSE] : e \in c.etching}
          /\ SameEdicts(SubSeq(d.edicts, 1, count), c.edicts)
          /\ SubSeq(d.edicts, count + 1, Len(d.edicts))
               = SetToSeq({[id |-> 0, amount |-> p, output |-> 1] : p \in premine})

(* The least name that may be etched never rises from a block to the next, *)
(* and the names of each length open during an interval of their own, the  *)
(* longest first (minimum_at_height, cune.rs:31).                          *)
NamesOpenInOrder ==
  note.kind = "tip" =>
    LET next == note.value + 1
        Opens(length) == FirstCuneHeight + (Lengths - length) * Interval
    IN  /\ MinimumAtHeight(next) <= note.text
        /\ next < FirstCuneHeight => note.text = Steps[Lengths]
        /\ \A length \in 1 .. Lengths :
             /\ next <= Opens(length) => note.text >= Steps[length]
             /\ next >= Opens(length - 1) => note.text <= Steps[length - 1]

ReadsAs(kind, text) ==
  (\E hrp \in HrpNames : IsHrp(text, hrp))
    \/ ObjectOf(text) = {[kind |-> kind, shown |-> text]}

PlacesReadBack(p) ==
  LET o == p.outpoint
      id == [txid |-> o.txid, index |-> p.offset]
      cuneId == [height |-> o.vout, index |-> p.offset]
  IN  /\ SatPointOf(note.text) = {p}
      /\ OutgoingOf(note.text) = {[kind |-> "SatPoint", shown |-> note.text]}
      /\ ReadsAs("SatPoint", note.text)
      /\ OutPointOf(OutPointText(o)) = {o}
      /\ ReadsAs("OutPoint", OutPointText(o))
      /\ InscriptionIdOf(InscriptionIdText(id)) = {id}
      /\ ReadsAs("InscriptionId", InscriptionIdText(id))
      /\ OutgoingOf(InscriptionIdText(id))
           = {[kind |-> "InscriptionId", shown |-> InscriptionIdText(id)]}
      /\ InscriptionQueryOf(InscriptionIdText(id))
           = {[kind |-> "Id", shown |-> InscriptionIdText(id)]}
      /\ InscriptionQueryOf(NumberText(o.vout \div 2))
           = {[kind |-> "Number", shown |-> NumberText(o.vout \div 2)]}
      /\ CuneIdOfText(CuneIdText(cuneId)) = {cuneId}
      /\ CuneQueryOf(CuneIdText(cuneId)) = {[kind |-> "CuneId", shown |-> CuneIdText(cuneId)]}
      /\ BlockQueryOf(o.txid) = {[kind |-> "Hash", shown |-> o.txid]}
      /\ BlockQueryOf(NumberText(o.vout)) = {[kind |-> "Height", shown |-> NumberText(o.vout)]}
      /\ ReadsAs("Hash", o.txid)

SatsReadBack(s) ==
  /\ SatOf(note.text) = {s}
  /\ SatOf(NumberText(s)) = {s}
  /\ ObjectOf(note.text) = {[kind |-> "Decimal", shown |-> NumberText(s)]}
  /\ LET traits == TraitsOf(s)
         block == SubsidyAt(traits.height)
     IN  /\ traits.decimal = note.text
         /\ block.first + traits.offset = s
         /\ traits.offset < block.subsidy
         /\ EpochOfHeight(traits.height) = traits.epoch
         /\ traits.rarity = "common" <=> s # block.first

AmountsReadBack(n, decimals) ==
  LET cune == [cune |-> 30, spacers |-> {1}]
  IN  /\ RawAmount(note.text, decimals) = {n}
      /\ DecimalText([value |-> n, scale |-> decimals]) = {note.text}
      /\ UNION {ToAmount(d, decimals) : d \in DecimalOf(note.text)} = {n}
      /\ IsPrefix(note.text, PileText(n, decimals, {}))
      /\ {[amount |-> ToAmount(g.decimal, decimals), cune |-> g.cune] :
            g \in OutgoingOf(note.text \o <<32>> \o SpacedCuneText(cune))}
           = {[amount |-> {n}, cune |-> cune]}

NamesReadBack(c) ==
  LET shown == [c EXCEPT !.spacers = @ \cap 1 .. Len(Name(c.cune)) - 1]
  IN  /\ CuneOf(Name(c.cune)) = {c.cune}
      /\ SpacedCuneOfText(note.text) = {shown}
      /\ CuneQueryOf(note.text) = {[kind |-> "SpacedCune", shown |-> note.text]}
      /\ ObjectOf(note.text) = {[kind |-> "Cune", shown |-> note.text]}

(* Names, satpoints, outpoints, ids, sats and amounts that the program     *)
(* shows are read as the same by the commands and pages that take them: as *)
(* places and objects, as what is to be sent, as decimals of a cune and of *)
(* CRC20.  A pile begins with the same number, and goes on with a sign when *)
(* its cune has no symbol too (pile.rs:29), which the tests of pile.rs     *)
(* (40-139) do not expect.  A text that begins like an address is taken for *)
(* one by the parser of objects, so that some txids are                    *)
(* (representation.rs:20), and spacers behind the last letter of a name are *)
(* not shown.  The traits of a sat place it among those of its block.      *)
TextsReadBack ==
  /\ note.kind = "cune" => NamesReadBack(note.value)
  /\ note.kind = "satpoint" => PlacesReadBack(note.value)
  /\ note.kind = "sat" => SatsReadBack(note.value)
  /\ note.kind = "amount" => AmountsReadBack(note.value.amount, note.value.decimals)

(* The sats that the outputs of a wallet hold, with their places.          *)
Held(utxos) ==
  UNION {UNION {{[output |-> u.output, sat |-> s, offset |-> f] :
                   f \in OffsetsOf(u.ranges, s)} : s \in 0 .. 60} : u \in utxos}

FindsEach(found, needles, held) ==
  /\ ToSet(found) = {[output |-> h.output, sat |-> h.sat] :
                       h \in {g \in held : Contains(needles, g.sat)}}
  /\ Len(found) = Len(SelectSeq(needles, LAMBDA s : \E h \in held : h.sat = s))

(* The walks over ranges (wallet/sats.rs:60-138, list.rs:47-58), for any   *)
(* ranges that do not overlap, as their unit tests give them: the walk     *)
(* along a list of sats finds each of them that is in a range, as often as *)
(* it is listed, and no other; the rare sats are all those in the ranges   *)
(* that are not common, with their places; and the rows of an output have  *)
(* all of its sats.  In the program no range comes to these walks: those of *)
(* Index::list are none for an output of one or two, and it panics on three *)
(* (index.rs:1356), so that the commands list no sat, where the help of    *)
(* wallet sats (wallet/sats.rs:7) and the tests of list (index.rs:1763,    *)
(* ignored) have it list those of the outputs.                             *)
WalksFindSats ==
  note.kind = "wallet" =>
    LET utxos == note.value.utxos
        held == Held(utxos)
    IN  /\ FindsEach(SatsFromTsv(utxos, note.value.needles), note.value.needles, held)
        /\ RareSats(utxos) = {h \in held : ~IsCommon(h.sat)}
        /\ UNION {{l.start : l \in {k \in ToSet(RowsOf(u)) : k.rarity # "common"}} : u \in utxos}
             = {h.sat : h \in RareSats(utxos)}
        /\ \A u \in utxos :
             FoldSeq(LAMBDA l, n : l.size + n, 0, RowsOf(u))
               = Cardinality({h \in held : h.output = u.output})
        /\ \A u \in utxos : ListOf(u) = (IF Len(u.ranges) > 2 THEN {} ELSE {<< >>})
        /\ note.text = {} <=> \E u \in utxos : ListOf(u) = {}
        /\ \A listed \in note.text :
             SatsFromTsv(listed, note.value.needles) = << >> /\ RareSats(listed) = {}

ChainsReadBack(value) ==
  LET body == FlattenSeq(FlattenSeq(value.chain))
      inscription == [contentType |-> {<<120>>}, body |-> {body}, delegate |-> {}]
      reveal == AppendRevealScript(inscription, << >>)
  IN  /\ \A i \in 1 .. Len(note.text) - 1 :
           FromTransactions(SubSeq(note.text, 1, i)) = PartialParsed
      /\ LET read == FromTransactions(note.text)
         IN  /\ read.parsed = "Complete"
             /\ read.inscription.body = {body}
             /\ read.inscription.contentType = {<<120>>}
             /\ DelegateOf(read.inscription) = value.delegate
      /\ {SubSeq(pushes, 1, 4) \o <<FlattenSeq(SubSeq(pushes, 5, Len(pushes)))>>
            : pushes \in DecodePushDatas(SubSeq(reveal, 3, Len(reveal) - 1))}
           = {<<ProtocolId, <<1>>, <<120>>, << >>, body>>}
      /\ \A extension \in {"html", "txt", "md"} :
           \E file \in FromFile(extension, body, {255}) : Media(file) # Unknown

(* An inscription pushed over the inputs of a chain of transactions is not *)
(* complete before the last, and is then read with all of its pieces and   *)
(* its delegate, for pushes of at most 255 bytes (longer ones are not, see *)
(* DataBytes).  The wallet inscribes a file of a known kind only, whose    *)
(* media the server knows, and pushes all of its body into the reveal.     *)
InscriptionsReadBack == note.kind = "inscription" => ChainsReadBack(note.value)

ListsExactly(list, set) == ToSet(list) = set /\ Len(list) = Cardinality(set)

LogsAreExact ==
  \A script \in Scripts :
    LET mine == {r \in rows.log : r.owner = script}
    IN  /\ ListsExactly(GetTransferable(log, script), mine)
        /\ \A tick \in Ticks : ListsExactly(GetTransferableByTick(log, script, tick),
                                            {r \in mine : Same(r.tick, tick)})
        /\ \A id \in Ids : GetTransferableById(log, script, id) = {r \in mine : r.id = id}

BalancesAreExact ==
  \A script \in Scripts :
    LET mine == {r \in rows.balances : r.owner = script}
    IN  /\ ListsExactly(GetBalances(balances, script), mine)
        /\ \A tick \in Ticks :
             /\ GetBalance(balances, script, tick) = {r \in mine : Same(r.tick, tick)}
             /\ GetTokenHolder(holders, tick)
                  = {h[2] : h \in {g \in rows.holders : g[1] = Lowercase(tick)}} \cap Addresses
             /\ Len(Lowercase(tick)) = TickBytes =>
                  DeserializeScriptTickKey(ScriptTickKey(script, tick))
                    = {[script |-> s, tick |-> Lowercase(tick)] : s \in {script} \cap Addresses}

InscriptionsAreExact ==
  /\ \A txid \in {<<1>>, <<2>>} :
       InscriptionCount(satpoints, txid) = Cardinality({r \in rows.ids : r[2].txid = txid})
  /\ \A outpoint \in OutPoints :
       ListsExactly(InscriptionsOnOutput(idsAt, outpoint),
                    {r \in rows.ids : r[1].outpoint = outpoint})

StoredIsLoaded(value) ==
  /\ LoadSatRange(note.text.range) = Stored(<<value.range>>)[1]
  /\ LET start == value.range[1]
         size == value.range[2] - start
     IN  LoadSatRange(note.text.range) = value.range
           <=> start < BaseLimit /\ size < DeltaLimit
  /\ LoadEtching(note.text.txid, 4) = value.txid
  /\ \A symbol \in Optional(Chars) : LoadSymbol(StoreSymbol(symbol)) = symbol

(* Scans over the keys of a table find the rows they are meant to, all of  *)
(* them and no other: the logs and balances of one script or one tick, the *)
(* holders of a tick that have an address, the inscriptions of an output   *)
(* and of a transaction; and what is packed into bytes is what was stored. *)
(* A tick whose lower case is longer does not come back from its key, and  *)
(* a range of sats comes back as it was just when its start has at most 51 *)
(* bits and its size 37, which the size of no coinbase has: any other as   *)
(* the model of the index takes it (Stored of Ordinals).                   *)
TablesReadBack ==
  /\ LogsAreExact /\ BalancesAreExact /\ InscriptionsAreExact
  /\ note.kind = "stored" => StoredIsLoaded(note.value)
=================================================================================
