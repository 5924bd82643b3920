-------------------------------- MODULE Notation --------------------------------
(***************************************************************************)
(* How numbers, sats, places and amounts are written and read: sat.rs,     *)
(* decimal_sat.rs, rarity.rs, sat_point.rs, inscription_id.rs, decimal.rs, *)
(* cunes/pile.rs, cunes/cune_id.rs, crc20/num.rs, representation.rs,       *)
(* object.rs, outgoing.rs and subcommand/server/query.rs of src/src, and   *)
(* the reports of the wallet's sats.  A text is the sequence of the codes  *)
(* of its characters; what cannot be read is the empty set, and what can   *)
(* the set of its value.                                                   *)
(***************************************************************************)
EXTENDS Limits, Ordinals, CuneNames

CONSTANTS
  ScaleMax,     \* u8::MAX
  NumScale,     \* MAX_DECIMAL_WIDTH
  TxidChars,    \* 64, the characters of a txid or a hash
  HrpNames      \* the prefixes of addresses a representation knows

Dot == 46
Colon == 58
Separator == 105                       \* "i"
Digit == 48 .. 57
Capital == 65 .. 90
Bullet == 8226
HexDigits == Digit \cup 97 .. 102 \cup 65 .. 70

AllIn(text, chars) == \A i \in DOMAIN text : text[i] \in chars
From(text, i) == SubSeq(text, i, Len(text))

NumberText(n) ==
  LET digits[k \in Nat] ==
        IF k < 10 THEN <<48 + k>> ELSE Append(digits[k \div 10], 48 + (k % 10))
  IN  digits[n]

(* Integers are read by the library: digits, with or without a plus.       *)
NumberOf(text, max) ==
  LET digits == IF text # << >> /\ text[1] = 43 THEN Tail(text) ELSE text
  IN  IF digits = << >> \/ ~AllIn(digits, Digit) THEN {}
      ELSE {FoldLeft(LAMBDA n, c : 10 * n + (c - 48), 0, digits)} \cap 0 .. max

Halves(text, i) == [left |-> SubSeq(text, 1, i - 1), right |-> From(text, i + 1)]
SplitOnce(text, c) ==
  {Halves(text, i) : i \in {j \in DOMAIN text :
                              text[j] = c /\ ~Contains(SubSeq(text, 1, j - 1), c)}}
RSplitOnce(text, c) ==
  {Halves(text, i) : i \in {j \in DOMAIN text :
                              text[j] = c /\ ~Contains(From(text, j + 1), c)}}

-----------------------------------------------------------------------------
(* Sats: the height of their block and their place in it.                  *)
SatHeight(s) ==
  LET e == EpochOfSat(s)
  IN  EpochHeight[e] + (s - EpochSat[e]) \div EpochSubsidy[e]
Third(s) ==
  LET e == EpochOfSat(s) IN (s - EpochSat[e]) % EpochSubsidy[e]

DecimalSatText(s) == NumberText(SatHeight(s)) \o <<Dot>> \o NumberText(Third(s))

SatOfDecimal(text) ==
  {StartingSat(p[1]) + p[2] :
     p \in {q \in UNION {NumberOf(h.left, U32Max) \X NumberOf(h.right, U64Max)
                           : h \in SplitOnce(text, Dot)} : q[2] < Subsidy(q[1])}}

SatOf(text) ==
  IF Contains(text, Dot) THEN SatOfDecimal(text) ELSE NumberOf(text, U64Max)

(* Rarities; rare and epic sats are never told apart from uncommon ones.   *)
Rarities == <<"common", "uncommon", "rare", "epic", "legendary", "mythic">>
RarityOf(s) ==
  CASE s = 0                       -> "mythic"
    [] s > 0 /\ s \in Range(EpochSat) -> "legendary"
    [] OTHER                       -> IF IsCommon(s) THEN "common" ELSE "uncommon"

(* What the commands traits, subsidy and list say of a sat, a height and   *)
(* the ranges of an output.                                                *)
TraitsOf(s) ==
  [number |-> s, decimal |-> DecimalSatText(s), height |-> SatHeight(s),
   epoch |-> EpochOfSat(s), offset |-> Third(s), rarity |-> RarityOf(s)]

SubsidyAt(h) == [first |-> StartingSat(h), subsidy |-> Subsidy(h)]

RowsOf(u) ==
  [i \in DOMAIN u.ranges |->
     [output |-> u.output, start |-> u.ranges[i][1],
      size |-> Sizes(u.ranges)[i], rarity |-> RarityOf(u.ranges[i][1])]]

(* Index::list of an output that is in the table.  A range is stored in 11 *)
(* bytes; what is stored is read in chunks of 24, what is left behind the  *)
(* last of them is dropped, and a chunk does not become 11 bytes: it       *)
(* panics, and the set is empty.                                           *)
StoredRangeBytes == 11
ListedChunkBytes == 24

ListedRanges(ranges) ==
  {<< >> : x \in {0} \cap {(StoredRangeBytes * Len(ranges)) \div ListedChunkBytes}}

ListOf(u) == {RowsOf([u EXCEPT !.ranges = r]) : r \in ListedRanges(u.ranges)}

(* get_unspent_output_ranges, of the outputs in the table: none of them is *)
(* listed when the list of one panics.                                     *)
OutputRanges(utxos) ==
  LET listed == UNION {{[u EXCEPT !.ranges = r] : r \in ListedRanges(u.ranges)} : u \in utxos}
  IN  {l \in {listed} : Cardinality(l) = Cardinality(utxos)}

(* The sats of a wallet: those that begin a range and are not common, with *)
(* their place in the output.                                              *)
RareSats(utxos) ==
  {[output |-> u.output, sat |-> u.ranges[i][1], offset |-> StartOf(Sizes(u.ranges), i)] :
     <<u, i>> \in {p \in utxos \X (1 .. Max({Len(v.ranges) : v \in utxos} \cup {0})) :
                     p[2] \in DOMAIN p[1].ranges /\ RarityOf(p[1].ranges[p[2]][1]) # "common"}}

(* The listed sats among them: both lists are sorted, and passed through   *)
(* together; a line that is left behind is not looked at again.            *)
Haystack(utxos) ==
  LET stack == UNION {{<<u.ranges[i][1], u.ranges[i][2], u.output>> : i \in DOMAIN u.ranges}
                        : u \in utxos}
  IN  SortSeq(FoldSet(LAMBDA h, s : Append(s, h), << >>, stack), LAMBDA a, b :
        \/ a[1] < b[1]
        \/ a[1] = b[1] /\ a[2] < b[2]
        \/ a[1] = b[1] /\ a[2] = b[2] /\ a[3] < b[3])

FoundAlong(needles, haystack) ==
  LET Pass(s, round) ==
        IF s.i > Len(needles) \/ s.j > Len(haystack) THEN s
        ELSE LET needle == needles[s.i]
                 hay == haystack[s.j]
                 found == IF hay[1] <= needle /\ needle < hay[2]
                          THEN <<[output |-> hay[3], sat |-> needle]>> ELSE << >>
             IN  [i |-> IF needle < hay[2] THEN s.i + 1 ELSE s.i,
                  j |-> IF needle < hay[2] THEN s.j ELSE s.j + 1,
                  found |-> s.found \o found]
  IN  FoldLeft(Pass, [i |-> 1, j |-> 1, found |-> << >>],
               [r \in 1 .. Len(needles) + Len(haystack) |-> r]).found

(* A version that does not sort the list.                                  *)
SatsFromTsvUnsorted(utxos, sats) == FoundAlong(sats, Haystack(utxos))

SatsFromTsv(utxos, sats) == FoundAlong(SortSeq(sats, <), Haystack(utxos))

-----------------------------------------------------------------------------
(* Places.  A txid is a text of TxidChars hexadecimal digits; one with     *)
(* capitals is read as the same without.                                   *)
Lower(c) == IF c \in Capital THEN c + 32 ELSE c
TxidOf(text) ==
  IF Len(text) = TxidChars /\ AllIn(text, HexDigits)
  THEN {[i \in DOMAIN text |-> Lower(text[i])]} ELSE {}

OutPointText(o) == o.txid \o <<Colon>> \o NumberText(o.vout)
OutPointOf(text) ==
  UNION {{[txid |-> t, vout |-> v] : <<t, v>> \in TxidOf(h.left) \X NumberOf(h.right, U32Max)}
           : h \in {g \in SplitOnce(text, Colon) : ~Contains(g.right, Colon)}}

SatPointText(p) == OutPointText(p.outpoint) \o <<Colon>> \o NumberText(p.offset)
SatPointOf(text) ==
  UNION {{[outpoint |-> o, offset |-> n] :
            <<o, n>> \in OutPointOf(h.left) \X NumberOf(h.right, U64Max)}
           : h \in RSplitOnce(text, Colon)}

InscriptionIdText(id) == id.txid \o <<Separator>> \o NumberText(id.index)
InscriptionIdOf(text) ==
  IF (\E i \in DOMAIN text : text[i] > 127) \/ Len(text) < TxidChars + 2
       \/ text[TxidChars + 1] # Separator
  THEN {}
  ELSE {[txid |-> t, index |-> n] :
          <<t, n>> \in TxidOf(SubSeq(text, 1, TxidChars))
            \X NumberOf(From(text, TxidChars + 2), U32Max)}

CuneIdText(id) == NumberText(id.height) \o <<Colon>> \o NumberText(id.index)
CuneIdOfText(text) ==
  UNION {{[height |-> h, index |-> n] :
            <<h, n>> \in NumberOf(s.left, U64Max) \X NumberOf(s.right, U32Max)}
           : s \in SplitOnce(text, Colon)}

-----------------------------------------------------------------------------
(* Amounts.  The zeros at the end of a fraction are shown by none of them. *)
(* A version without the zeros behind the dot.                             *)
FractionUnpadded(n, width) == IF n = 0 THEN << >> ELSE <<Dot>> \o NumberText(n)

Fraction(n, width) ==
  LET digits == [i \in 1 .. width |-> 48 + ((n \div 10 ^ (width - i)) % 10)]
      shown == Max({i \in DOMAIN digits : digits[i] # 48} \cup {0})
  IN  IF shown = 0 THEN << >> ELSE <<Dot>> \o SubSeq(digits, 1, shown)

AmountText(amount, scale) ==
  NumberText(amount \div 10 ^ scale) \o Fraction(amount % 10 ^ scale, scale)

(* Decimal: there is no text when the power is too large.                  *)
DecimalText(d) == {AmountText(d.value, d.scale) : x \in {10 ^ d.scale} \cap 0 .. IntegerMax}

(* format_balance of the server, for amounts of CRC20.                     *)
FormatBalance(balance, decimals) == AmountText(balance, decimals)

(* The symbol, or the general one for a currency, behind a fixed space.    *)
PileText(amount, divisibility, symbol) ==
  AmountText(amount, divisibility) \o <<160>>
    \o (IF symbol = {} THEN <<164>> ELSE SetToSeq(symbol))

(* FromStr of Decimal.  The zeros at the end do not count for the scale,   *)
(* but they do for the value.                                              *)
WithoutTrailing(text, c) ==
  SubSeq(text, 1, Max({i \in DOMAIN text : text[i] # c} \cup {0}))

OrZero(text) == IF text = << >> THEN {0} ELSE NumberOf(text, IntegerMax)

DecimalOf(text) ==
  IF ~Contains(text, Dot)
  THEN {[value |-> v, scale |-> 0] : v \in NumberOf(text, IntegerMax)}
  ELSE UNION {LET digits == WithoutTrailing(h.right, 48)
                  power == 10 ^ Len(digits) % (IntegerMax + 1)
              IN  {[value |-> (p[1] * power + p[2]) % (IntegerMax + 1), scale |-> Len(digits)]
                     : p \in {q \in OrZero(h.left) \X OrZero(h.right) : Len(digits) <= ScaleMax}}
                : h \in {g \in SplitOnce(text, Dot) : g.left # << >> \/ g.right # << >>}}

ToAmount(decimal, divisibility) ==
  IF decimal.scale > divisibility THEN {}
  ELSE {decimal.value * p : p \in {10 ^ (divisibility - decimal.scale)} \cap 0 .. IntegerMax}
         \cap 0 .. IntegerMax

(* Num of CRC20 is an integer and the digits of its fraction.  The library *)
(* reads it; exponents, signs and a dot at either end are refused before.  *)
NumOf(text) ==
  LET dots == {i \in DOMAIN text : text[i] = Dot}
      digits == SelectSeq(text, LAMBDA c : c # Dot)
      scale == IF dots = {} THEN 0 ELSE Len(text) - Max(dots)
  IN  IF \/ digits = << >> \/ ~AllIn(digits, Digit)
         \/ dots \cap {1, Len(text)} # {} \/ Cardinality(dots) > 1 \/ scale > NumScale
      THEN {}
      ELSE {[value |-> FoldLeft(LAMBDA n, c : 10 * n + (c - 48), 0, digits), scale |-> scale]}

CheckedMul(a, b) == {[value |-> a.value * b.value, scale |-> a.scale + b.scale]}

Rescaled(a, scale) == a.value * 10 ^ (scale - a.scale)
CheckedSub(a, b) ==
  LET scale == Max({a.scale, b.scale})
  IN  {[value |-> v, scale |-> scale] : v \in {Rescaled(a, scale) - Rescaled(b, scale)} \cap Nat}

CheckedPowu(a, exp) == {[value |-> a.value ^ exp, scale |-> a.scale * exp]}

CheckedToInteger(a, max) ==
  IF a.value % 10 ^ a.scale # 0 THEN {} ELSE {a.value \div 10 ^ a.scale} \cap 0 .. max

(* What a mint or a transfer makes of the text of its amount.              *)
RawAmount(text, decimals) ==
  UNION {UNION {CheckedToInteger(m, IntegerMax) : m \in CheckedMul(n, base)}
           : <<n, base>> \in {m \in NumOf(text) : m.scale <= decimals}
               \X CheckedPowu([value |-> 10, scale |-> 0], decimals)}

-----------------------------------------------------------------------------
(* What a text stands for: the first pattern it matches.                   *)
IsTxid(text) == Len(text) = TxidChars /\ AllIn(text, HexDigits)
IsNumber(text) == text # << >> /\ AllIn(text, Digit)

(* What follows a txid and a separator, if the text begins with them.      *)
AfterTxid(text, separator) ==
  IF /\ Len(text) > TxidChars /\ IsTxid(SubSeq(text, 1, TxidChars))
     /\ text[TxidChars + 1] = separator
  THEN {From(text, TxidChars + 2)} ELSE {}

IsNumberOf(text, separator) == \E rest \in AfterTxid(text, separator) : IsNumber(rest)

IsSatPoint(text) ==
  \E rest \in AfterTxid(text, Colon) : \E h \in SplitOnce(rest, Colon) :
    IsNumber(h.left) /\ IsNumber(h.right)

IsHrp(text, hrp) ==
  Len(hrp) < Len(text) /\ SubSeq(text, 1, Len(hrp) + 1) = hrp \o <<49>>

Kinds == <<"Address", "Decimal", "Hash", "InscriptionId", "Integer", "OutPoint",
           "Cune", "SatPoint">>

Matches(kind, text) ==
  CASE kind = "Address"       -> \E hrp \in HrpNames : IsHrp(text, hrp)
    [] kind = "Decimal"       -> Contains(text, Dot)
    [] kind = "Hash"          -> IsTxid(text)
    [] kind = "InscriptionId" -> IsNumberOf(text, Separator)
    [] kind = "Integer"       -> AllIn(text, Digit)
    [] kind = "OutPoint"      -> IsNumberOf(text, Colon)
    [] kind = "Cune"          -> text # << >> /\ AllIn(text, Capital \cup {Dot, Bullet})
    [] kind = "SatPoint"      -> IsSatPoint(text)

RepresentationOf(text) ==
  LET matched == {i \in DOMAIN Kinds : Matches(Kinds[i], text)}
  IN  IF matched = {} THEN {} ELSE {Kinds[Min(matched)]}

(* A spaced cune, from its letters and spacers, and back.                  *)
SpacedCuneText(c) ==
  LET shown == Spaced(c.cune, c.spacers)
  IN  [i \in DOMAIN shown |-> IF shown[i] = Spacer THEN Bullet ELSE 65 + shown[i]]

SpacedCuneOfText(text) ==
  IF AllIn(text, Capital \cup {Dot, Bullet})
  THEN SpacedCuneOf([i \in DOMAIN text |->
         IF text[i] \in Capital THEN text[i] - 65 ELSE Spacer])
  ELSE {}

(* FromStr of Object, and Display of what it read; addresses are read by   *)
(* the library.                                                            *)
Shown(kind, text) ==
  CASE kind = "Address"       -> {text}
    [] kind = "Decimal"       -> {NumberText(s) : s \in SatOf(text)}
    [] kind = "Hash"          -> TxidOf(text)
    [] kind = "InscriptionId" -> {InscriptionIdText(id) : id \in InscriptionIdOf(text)}
    [] kind = "Integer"       -> {NumberText(n) : n \in NumberOf(text, IntegerMax)}
    [] kind = "OutPoint"      -> {OutPointText(o) : o \in OutPointOf(text)}
    [] kind = "Cune"          -> {SpacedCuneText(c) : c \in SpacedCuneOfText(text)}
    [] kind = "SatPoint"      -> {SatPointText(p) : p \in SatPointOf(text)}

ObjectOf(text) ==
  UNION {{[kind |-> k, shown |-> s] : s \in Shown(k, text)} : k \in RepresentationOf(text)}

(* What the wallet is asked to send: an amount of coins (the unit is "sat" *)
(* here), or of a cune, or an inscription or the sat of a satpoint.        *)
AmountEnd(text) == Max({i \in 0 .. Len(text) :
                          /\ AllIn(SubSeq(text, 1, i), Digit \cup {Dot})
                          /\ i = 0 \/ text[i] \in Digit})
IsAmount(text) ==
  /\ text # << >> /\ Cardinality({i \in DOMAIN text : text[i] = Dot}) <= 1
  /\ Last(text) # Dot

SpacesEnd(text, i) == Max({j \in i .. Len(text) : \A k \in i + 1 .. j : text[k] = 32})

Sat == <<115, 97, 116>>

OutgoingOf(text) ==
  LET end == AmountEnd(text)
      amount == SubSeq(text, 1, end)
      unit == From(text, SpacesEnd(text, end) + 1)
  IN  CASE IsSatPoint(text) -> {[kind |-> "SatPoint", shown |-> SatPointText(p)]
                                  : p \in SatPointOf(text)}
        [] IsNumberOf(text, Separator) ->
             {[kind |-> "InscriptionId", shown |-> InscriptionIdText(id)]
                : id \in InscriptionIdOf(text)}
        [] IsAmount(amount) /\ unit \in {Sat, Append(Sat, 115)} ->
             {[kind |-> "Amount", shown |-> amount]}
        [] IsAmount(amount) /\ Matches("Cune", unit) ->
             {[kind |-> "Cune", decimal |-> d, cune |-> c]
                : <<d, c>> \in DecimalOf(amount) \X SpacedCuneOfText(unit)}
        [] OTHER -> {}

(* The arguments of the server's pages.  A negative number names no        *)
(* inscription, and is left out.                                           *)
BlockQueryOf(text) ==
  IF Len(text) = TxidChars THEN {[kind |-> "Hash", shown |-> t] : t \in TxidOf(text)}
  ELSE {[kind |-> "Height", shown |-> NumberText(n)] : n \in NumberOf(text, U32Max)}

InscriptionQueryOf(text) ==
  IF Contains(text, Separator)
  THEN {[kind |-> "Id", shown |-> InscriptionIdText(id)] : id \in InscriptionIdOf(text)}
  ELSE {[kind |-> "Number", shown |-> NumberText(n)] : n \in NumberOf(text, U32Max \div 2)}

CuneQueryOf(text) ==
  IF Contains(text, Colon)
  THEN {[kind |-> "CuneId", shown |-> CuneIdText(id)] : id \in CuneIdOfText(text)}
  ELSE {[kind |-> "SpacedCune", shown |-> SpacedCuneText(c)] : c \in SpacedCuneOfText(text)}
=================================================================================
