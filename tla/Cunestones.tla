------------------------------ MODULE Cunestones ------------------------------
(***************************************************************************)
(* What a transaction says about cunes: the cunestone that                 *)
(* src/src/cunes/cunestone.rs reads out of the output scripts of a         *)
(* transaction (decipher) and writes into one (encipher), with varint.rs,  *)
(* tag.rs, flag.rs, edict.rs and cune_id.rs.                               *)
(*                                                                         *)
(* An Option is a set of at most one value.  A script is the sequence of   *)
(* its instructions, records of a kind and the bytes of a push; an         *)
(* instruction of kind "error" is where the decoder of the library fails.  *)
(* MAX_LIMIT is U64Max.                                                    *)
(***************************************************************************)
EXTENDS Limits, FiniteSets, Sequences, SequencesExt

CONSTANTS
  IndexBase,        \* 2^16, what a cune id keeps for the index
  MaxDivisibility,  \* MAX_DIVISIBILITY
  MaxSpacers,       \* MAX_SPACERS
  MaxPush           \* MAX_SCRIPT_ELEMENT_SIZE

Lesser(a, b) == IF a < b THEN a ELSE b
Saturated(n) == Lesser(n, IntegerMax)

-----------------------------------------------------------------------------
(* Varints: bytes from the highest to the lowest, all but the last of      *)
(* which have their high bit; a byte that is not the last counts one more  *)
(* than it says.                                                           *)
HighBytes[n \in Nat] ==
  IF n < 128 THEN <<128 + n>>
  ELSE Append(HighBytes[n \div 128 - 1], 128 + (n % 128))

EncodeVarint(n) ==
  IF n < 128 THEN <<n>> ELSE Append(HighBytes[n \div 128 - 1], n % 128)

(* A version that takes a byte that is not the last for what it says.      *)
DecodeVarintPlain(bytes) ==
  FoldLeft(LAMBDA n, b : Saturated(Saturated(n * 128) + (b % 128)), 0, bytes)

DecodeVarint(bytes) ==
  FoldLeft(LAMBDA n, b :
             LET shifted == Saturated(n * 128)
             IN  Saturated(IF b < 128 THEN shifted + b ELSE shifted + b - 127),
           0, bytes)

(* An integer ends at a byte without the high bit, or with the payload.    *)
Integers(payload) ==
  LET ends == SelectSeq([i \in DOMAIN payload |-> i],
                        LAMBDA i : payload[i] < 128 \/ i = Len(payload))
      first(k) == IF k = 1 THEN 1 ELSE ends[k - 1] + 1
  IN  [k \in DOMAIN ends |-> DecodeVarint(SubSeq(payload, first(k), ends[k]))]

-----------------------------------------------------------------------------
(* Tags and flags.  A flag is its bit.                                     *)
Tag == [Body |-> 0, Flags |-> 2, Cune |-> 4, Limit |-> 6, OffsetEnd |-> 8,
        Deadline |-> 10, Pointer |-> 12, HeightStart |-> 14,
        OffsetStart |-> 16, HeightEnd |-> 18, Cap |-> 20, Premine |-> 22,
        Cenotaph |-> 254, Divisibility |-> 1, Spacers |-> 3, Symbol |-> 5,
        Nop |-> 255]

(* The tags decipher takes out of the fields: not that of the deadline.    *)
Taken == {Tag[t] : t \in DOMAIN Tag \ {"Body", "Deadline", "Cenotaph", "Nop"}}

Flag == [Etching |-> 1, Terms |-> 2, Turbo |-> 4]
HasFlag(flags, flag) == (flags \div flag) % 2 = 1
OtherFlags(flags) == flags \div 8 # 0

-----------------------------------------------------------------------------
(* Cune ids and edicts.                                                    *)
CuneIdOf(n) ==
  {[height |-> h, index |-> n % IndexBase] :
     h \in {n \div IndexBase} \cap 0 .. U64Max}

IntegerOfCuneId(id) == id.height * IndexBase + id.index

ValidEdict(edict, outputs) ==
  \E id \in CuneIdOf(edict.id) :
    /\ id.height = 0 => id.index = 0
    /\ edict.output <= outputs

-----------------------------------------------------------------------------
(* The message.  Tags stand at the odd places, up to that of the body.     *)
BodyAt(integers) ==
  Min({i \in DOMAIN integers : i % 2 = 1 /\ integers[i] = Tag.Body}
        \cup {Len(integers) + 1})

Fields(integers) ==
  LET tagged == {i \in 1 .. BodyAt(integers) - 1 : i % 2 = 1 /\ i < Len(integers)}
  IN  [tag \in {integers[i] : i \in tagged} |->
         integers[Min({i \in tagged : integers[i] = tag}) + 1]]

(* The body is edicts of three integers each, whose ids are differences;   *)
(* what is left of it at the end is dropped.                               *)
BodyEdicts(integers) ==
  LET body == SubSeq(integers, BodyAt(integers) + 1, Len(integers))
      count == Len(body) \div 3
      Ids == [k \in 1 .. count |-> body[3 * k - 2]]
  IN  [k \in 1 .. count |->
         [id |-> Saturated(FoldLeft(+, 0, SubSeq(Ids, 1, k))),
          amount |-> body[3 * k - 1], output |-> body[3 * k]]]

Field(fields, tag) == {fields[t] : t \in {tag} \cap DOMAIN fields}

-----------------------------------------------------------------------------
(* The payload of a transaction: a set of at most one.                     *)
Push(bytes) == [kind |-> "push", bytes |-> bytes]
OpReturn == [kind |-> "return", bytes |-> << >>]
OtherOp == [kind |-> "op", bytes |-> << >>]
Malformed == [kind |-> "error", bytes |-> << >>]
Magic == Push(<<68>>)

Fails(script) ==
  \E i \in DOMAIN script :
    /\ script[i] = Malformed
    /\ i > 1 => script[1] = OpReturn
    /\ i > 2 => script[2] = Magic

Speaks(script) == Len(script) >= 2 /\ script[1] = OpReturn /\ script[2] = Magic

Payload(scripts) ==
  LET ending == {i \in DOMAIN scripts : Fails(scripts[i]) \/ Speaks(scripts[i])}
      script == scripts[Min(ending)]
  IN  IF ending = {} \/ Fails(script) THEN {}
      ELSE {FlattenSeq([i \in 1 .. Len(script) - 2 |-> script[i + 2].bytes])}

-----------------------------------------------------------------------------
Terms(fields) ==
  [limit |-> {Lesser(l, U64Max) : l \in Field(fields, Tag.Limit)},
   cap |-> Field(fields, Tag.Cap),
   heightStart |-> Field(fields, Tag.HeightStart) \cap 0 .. U64Max,
   heightEnd |-> Field(fields, Tag.HeightEnd) \cap 0 .. U64Max,
   offsetStart |-> Field(fields, Tag.OffsetStart) \cap 0 .. U64Max,
   offsetEnd |-> Field(fields, Tag.OffsetEnd) \cap 0 .. U64Max]

Etching(fields, flags) ==
  [divisibility |-> Field(fields, Tag.Divisibility) \cap 0 .. MaxDivisibility,
   cune |-> Field(fields, Tag.Cune),
   spacers |-> Field(fields, Tag.Spacers) \cap 0 .. MaxSpacers,
   symbol |-> Field(fields, Tag.Symbol) \cap Chars,
   terms |-> IF HasFlag(flags, Flag.Terms) THEN {Terms(fields)} ELSE {},
   premine |-> Field(fields, Tag.Premine),
   turbo |-> HasFlag(flags, Flag.Turbo)]

(* The whole supply, even when there is no etching.                        *)
Overflows(fields) ==
  \E limit \in Terms(fields).limit \cup {0}, cap \in Terms(fields).cap \cup {0},
     premine \in Field(fields, Tag.Premine) \cup {0} :
    premine + cap * limit > IntegerMax

(* The premine is an edict of id 0 behind the others, and not validated.   *)
PremineEdict(fields) ==
  SetToSeq({[id |-> 0, amount |-> p, output |-> 1]
              : p \in Field(fields, Tag.Premine) \ {0}})

Deciphered(integers, outputs) ==
  LET fields == Fields(integers)
      flags == SumSet(Field(fields, Tag.Flags))
      edicts == BodyEdicts(integers)
      Valid(edict) == ValidEdict(edict, outputs)
  IN  [edicts |-> SelectSeq(edicts, Valid) \o PremineEdict(fields),
       etching |-> IF HasFlag(flags, Flag.Etching)
                   THEN {Etching(fields, flags)} ELSE {},
       pointer |-> Field(fields, Tag.Pointer) \cap 0 .. U32Max,
       cenotaph |-> \/ \E i \in DOMAIN edicts : ~Valid(edicts[i])
                    \/ Overflows(fields)
                    \/ OtherFlags(flags)
                    \/ \E tag \in DOMAIN fields \ Taken : tag % 2 = 0]

(* Cunestone::from_transaction, of the scripts of its outputs.             *)
Decipher(scripts) ==
  {Deciphered(Integers(payload), Len(scripts)) : payload \in Payload(scripts)}

-----------------------------------------------------------------------------
(* encipher.  The flag of the terms is never set: that of the etching is,  *)
(* a second time.                                                          *)
Tagged(tag, option) ==
  FlattenSeq(SetToSeq({EncodeVarint(tag) \o EncodeVarint(v) : v \in option}))

EncipheredEtching(e) ==
  Tagged(Tag.Flags, {Flag.Etching})
    \o Tagged(Tag.Cune, e.cune) \o Tagged(Tag.Divisibility, e.divisibility)
    \o Tagged(Tag.Spacers, e.spacers) \o Tagged(Tag.Symbol, e.symbol)
    \o Tagged(Tag.Premine, e.premine)
    \o Tagged(Tag.Limit, UNION {t.limit : t \in e.terms})
    \o Tagged(Tag.HeightEnd, UNION {t.heightEnd : t \in e.terms})
    \o Tagged(Tag.Cap, UNION {t.cap : t \in e.terms})

(* The edicts in the order of their ids, and of the list for equal ones.   *)
SortedEdicts(edicts) ==
  LET order == SortSeq([i \in DOMAIN edicts |-> i], LAMBDA i, j :
                 \/ edicts[i].id < edicts[j].id
                 \/ edicts[i].id = edicts[j].id /\ i < j)
  IN  [k \in DOMAIN order |-> edicts[order[k]]]

EncipheredEdicts(edicts) ==
  LET sorted == SortedEdicts(edicts)
      before(k) == IF k = 1 THEN 0 ELSE sorted[k - 1].id
  IN  IF edicts = << >> THEN << >>
      ELSE EncodeVarint(Tag.Body)
             \o FlattenSeq([k \in DOMAIN sorted |->
                  EncodeVarint(sorted[k].id - before(k))
                    \o EncodeVarint(sorted[k].amount)
                    \o EncodeVarint(sorted[k].output)])

Encipher(cunestone) ==
  LET payload ==
        FlattenSeq(SetToSeq({EncipheredEtching(e) : e \in cunestone.etching}))
          \o Tagged(Tag.Pointer, cunestone.pointer)
          \o Tagged(Tag.Cenotaph, IF cunestone.cenotaph THEN {0} ELSE {})
          \o EncipheredEdicts(cunestone.edicts)
      pushes == (Len(payload) + MaxPush - 1) \div MaxPush
  IN  <<OpReturn, Magic>>
        \o [k \in 1 .. pushes |->
              Push(SubSeq(payload, MaxPush * (k - 1) + 1,
                          Lesser(MaxPush * k, Len(payload))))]
===============================================================================
