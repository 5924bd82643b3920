--------------------------- MODULE InscriptionScripts ---------------------------
(***************************************************************************)
(* What an inscription says (src/src/inscription.rs, tag.rs, media.rs):    *)
(* the pushes of a script, the inscription that InscriptionParser reads    *)
(* from the input scripts of a chain of transactions, and the script that  *)
(* the wallet writes for its reveal.  A script is a sequence of bytes, and *)
(* so is all data; an Option is a set of at most one.                      *)
(***************************************************************************)
EXTENDS Naturals, FiniteSets, Sequences, SequencesExt

CONSTANTS
  TxidBytes,      \* Txid::LEN
  NumberBytes,    \* 8, the longest push that is read as a number
  ChunkBytes,     \* 520, the pieces in which a reveal pushes its body
  Table,          \* Media::TABLE: [type, media, extensions], in its order
  Normalised(_)   \* "; " and " ;" of a content type replaced by ";"

ProtocolId == <<111, 114, 100>>
DelegateTag == <<11>>
Unknown == "Unknown"

LittleEndianOf(bytes) == FoldRight(LAMBDA b, n : b + 256 * n, bytes, 0)

-----------------------------------------------------------------------------
(* decode_push_datas.  OP_PUSHDATA2 and OP_PUSHDATA4 take the opcode for   *)
(* the lowest byte of the length, and leave out the highest of four.       *)
HeaderBytes(op) == CASE op = 76 -> 2 [] op = 77 -> 3 [] op = 78 -> 5 [] OTHER -> 1

IsPush(op) == op <= 78 \/ op \in 81 .. 96

DataBytes(bytes) ==
  LET op == bytes[1]
  IN  CASE op = 76         -> bytes[2]
        [] op = 77         -> 256 * bytes[2] + op
        [] op = 78         -> LittleEndianOf(<<op, bytes[2], bytes[3], bytes[4]>>)
        [] op \in 81 .. 96 -> 0
        [] OTHER           -> op

(* The push at the head of bytes and what follows it, if it is complete.   *)
FirstPush(bytes) ==
  LET op == bytes[1]
      header == HeaderBytes(op)
      end == header + DataBytes(bytes)
  IN  IF ~IsPush(op) \/ Len(bytes) < header \/ Len(bytes) < end THEN {}
      ELSE {[data |-> IF op \in 81 .. 96 THEN <<op - 80>>
                      ELSE SubSeq(bytes, header + 1, end),
             rest |-> SubSeq(bytes, end + 1, Len(bytes))]}

(* One round of the loop for each byte there could be; a decoder that has  *)
(* come to the end stays there.                                            *)
DecodePushDatas(script) ==
  LET Push(decoded, round) ==
        UNION {IF d.rest = << >> THEN {d}
               ELSE {[pushes |-> Append(d.pushes, p.data), rest |-> p.rest]
                       : p \in FirstPush(d.rest)}
                 : d \in decoded}
  IN  {d.pushes : d \in FoldLeft(Push, {[pushes |-> << >>, rest |-> script]},
                                 [i \in DOMAIN script |-> i])}

PushDataToNumber(data) ==
  IF Len(data) > NumberBytes THEN {} ELSE {LittleEndianOf(data)}

-----------------------------------------------------------------------------
(* InscriptionParser::parse.  The state of its loops: the pieces left, the *)
(* body so far and the pushes not read yet.                                *)
(* A version that counts the pieces down to 1.                             *)
IsNextFromOne(pushes, left) ==
  left > 0 /\ Len(pushes) >= 2 /\ left \in PushDataToNumber(pushes[1])

IsNext(pushes, left) ==
  /\ left > 0 /\ Len(pushes) >= 2
  /\ left - 1 \in PushDataToNumber(pushes[1])

TakePieces(state) ==
  LET Piece(s, round) ==
        IF IsNext(s.pushes, s.left)
        THEN [left |-> s.left - 1, body |-> s.body \o s.pushes[2],
              pushes |-> SubSeq(s.pushes, 3, Len(s.pushes))]
        ELSE s
  IN  FoldLeft(Piece, state, [i \in DOMAIN state.pushes |-> i])

(* Pairs of a tag of one byte and a value, up to the first tag of another  *)
(* length; Tag::take takes the first value.                                *)
FieldOf(pushes, tag) ==
  LET pairs == 1 .. Len(pushes) \div 2
      read == {k \in pairs : \A j \in 1 .. k : Len(pushes[2 * j - 1]) = 1}
      mine == {k \in read : pushes[2 * k - 1] = tag}
  IN  IF mine = {} THEN {} ELSE {pushes[2 * Min(mine)]}

Complete(state, contentType) ==
  [parsed |-> "Complete",
   inscription |-> [contentType |-> {contentType}, body |-> {state.body},
                    delegate |-> FieldOf(state.pushes, DelegateTag)]]

NoneParsed == [parsed |-> "None"]
PartialParsed == [parsed |-> "Partial"]

(* The states after the script i, from what is left after the one before.  *)
(* A script that fails ends the chain with None, unless it was complete.   *)
ParseScripts(scripts) ==
  LET first == {p \in DecodePushDatas(scripts[1]) : Len(p) >= 3 /\ p[1] = ProtocolId}
      begun == {[left |-> n, body |-> << >>, pushes |-> SubSeq(p, 4, Len(p))]
                  : <<p, n>> \in {q \in first \X UNION {PushDataToNumber(p[2]) : p \in first}
                                    : q[2] \in PushDataToNumber(q[1][2]) \ {0}}}
      Continue(states, i) ==
        UNION {IF s.left = 0 THEN {s}
               ELSE {TakePieces([s EXCEPT !.pushes = p])
                       : p \in {q \in DecodePushDatas(scripts[i]) : IsNext(q, s.left)}}
                 : s \in states}
      ends == FoldLeft(Continue, {TakePieces(s) : s \in begun},
                       [i \in 1 .. Len(scripts) - 1 |-> i + 1])
      contentType == (CHOOSE p \in first : TRUE)[3]
  IN  IF ends = {} THEN NoneParsed
      ELSE LET end == CHOOSE s \in ends : TRUE
           IN  IF end.left = 0 THEN Complete(end, contentType) ELSE PartialParsed

(* Inscription::from_transactions, of the scripts of the inputs of each.   *)
FromTransactions(txs) ==
  IF \E i \in DOMAIN txs : txs[i] = << >> THEN NoneParsed
  ELSE ParseScripts([i \in DOMAIN txs |-> txs[i][1]])

-----------------------------------------------------------------------------
(* The delegate: a txid and an index of at most four bytes, fewer of which *)
(* end with another byte than 0.                                           *)
InscriptionIdField(field) ==
  {[txid |-> SubSeq(v, 1, TxidBytes),
    index |-> LittleEndianOf(SubSeq(v, TxidBytes + 1, Len(v)))] :
     v \in {w \in field : /\ Len(w) \in TxidBytes .. TxidBytes + 4
                          /\ Len(w) \notin {TxidBytes, TxidBytes + 4} => Last(w) # 0}}

DelegateOf(inscription) == InscriptionIdField(inscription.delegate)

(* Media: the first row of a content type, or of an extension.             *)
FirstRow(rows) ==
  LET places == {i \in DOMAIN Table : Table[i] \in rows}
  IN  IF places = {} THEN {} ELSE {Table[Min(places)]}

MediaOf(contentType) ==
  {row.media : row \in FirstRow({r \in ToSet(Table) : r.type = contentType})}

ContentTypeForPath(extension) ==
  {row.type : row \in FirstRow({r \in ToSet(Table) : extension \in r.extensions})}

Media(inscription) ==
  LET known == UNION {MediaOf(Normalised(t)) : t \in inscription.contentType}
  IN  IF inscription.body = {} \/ known = {} THEN Unknown
      ELSE CHOOSE m \in known : TRUE

-----------------------------------------------------------------------------
(* The wallet: an inscription of a file, and the script of its reveal, for *)
(* the witness.  Builder::push_slice is the library's; the script behind   *)
(* the key and its check is shown by its bytes only.                       *)
FromFile(extension, body, limit) ==
  {[contentType |-> {type}, body |-> {body}, delegate |-> {}] :
     type \in {t \in ContentTypeForPath(extension) : \A l \in limit : Len(body) <= l}}

PushSlice(data) ==
  (CASE Len(data) < 76  -> <<Len(data)>>
     [] Len(data) < 256 -> <<76, Len(data)>>
     [] OTHER           -> <<77, Len(data) % 256, Len(data) \div 256>>) \o data

Chunks(body) ==
  [k \in 1 .. (Len(body) + ChunkBytes - 1) \div ChunkBytes |->
     SubSeq(body, ChunkBytes * (k - 1) + 1,
            IF ChunkBytes * k < Len(body) THEN ChunkBytes * k ELSE Len(body))]

(* Of bytes: 0 is OP_FALSE, 99 OP_IF, 104 OP_ENDIF.                        *)
AppendRevealScript(inscription, script) ==
  script \o <<0, 99>> \o PushSlice(ProtocolId)
    \o FlattenSeq(SetToSeq({PushSlice(<<1>>) \o PushSlice(t) : t \in inscription.contentType}))
    \o FlattenSeq(SetToSeq({PushSlice(<< >>)
                              \o FlattenSeq([k \in DOMAIN Chunks(b) |-> PushSlice(Chunks(b)[k])])
                              : b \in inscription.body}))
    \o <<104>>
=================================================================================
