------------------------------ MODULE CuneLedger -----------------------------
(***************************************************************************)
(* The cune ledger: CuneUpdater::index_cunes of                            *)
(* src/src/index/updater/cune_updater.rs on the cunestones that            *)
(* src/src/cunes/cunestone.rs deciphers.                                   *)
(*                                                                         *)
(* A transaction is indexed in the order of the code: its inputs give      *)
(* their cunes up, the edicts of its cunestone allocate cunes to its       *)
(* outputs, what is left goes to one output or is burned, the outputs are  *)
(* stored one by one, and the burned amounts are added up at the end.      *)
(* Inputs, outputs and edicts are chosen as they are read.                 *)
(*                                                                         *)
(* A cune id is <<height, index>>; arithmetic on balances is that of u128  *)
(* in a release build, which wraps.                                        *)
(***************************************************************************)
EXTENDS Integers, Sequences, FiniteSets, Functions

CONSTANTS
  U128Max,      \* u128::MAX
  MaxLimit,     \* MAX_LIMIT
  Reserved,     \* RESERVED: the first reserved cune
  Minimum(_),   \* Cune::minimum_at_height
  MaxIndex,     \* u16::MAX
  Name,         \* bound: the cunes that etchings name
  Terms,        \* bound: the terms that etchings set
  Asked,        \* bound: the amounts of edicts and premines
  Pointers,     \* bound: the outputs that pointers name
  MaxHeight,    \* bound: blocks
  MaxTxs(_),    \* bound: transactions of the block at a height
  Shapes,       \* bound: is_op_return() of the outputs of a transaction
  MaxEdicts     \* bound: edicts of a cunestone

Amount == 0 .. U128Max
Option(S) == {s \in SUBSET S : \A x, y \in s : x = y}
Options(S) == {{}} \cup {{x} : x \in S}  \* the same, for TLC to enumerate

TermsType ==
  [cap : Option(Amount), limit : Option(Amount),
   start : Option(Nat), end : Option(Nat),            \* Terms.height
   startOffset : Option(Nat), endOffset : Option(Nat)]  \* Terms.offset

ASSUME CuneAssumption ==
  /\ U128Max \in Nat /\ MaxLimit \in Amount /\ Reserved \in Nat
  /\ MaxIndex \in Nat /\ MaxHeight \in Nat
  /\ Shapes \subseteq Seq(BOOLEAN) /\ MaxEdicts \in Nat
  /\ \A h \in 0 .. MaxHeight : Minimum(h) \in Nat
  /\ Pointers \subseteq Nat /\ Name \subseteq Nat /\ Asked \subseteq Amount
  /\ Terms \subseteq TermsType

VARIABLES
  height, index,  \* of the transaction to index
  entries,        \* CUNE_ID_TO_CUNE_ENTRY
  cuneToId,       \* CUNE_TO_CUNE_ID
  reservedCunes,  \* Statistic::ReservedCunes
  balances,       \* OUTPOINT_TO_CUNE_BALANCES: [outpoint -> [id -> amount]]
  pc,             \* the part of index_cunes under way
  outputs,        \* is_op_return() of each output
  cenotaph, pointer,
  premine,        \* Tag::Premine
  allocation,     \* Option<Allocation>
  unallocated,    \* [id -> amount]
  minted,         \* [id -> amount]: limit less what is still mintable
  premineAmount,  \* premine_amount
  allocated,      \* [output -> [id -> amount]]
  edicts,         \* edicts read so far
  burned          \* [id -> amount]

block == <<height, index>>
tables == <<entries, cuneToId, reservedCunes, balances>>
stone == <<outputs, cenotaph, pointer, premine>>
work == <<allocation, unallocated, minted, premineAmount, allocated, edicts,
          burned>>
vars == <<block, tables, pc, stone, work>>

Id == Nat \X Nat
Wrap(n) == n % (U128Max + 1)
Lesser(a, b) == IF a <= b THEN a ELSE b
Only(S) == CHOOSE x \in S : TRUE

(* The ids the transaction can be about.                                   *)
Issued == {a.id : a \in allocation}
Known == DOMAIN entries \cup Issued

Of(f, i) == IF i \in DOMAIN f THEN f[i] ELSE 0

None(ids) == [i \in ids |-> 0]
Empty == None({})

Etching == [cune : Options(Name), premine : Asked, terms : Options(Terms)]
EdictKind == {"issue", "claim", "inputs"}

Entry == [cune : Nat, terms : Option(TermsType), mints : Amount,
          premine : Amount, supply : Amount, burned : Amount]
Allocation == [id : Id, cune : Nat, terms : Option(TermsType), balance : Amount]
IsPile(f, ids) == f \in [ids -> Amount]

-----------------------------------------------------------------------------
Init ==
  /\ height = 1 /\ index = 0  \* the genesis block has no cunestone
  /\ entries = Empty /\ cuneToId = Empty /\ reservedCunes = 0
  /\ balances = Empty
  /\ pc = "idle"
  /\ outputs = << >> /\ cenotaph = FALSE /\ pointer = {} /\ premine = 0
  /\ allocation = {} /\ unallocated = Empty /\ minted = Empty
  /\ premineAmount = 0 /\ allocated = Empty /\ edicts = 0 /\ burned = Empty

-----------------------------------------------------------------------------
(* The inputs                                                              *)

(* The first transaction of a block is its coinbase.                       *)
NextBlock ==
  /\ pc = "idle"
  /\ height < MaxHeight
  /\ height' = height + 1
  /\ index' = 0
  /\ UNCHANGED <<tables, pc, stone, work>>

NextTransaction(outs) ==
  /\ pc = "idle"
  /\ index < MaxTxs(height)
  /\ pc' = "inputs"
  /\ outputs' = outs
  /\ cenotaph' = FALSE /\ pointer' = {} /\ premine' = 0
  /\ allocation' = {} /\ premineAmount' = 0 /\ edicts' = 0
  /\ unallocated' = None(DOMAIN entries)
  /\ minted' = None(DOMAIN entries)
  /\ burned' = None(DOMAIN entries)
  /\ allocated' = [v \in 1 .. Len(outs) |-> None(DOMAIN entries)]
  /\ UNCHANGED <<block, tables>>

(* An input's outpoint is removed from the table.                          *)
SpendInput(out) ==
  /\ pc = "inputs" /\ index > 0
  /\ unallocated' = [i \in DOMAIN entries |->
                       Wrap(unallocated[i] + Of(balances[out], i))]
  /\ balances' = [o \in DOMAIN balances \ {out} |-> balances[o]]
  /\ UNCHANGED <<block, entries, cuneToId, reservedCunes, pc, stone,
                 allocation, minted, premineAmount, allocated, edicts, burned>>

-----------------------------------------------------------------------------
(* The cunestone                                                           *)

(* decipher's check that the whole supply fits in a u128.                  *)
SupplyOverflows(etching) ==
  \E t \in etching.terms : \E c \in t.cap, l \in t.limit :
    etching.premine + c * Lesser(l, MaxLimit) > U128Max

NameTakenIgnored(etching) ==  \* a mutant: forgets to look the name up
  \A c \in etching.cune : c >= Minimum(height) /\ c < Reserved

(* Whether the etching may have the cune it names.                         *)
NameValid(etching) ==
  \A c \in etching.cune :
    c >= Minimum(height) /\ c < Reserved /\ c \notin DOMAIN cuneToId

Clamped(terms) ==
  {[t EXCEPT !.limit = {Lesser(l, MaxLimit) : l \in t.limit}] : t \in terms}

GivenCune(etching) ==
  IF etching.cune = {} THEN Reserved + reservedCunes ELSE Only(etching.cune)

(* The Option<Allocation> of a cunestone with this Option<Etching>.        *)
Allocate(etching) ==
  {[id |-> block, cune |-> GivenCune(e), terms |-> Clamped(e.terms),
    balance |-> U128Max] :
     e \in {e \in etching : NameValid(e) /\ index <= MaxIndex}}

(* No cunestone: everything goes to the default output.                    *)
NoCunestone ==
  /\ pc = "inputs"
  /\ pc' = "assign"
  /\ UNCHANGED <<block, tables, stone, work>>

(* A cunestone of these fields.  A malformed one is a cenotaph, and so is  *)
(* one whose supply could overflow.                                        *)
Cunestone(malformed, default, etching) ==
  /\ pc = "inputs"
  /\ TRUE \in {outputs[v] : v \in 1 .. Len(outputs)}
  /\ cenotaph' = (malformed \/ \E e \in etching : SupplyOverflows(e))
  /\ pointer' = default
  /\ premine' = IF etching = {} THEN 0 ELSE Only(etching).premine
  /\ allocation' = Allocate(etching)
  /\ reservedCunes' = IF \E e \in etching : e.cune = {}
                        THEN reservedCunes + 1 ELSE reservedCunes
  /\ allocated' = [v \in 1 .. Len(outputs) |->
                     None(DOMAIN entries \cup {a.id : a \in allocation'})]
  /\ burned' = None(DOMAIN entries \cup {a.id : a \in allocation'})
  /\ pc' = IF cenotaph' THEN "assign" ELSE "edicts"
  /\ UNCHANGED <<block, entries, cuneToId, balances, outputs, unallocated,
                 minted, premineAmount, edicts>>

-----------------------------------------------------------------------------
(* Edicts                                                                  *)

(* CuneEntry::mintable, start and end: the Option of the limit.            *)
Mintable(id) ==
  LET open(t) ==
        /\ \A s \in t.start \cup {id[1] + o : o \in t.startOffset} : height >= s
        /\ \A e \in t.end \cup {id[1] + o : o \in t.endOffset} : height < e
        /\ IF t.cap = {} THEN entries[id].mints < U128Max
                         ELSE \A c \in t.cap : entries[id].mints < c
  IN  {IF t.limit = {} THEN 0 ELSE Only(t.limit) :
         t \in {t \in UNION {entries[i].terms : i \in DOMAIN entries \cap {id}} :
                  open(t)}}

(* What an edict takes of the balance it refers to.                        *)
Share(asked, balance) ==
  IF asked = 0 THEN balance ELSE Lesser(asked, balance)

Give(output, id, amount) ==
  allocated' = [allocated EXCEPT ![output + 1][id] = Wrap(@ + amount)]

(* Id 0: the cunes of this transaction's etching.                          *)
EdictOfIssue(asked, output) ==
  \E a \in allocation :
    LET amount == Share(asked, a.balance)
    IN  /\ allocation' = {[a EXCEPT !.balance = @ - amount]}
        /\ premineAmount' = Wrap(premineAmount + asked)
        /\ Give(output, a.id, amount)
        /\ UNCHANGED <<unallocated, minted>>

EdictOfClaimAnew(id, asked, output) ==  \* a mutant: each edict has the limit
  \E limit \in Mintable(id) :
    LET amount == Share(asked, limit)
    IN  /\ minted' = [minted EXCEPT ![id] = @ + amount]
        /\ Give(output, id, amount)
        /\ UNCHANGED <<allocation, premineAmount, unallocated>>

(* An id with CLAIM_BIT: cunes minted by this transaction.                 *)
EdictOfClaim(id, asked, output) ==
  \E limit \in Mintable(id) :
    LET amount == Share(asked, limit - minted[id])
    IN  /\ minted' = [minted EXCEPT ![id] = @ + amount]
        /\ Give(output, id, amount)
        /\ UNCHANGED <<allocation, premineAmount, unallocated>>

(* Any other id: cunes of the inputs.                                      *)
EdictOfInputs(id, asked, output) ==
  LET amount == Share(asked, unallocated[id])
  IN  /\ unallocated' = [unallocated EXCEPT ![id] = @ - amount]
      /\ Give(output, id, amount)
      /\ UNCHANGED <<allocation, premineAmount, minted>>

(* The loop skips edicts of an output that is not there, the number of     *)
(* outputs included, and of an id with nothing to allocate.                *)
EdictSkipped(kind, id, output) ==
  /\ \/ output >= Len(outputs)
     \/ kind = "issue" /\ allocation = {}
     \/ kind = "claim" /\ Mintable(id) = {}
     \/ kind = "inputs" /\ id \notin DOMAIN entries
  /\ UNCHANGED <<allocation, premineAmount, unallocated, minted, allocated>>

Edict(kind, id, asked, output) ==
  \/ EdictSkipped(kind, id, output)
  \/ /\ output < Len(outputs)
     /\ \/ kind = "issue" /\ EdictOfIssue(asked, output)
        \/ kind = "claim" /\ EdictOfClaim(id, asked, output)
        \/ kind = "inputs" /\ id \in DOMAIN entries /\ EdictOfInputs(id, asked, output)

ReadEdict(kind, id, asked, output) ==
  /\ pc = "edicts"
  /\ edicts < MaxEdicts
  /\ edicts' = edicts + 1
  /\ Edict(kind, id, asked, output)
  /\ UNCHANGED <<block, tables, pc, stone, burned>>

(* The premine is an edict that decipher appends to the others: id 0, to   *)
(* output 1.                                                               *)
EndEdicts ==
  /\ pc = "edicts"
  /\ IF premine > 0
       THEN Edict("issue", block, premine, 1)
       ELSE UNCHANGED <<allocation, premineAmount, unallocated, minted,
                        allocated>>
  /\ pc' = "assign"
  /\ premine' = 0 /\ edicts' = 0
  /\ UNCHANGED <<block, tables, outputs, cenotaph, pointer, burned>>

-----------------------------------------------------------------------------
(* After the edicts                                                        *)

(* A minted entry: one mint for the transaction, whatever its edicts.      *)
AfterMint(entry, amount) ==
  IF amount = 0 THEN entry
  ELSE [entry EXCEPT !.supply = Wrap(@ + amount), !.mints = Wrap(@ + 1)]

(* The entry of an etching; a cenotaph's cune has no terms.                *)
Etched(a) ==
  [cune |-> a.cune,
   terms |-> IF cenotaph THEN {} ELSE a.terms,
   mints |-> 0,
   premine |-> premineAmount,
   supply |-> Wrap(U128Max - a.balance - premineAmount),
   burned |-> 0]

EntriesAfter ==
  [i \in Known |->
     IF i \in DOMAIN entries THEN AfterMint(entries[i], minted[i])
     ELSE Etched(Only(allocation))]

PlainOutputs == {v \in 1 .. Len(outputs) : ~outputs[v]}

(* The output what is left goes to, if there is one: the pointer's, or the *)
(* first that is no OP_RETURN.                                             *)
DefaultOutput ==
  LET pointed == {p + 1 : p \in {p \in pointer : p < Len(outputs)}}
  IN  IF pointed # {} THEN pointed
      ELSE {v \in PlainOutputs : \A w \in PlainOutputs : v <= w}

AssignUnburned ==  \* a mutant: what no output can take is forgotten
  /\ burned' = IF cenotaph THEN [i \in Known |-> Of(unallocated, i)] ELSE burned
  /\ allocated' = [v \in DOMAIN allocated |->
                    IF ~cenotaph /\ v \in DefaultOutput
                      THEN [i \in Known |->
                              Wrap(allocated[v][i] + Of(unallocated, i))]
                      ELSE allocated[v]]

(* Lines 349 to 381: what is left is assigned to an output, or burned.     *)
AssignRest ==
  IF cenotaph \/ DefaultOutput = {}
    THEN /\ burned' = [i \in Known |-> Of(unallocated, i)]
         /\ UNCHANGED allocated
    ELSE /\ allocated' = [v \in DOMAIN allocated |->
              IF v \in DefaultOutput
                THEN [i \in Known |->
                        Wrap(allocated[v][i] + Of(unallocated, i))]
                ELSE allocated[v]]
         /\ UNCHANGED burned

Assign ==
  /\ pc = "assign"
  /\ pc' = "store"
  /\ entries' = EntriesAfter
  /\ cuneToId' = [c \in DOMAIN cuneToId \cup {a.cune : a \in allocation} |->
                    IF c \in DOMAIN cuneToId THEN cuneToId[c] ELSE block]
  /\ AssignRest
  /\ allocation' = {}
  /\ unallocated' = Empty
  /\ minted' = Empty
  /\ cenotaph' = FALSE /\ pointer' = {} /\ premine' = 0 /\ premineAmount' = 0
  /\ UNCHANGED <<block, reservedCunes, balances, outputs, edicts>>

Outpoint(v) == <<height, index, v>>

(* The next output is stored: its balances go to the table, or are burned  *)
(* if it is an OP_RETURN.                                                  *)
StoreOutput ==
  /\ pc = "store"
  /\ outputs # << >>
  /\ LET v == Len(outputs)
     IN  /\ IF outputs[v]
              THEN /\ burned' = [i \in DOMAIN burned |->
                                   Wrap(burned[i] + allocated[v][i])]
                   /\ UNCHANGED balances
              ELSE /\ UNCHANGED burned
                   /\ balances' =
                        IF \A i \in DOMAIN allocated[v] : allocated[v][i] = 0
                          THEN balances
                          ELSE [o \in DOMAIN balances \cup {Outpoint(v)} |->
                                  IF o = Outpoint(v) THEN allocated[v]
                                                     ELSE balances[o]]
         /\ outputs' = SubSeq(outputs, 1, v - 1)
         /\ allocated' = [w \in 1 .. v - 1 |-> allocated[w]]
  /\ UNCHANGED <<block, entries, cuneToId, reservedCunes, pc, cenotaph,
                 pointer, premine, allocation, unallocated, minted,
                 premineAmount, edicts>>

(* Lines 420 to 426, with an unwrap for each burned id.                    *)
AddBurned ==
  /\ pc = "store"
  /\ outputs = << >>
  /\ entries' = [i \in DOMAIN entries |->
                   [entries[i] EXCEPT !.burned = Wrap(@ + burned[i])]]
  /\ pc' = "idle"
  /\ index' = index + 1
  /\ burned' = Empty
  /\ UNCHANGED <<height, cuneToId, reservedCunes, balances, stone, allocation,
                 unallocated, minted, premineAmount, allocated, edicts>>

-----------------------------------------------------------------------------
Transaction ==
  \/ \E outs \in Shapes : NextTransaction(outs)
  \/ \E out \in DOMAIN balances : SpendInput(out)
  \/ NoCunestone
  \/ \E malformed \in BOOLEAN, default \in Options(Pointers),
        etching \in Options(Etching) : Cunestone(malformed, default, etching)
  \/ EndEdicts
  \/ Assign
  \/ StoreOutput
  \/ AddBurned

Next ==
  \/ NextBlock
  \/ Transaction
  \/ \E kind \in EdictKind, id \in DOMAIN entries \cup {block},
        asked \in Asked, output \in 0 .. Len(outputs) :
       ReadEdict(kind, id, asked, output)

Spec == Init /\ [][Next]_vars

-----------------------------------------------------------------------------
(* The tables and the work on a transaction are well formed: every edict,  *)
(* clamped by Share, leaves a balance of zero or more.                     *)
TypeOK ==
  /\ height \in Nat /\ index \in Nat /\ reservedCunes \in Nat
  /\ DOMAIN entries \subseteq Id /\ entries \in [DOMAIN entries -> Entry]
  /\ cuneToId \in [DOMAIN cuneToId -> Id] /\ DOMAIN cuneToId \subseteq Nat
  /\ \A o \in DOMAIN balances : IsPile(balances[o], DOMAIN balances[o])
                               /\ DOMAIN balances[o] \subseteq DOMAIN entries
  /\ pc \in {"idle", "inputs", "edicts", "assign", "store"}
  /\ outputs \in Seq(BOOLEAN) /\ cenotaph \in BOOLEAN
  /\ pointer \in Option(Nat) /\ premine \in Amount /\ premineAmount \in Amount
  /\ edicts \in Nat
  /\ allocation \in Option(Allocation)
  /\ pc \in {"inputs", "edicts", "assign"} =>
       IsPile(unallocated, DOMAIN entries) /\ IsPile(minted, DOMAIN entries)
  /\ pc # "idle" =>
       /\ IsPile(burned, Known)
       /\ allocated \in [1 .. Len(outputs) -> [Known -> Amount]]

(* A cune is etched once: the two tables are inverses of each other, and   *)
(* the reserved cunes given out are those below the counter, although      *)
(* etchings that are ignored move it too.                                  *)
NamesAreUnique ==
  /\ \A i \in DOMAIN entries : entries[i].cune \in DOMAIN cuneToId
                              /\ cuneToId[entries[i].cune] = i
  /\ \A c \in DOMAIN cuneToId : cuneToId[c] \in DOMAIN entries
                               /\ entries[cuneToId[c]].cune = c
                               /\ c < Reserved + reservedCunes

(* What the piles of a table hold of a cune.                               *)
Total(piles, id) ==
  SumFunctionOnSet([x \in DOMAIN piles |-> Of(piles[x], id)], DOMAIN piles)

(* What the outpoints and the transaction under way hold of a cune.        *)
Held(id) ==
  Total(balances, id) + Of(unallocated, id) + Total(allocated, id)
    + Of(burned, id)

(* What there is of it: what the entry says and what the edicts so far     *)
(* minted, or what was taken of an issue without an entry yet.             *)
Issue(id) ==
  IF id \in DOMAIN entries
    THEN entries[id].supply + entries[id].premine - entries[id].burned
           + Of(minted, id)
    ELSE U128Max - Only(allocation).balance

(* Cunes are neither made nor lost, modulo 2^128: at every step of every   *)
(* transaction what outputs hold, with what is burned, is what was issued. *)
Conserved == \A id \in Known : Wrap(Held(id) - Issue(id)) = 0

(* A transaction mints a cune at most once, within the cap and the window  *)
(* of heights of its terms and for no more than their limit, however many  *)
(* claims its edicts make; nothing else changes the supply of a cune.      *)
MintsFollowTerms ==
  [][\A i \in DOMAIN entries :
       \/ entries'[i] = [entries[i] EXCEPT !.burned = entries'[i].burned]
       \/ /\ entries'[i].mints = entries[i].mints + 1
          /\ \E limit \in Mintable(i) :
               \E amount \in 1 .. limit :
                 entries'[i].supply = Wrap(entries[i].supply + amount)
          /\ \E t \in entries[i].terms : \A c \in t.cap : entries'[i].mints <= c]_vars
=============================================================================
