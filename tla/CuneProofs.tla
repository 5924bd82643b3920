------------------------------ MODULE CuneProofs ------------------------------
(* Theorems about the cune ledger, for all names, terms and transactions.  *)
EXTENDS CuneLedger, SumTheorems, SequenceTheorems

(* The cune being etched has a fresh id and a fresh name.                  *)
IssueOK ==
  /\ pc \notin {"edicts", "assign"} => allocation = {}
  /\ \A a \in allocation :
       /\ a.id = block
       /\ a.cune \notin DOMAIN cuneToId
       /\ a.cune < Reserved + reservedCunes

(* The id of an entry is that of an earlier transaction.                   *)
Before(i) == i[1] < height \/ (i[1] = height /\ i[2] < index)

FreshOK == \A i \in DOMAIN entries : Before(i) \/ (pc = "store" /\ i = block)

(* The edicts so far have minted no more than the limit.                   *)
WithinLimit(m) ==
  \A i \in DOMAIN entries :
    m[i] > 0 => \E limit \in Mintable(i) : m[i] <= limit

MintsOK == pc \in {"inputs", "edicts", "assign"} => WithinLimit(minted)

IInv == TypeOK /\ NamesAreUnique /\ IssueOK /\ FreshOK /\ MintsOK

-----------------------------------------------------------------------------
(* Amounts, options and piles                                              *)

(* Wrapped arithmetic stays within u128.                                   *)
LEMMA WrapIsAmount ==
  ASSUME NEW n \in Int
  PROVE  Wrap(n) \in Amount
BY CuneAssumption DEF Wrap, Amount

(* and is the arithmetic of integers as long as that does.                 *)
LEMMA WrapSmall ==
  ASSUME NEW n \in Amount
  PROVE  Wrap(n) = n
BY CuneAssumption, SMTT(30) DEF Wrap, Amount

(* What an edict takes is no more than there is.                           *)
LEMMA ShareBounds ==
  ASSUME NEW asked \in Amount, NEW balance \in Amount
  PROVE  Share(asked, balance) \in Amount /\ Share(asked, balance) <= balance
BY CuneAssumption DEF Share, Lesser, Amount

(* A looked up balance is an amount, present or not.                       *)
LEMMA OfIsAmount ==
  ASSUME NEW f, f \in [DOMAIN f -> Amount], NEW i
  PROVE  Of(f, i) \in Amount
BY CuneAssumption DEF Of, Amount

(* The empty pile is a pile.                                               *)
LEMMA NoneIsPile ==
  ASSUME NEW ids
  PROVE  IsPile(None(ids), ids)
BY CuneAssumption DEF IsPile, None, Amount

(* The two forms of an Option.                                             *)
LEMMA OptionForms ==
  ASSUME NEW S
  PROVE  /\ {} \in Option(S)
         /\ \A x \in S : {x} \in Option(S)
BY DEF Option

(* The element of a set that is not empty is in it.                        *)
LEMMA OnlyIn ==
  ASSUME NEW S, S # {}
  PROVE  Only(S) \in S
BY Zenon DEF Only

(* The limit of an open mint is that of the entry's terms.                 *)
LEMMA MintableLimit ==
  ASSUME TypeOK, NEW id, NEW limit \in Mintable(id)
  PROVE  /\ id \in DOMAIN entries
         /\ limit \in Amount
         /\ \E t \in entries[id].terms :
              IF t.cap = {} THEN entries[id].mints < U128Max
                            ELSE \A c \in t.cap : entries[id].mints < c
<1>1. PICK t \in UNION {entries[i].terms : i \in DOMAIN entries \cap {id}} :
        /\ limit = IF t.limit = {} THEN 0 ELSE Only(t.limit)
        /\ IF t.cap = {} THEN entries[id].mints < U128Max
                         ELSE \A c \in t.cap : entries[id].mints < c
  BY DEF Mintable
<1>2. id \in DOMAIN entries /\ t \in entries[id].terms
  BY <1>1
<1>3. entries[id].terms \in Option(TermsType)
  BY <1>2 DEF TypeOK, Entry
<1>4. t \in TermsType
  BY <1>2, <1>3 DEF Option
<1>5. t.limit \subseteq Amount
  BY <1>4 DEF TermsType, Option
<1>6. limit \in Amount
  BY <1>1, <1>5, OnlyIn, CuneAssumption DEF Amount
<1> QED BY <1>1, <1>2, <1>6

(* An open mint has one limit.                                             *)
LEMMA OneLimit ==
  ASSUME TypeOK, NEW id, NEW k \in Mintable(id), NEW l \in Mintable(id)
  PROVE  k = l
<1>1. id \in DOMAIN entries
  BY MintableLimit
<1>2. entries[id].terms \in Option(TermsType)
  BY <1>1 DEF TypeOK, Entry
<1>3. PICK s \in entries[id].terms :
        k = IF s.limit = {} THEN 0 ELSE Only(s.limit)
  BY DEF Mintable
<1>4. PICK t \in entries[id].terms :
        l = IF t.limit = {} THEN 0 ELSE Only(t.limit)
  BY DEF Mintable
<1>5. s = t
  BY <1>2, <1>3, <1>4 DEF Option
<1> QED BY <1>3, <1>4, <1>5

-----------------------------------------------------------------------------
(* Edicts                                                                  *)

(* What every edict, skipped or not, leaves of the work on a transaction.  *)
EdictLeaves ==
  /\ allocation' \in Option(Allocation)
  /\ Issued' = Issued
  /\ \A a \in allocation' : \E b \in allocation : a.id = b.id /\ a.cune = b.cune
  /\ premineAmount' \in Amount
  /\ IsPile(unallocated', DOMAIN entries)
  /\ IsPile(minted', DOMAIN entries)
  /\ WithinLimit(minted')
  /\ allocated' \in [1 .. Len(outputs) -> [Known -> Amount]]

(* Allocating an amount keeps the outputs' piles piles.                    *)
LEMMA GiveKeepsPiles ==
  ASSUME TypeOK, pc = "edicts", NEW output \in Nat, output < Len(outputs),
         NEW id \in Known, NEW amount \in Amount, Give(output, id, amount)
  PROVE  allocated' \in [1 .. Len(outputs) -> [Known -> Amount]]
<1>1. allocated \in [1 .. Len(outputs) -> [Known -> Amount]]
  BY DEF TypeOK
<1>2. Len(outputs) \in Nat
  BY DEF TypeOK
<1>3. output + 1 \in 1 .. Len(outputs)
  BY <1>2
<1>4. allocated[output + 1] \in [Known -> Amount]
  BY <1>1, <1>3
<1>5. allocated[output + 1][id] \in Amount
  BY <1>4
<1>6. allocated[output + 1][id] + amount \in Int
  BY <1>5, CuneAssumption DEF Amount
<1>7. Wrap(allocated[output + 1][id] + amount) \in Amount
  BY <1>6, WrapIsAmount
<1>8. [allocated[output + 1] EXCEPT ![id] = Wrap(@ + amount)] \in [Known -> Amount]
  BY <1>4, <1>7
<1>9. allocated' = [allocated EXCEPT ![output + 1] =
                      [allocated[output + 1] EXCEPT ![id] = Wrap(@ + amount)]]
  BY DEF Give
<1> QED BY <1>1, <1>3, <1>8, <1>9

(* Any edict of the loop.                                                  *)
LEMMA EdictStep ==
  ASSUME TypeOK, MintsOK, pc = "edicts", NEW kind, NEW id,
         NEW asked \in Amount, NEW output \in Nat,
         Edict(kind, id, asked, output)
  PROVE  EdictLeaves
<1>1. /\ IsPile(unallocated, DOMAIN entries) /\ IsPile(minted, DOMAIN entries)
      /\ WithinLimit(minted)
      /\ allocated \in [1 .. Len(outputs) -> [Known -> Amount]]
      /\ allocation \in Option(Allocation)
      /\ premineAmount \in Amount
  BY DEF TypeOK, MintsOK
<1>2. CASE EdictSkipped(kind, id, output)
  <2>1. /\ allocation' = allocation /\ premineAmount' = premineAmount
        /\ unallocated' = unallocated /\ minted' = minted
        /\ allocated' = allocated
    BY <1>2 DEF EdictSkipped
  <2>2. Issued' = Issued
    BY <2>1 DEF Issued
  <2>3. WithinLimit(minted')
    BY <1>1, <2>1
  <2> QED BY <1>1, <2>1, <2>2, <2>3 DEF EdictLeaves
<1>3. CASE output < Len(outputs) /\ EdictOfIssue(asked, output)
  <2>1. PICK a \in allocation :
          LET amount == Share(asked, a.balance)
          IN  /\ allocation' = {[a EXCEPT !.balance = @ - amount]}
              /\ premineAmount' = Wrap(premineAmount + asked)
              /\ Give(output, a.id, amount)
              /\ UNCHANGED <<unallocated, minted>>
    BY <1>3 DEF EdictOfIssue
  <2>2. a \in Allocation /\ allocation = {a}
    BY <1>1, <2>1 DEF Option
  <2>3. a.balance \in Amount
    BY <2>2 DEF Allocation
  <2>4. Share(asked, a.balance) \in Amount /\ Share(asked, a.balance) <= a.balance
    BY <2>3, ShareBounds
  <2>5. a.balance - Share(asked, a.balance) \in Amount
    BY <2>3, <2>4, CuneAssumption DEF Amount
  <2> DEFINE b == [a EXCEPT !.balance = @ - Share(asked, a.balance)]
  <2>6. b \in Allocation /\ b.id = a.id /\ b.cune = a.cune
    BY <2>2, <2>5 DEF Allocation
  <2>7. allocation' = {b}
    BY <2>1
  <2>8. allocation' \in Option(Allocation)
    BY <2>6, <2>7, OptionForms
  <2>9. Issued' = Issued
    BY <2>2, <2>6, <2>7 DEF Issued
  <2>10. a.id \in Known
    BY <2>1 DEF Known, Issued
  <2>11. allocated' \in [1 .. Len(outputs) -> [Known -> Amount]]
    BY <1>3, <2>1, <2>4, <2>10, GiveKeepsPiles
  <2>12. premineAmount' \in Amount
    <3>1. premineAmount + asked \in Int
      BY <1>1, CuneAssumption DEF Amount
    <3> QED BY <2>1, <3>1, WrapIsAmount
  <2>13. WithinLimit(minted')
    BY <1>1, <2>1
  <2> QED BY <1>1, <2>1, <2>2, <2>6, <2>7, <2>8, <2>9, <2>11, <2>12, <2>13
          DEF EdictLeaves
<1>4. CASE output < Len(outputs) /\ EdictOfClaim(id, asked, output)
  <2>1. PICK limit \in Mintable(id) :
          LET amount == Share(asked, limit - minted[id])
          IN  /\ minted' = [minted EXCEPT ![id] = @ + amount]
              /\ Give(output, id, amount)
              /\ UNCHANGED <<allocation, premineAmount, unallocated>>
    BY <1>4 DEF EdictOfClaim
  <2>2. id \in DOMAIN entries /\ limit \in Amount
    BY <2>1, MintableLimit
  <2>3. minted[id] \in Amount
    BY <1>1, <2>2 DEF IsPile
  <2>4. minted[id] <= limit
    <3>1. CASE minted[id] = 0
      BY <3>1, <2>2 DEF Amount
    <3>2. CASE minted[id] > 0
      <4>1. PICK l \in Mintable(id) : minted[id] <= l
        BY <1>1, <2>2, <3>2 DEF WithinLimit
      <4>2. l = limit
        BY <1>1, <2>1, <2>2, <4>1, OneLimit
      <4> QED BY <4>1, <4>2
    <3> QED BY <2>3, <3>1, <3>2 DEF Amount
  <2> DEFINE amount == Share(asked, limit - minted[id])
  <2>5. limit - minted[id] \in Amount
    BY <2>2, <2>3, <2>4, CuneAssumption DEF Amount
  <2>6. amount \in Amount /\ amount <= limit - minted[id]
    BY <2>5, ShareBounds
  <2>7. minted[id] + amount \in Amount /\ minted[id] + amount <= limit
    BY <2>2, <2>3, <2>5, <2>6, CuneAssumption, SMTT(30) DEF Amount
  <2>8. minted' = [minted EXCEPT ![id] = minted[id] + amount]
    BY <2>1
  <2> HIDE DEF amount
  <2>9. IsPile(minted', DOMAIN entries)
    BY <1>1, <2>2, <2>7, <2>8 DEF IsPile
  <2>10. WithinLimit(minted')
    <3> SUFFICES ASSUME NEW i \in DOMAIN entries, minted'[i] > 0
                 PROVE  \E l \in Mintable(i) : minted'[i] <= l
      BY DEF WithinLimit
    <3>1. CASE i = id
      BY <1>1, <2>1, <2>7, <2>8, <3>1 DEF IsPile
    <3>2. CASE i # id
      <4>1. minted'[i] = minted[i]
        BY <1>1, <2>8, <3>2 DEF IsPile
      <4> QED BY <1>1, <4>1 DEF WithinLimit
    <3> QED BY <3>1, <3>2
  <2>11. id \in Known
    BY <2>2 DEF Known
  <2>12. allocated' \in [1 .. Len(outputs) -> [Known -> Amount]]
    BY <1>4, <2>1, <2>6, <2>11, GiveKeepsPiles DEF amount
  <2>13. allocation' = allocation /\ premineAmount' = premineAmount
           /\ unallocated' = unallocated
    BY <2>1
  <2>14. Issued' = Issued
    BY <2>13 DEF Issued
  <2> QED BY <1>1, <2>9, <2>10, <2>12, <2>13, <2>14 DEF EdictLeaves
<1>5. CASE output < Len(outputs) /\ id \in DOMAIN entries
             /\ EdictOfInputs(id, asked, output)
  <2> DEFINE amount == Share(asked, unallocated[id])
  <2>1. /\ unallocated' = [unallocated EXCEPT ![id] = unallocated[id] - amount]
        /\ Give(output, id, amount)
        /\ allocation' = allocation /\ premineAmount' = premineAmount
        /\ minted' = minted
    BY <1>1, <1>5 DEF EdictOfInputs, IsPile
  <2>2. unallocated[id] \in Amount
    BY <1>1, <1>5 DEF IsPile
  <2>3. amount \in Amount /\ amount <= unallocated[id]
    BY <2>2, ShareBounds
  <2>4. unallocated[id] - amount \in Amount
    BY <2>2, <2>3, CuneAssumption DEF Amount
  <2> HIDE DEF amount
  <2>5. IsPile(unallocated', DOMAIN entries)
    BY <1>1, <1>5, <2>1, <2>4 DEF IsPile
  <2>6. id \in Known
    BY <1>5 DEF Known
  <2>7. allocated' \in [1 .. Len(outputs) -> [Known -> Amount]]
    BY <1>5, <2>1, <2>3, <2>6, GiveKeepsPiles
  <2>8. Issued' = Issued
    BY <2>1 DEF Issued
  <2>9. WithinLimit(minted')
    BY <1>1, <2>1
  <2> QED BY <1>1, <2>1, <2>5, <2>7, <2>8, <2>9 DEF EdictLeaves
<1> QED BY <1>2, <1>3, <1>4, <1>5 DEF Edict

-----------------------------------------------------------------------------
(* The inductive invariant                                                 *)

(* The tables are empty at first.                                          *)
LEMMA InitIsGood == Init => IInv
<1> SUFFICES ASSUME Init PROVE IInv
  OBVIOUS
<1>1. DOMAIN entries = {} /\ DOMAIN cuneToId = {} /\ DOMAIN balances = {}
  BY DEF Init, Empty, None
<1>2. TypeOK
  <2>1. /\ entries \in [DOMAIN entries -> Entry]
        /\ cuneToId \in [DOMAIN cuneToId -> Id]
    BY <1>1 DEF Init, Empty, None
  <2>2. /\ allocation \in Option(Allocation) /\ pointer \in Option(Nat)
        /\ premine \in Amount /\ premineAmount \in Amount
    BY OptionForms, CuneAssumption DEF Init, Amount
  <2>3. << >> \in Seq(BOOLEAN)
    BY EmptySeq
  <2> QED BY <1>1, <2>1, <2>2, <2>3 DEF Init, TypeOK
<1>3. NamesAreUnique
  BY <1>1 DEF NamesAreUnique
<1>4. IssueOK /\ FreshOK /\ MintsOK
  BY <1>1 DEF Init, IssueOK, FreshOK, MintsOK
<1> QED BY <1>2, <1>3, <1>4 DEF IInv

(* A new block, whose ids are all new.                                     *)
LEMMA NextBlockKeeps == IInv /\ NextBlock => IInv'
<1> SUFFICES ASSUME IInv, NextBlock PROVE IInv'
  OBVIOUS
<1> USE DEF NextBlock, block, tables, stone, work
<1>1. TypeOK'
  BY DEF IInv, TypeOK, Known, Issued, IsPile
<1>2. NamesAreUnique'
  BY DEF IInv, NamesAreUnique
<1>3. IssueOK'
  BY DEF IInv, IssueOK
<1>4. FreshOK'
  <2> SUFFICES ASSUME NEW i \in DOMAIN entries PROVE Before(i)'
    BY DEF FreshOK
  <2>1. Before(i)
    BY DEF IInv, FreshOK
  <2>2. i \in Id /\ height \in Nat
    BY DEF IInv, TypeOK
  <2> QED BY <2>1, <2>2 DEF Before, Id
<1>5. MintsOK'
  BY DEF MintsOK
<1> QED BY <1>1, <1>2, <1>3, <1>4, <1>5 DEF IInv

(* A transaction begins with nothing allocated.                            *)
LEMMA NextTransactionKeeps ==
  ASSUME IInv, NEW outs \in Shapes, NextTransaction(outs)
  PROVE  IInv'
<1> USE DEF NextTransaction, block, tables
<1>1. TypeOK'
  <2>1. outs \in Seq(BOOLEAN)
    BY CuneAssumption
  <2>2. Known' = DOMAIN entries
    BY DEF Known, Issued
  <2>3. IsPile(None(DOMAIN entries), DOMAIN entries)
    BY NoneIsPile
  <2>4. /\ allocation' \in Option(Allocation) /\ pointer' \in Option(Nat)
        /\ premine' \in Amount /\ premineAmount' \in Amount
    BY OptionForms, CuneAssumption DEF Amount
  <2>5. allocated' \in [1 .. Len(outputs') -> [Known' -> Amount]]
    BY <2>2, <2>3 DEF IsPile
  <2>6. /\ IsPile(unallocated', DOMAIN entries') /\ IsPile(minted', DOMAIN entries')
        /\ IsPile(burned', Known')
    BY <2>2, <2>3
  <2>7. /\ height' \in Nat /\ index' \in Nat /\ reservedCunes' \in Nat
        /\ DOMAIN entries' \subseteq Id /\ entries' \in [DOMAIN entries' -> Entry]
        /\ cuneToId' \in [DOMAIN cuneToId' -> Id] /\ DOMAIN cuneToId' \subseteq Nat
        /\ \A o \in DOMAIN balances' : IsPile(balances'[o], DOMAIN balances'[o])
                                 /\ DOMAIN balances'[o] \subseteq DOMAIN entries'
    BY DEF IInv, TypeOK
  <2> QED BY <2>1, <2>4, <2>5, <2>6, <2>7 DEF TypeOK
<1>2. NamesAreUnique'
  BY DEF IInv, NamesAreUnique
<1>3. IssueOK'
  BY DEF IssueOK
<1>4. FreshOK'
  BY DEF IInv, FreshOK, Before
<1>5. MintsOK'
  BY DEF MintsOK, WithinLimit, None
<1> QED BY <1>1, <1>2, <1>3, <1>4, <1>5 DEF IInv

(* An input moves from the table to what is unallocated.                   *)
LEMMA SpendInputKeeps ==
  ASSUME IInv, NEW out \in DOMAIN balances, SpendInput(out)
  PROVE  IInv'
<1> USE DEF SpendInput, block, stone
<1>1. TypeOK'
  <2>1. IsPile(unallocated', DOMAIN entries)
    <3> SUFFICES ASSUME NEW i \in DOMAIN entries
                 PROVE  Wrap(unallocated[i] + Of(balances[out], i)) \in Amount
      BY DEF IsPile
    <3>1. unallocated[i] \in Amount
      BY DEF IInv, TypeOK, IsPile
    <3>2. Of(balances[out], i) \in Amount
      BY OfIsAmount DEF IInv, TypeOK, IsPile
    <3>3. unallocated[i] + Of(balances[out], i) \in Int
      BY <3>1, <3>2, CuneAssumption DEF Amount
    <3> QED BY <3>3, WrapIsAmount
  <2>2. \A o \in DOMAIN balances' :
          /\ o \in DOMAIN balances /\ balances'[o] = balances[o]
    OBVIOUS
  <2>3. Known' = Known
    BY DEF Known, Issued
  <2> QED BY <2>1, <2>2, <2>3 DEF IInv, TypeOK
<1>2. NamesAreUnique'
  BY DEF IInv, NamesAreUnique
<1>3. IssueOK'
  BY DEF IInv, IssueOK
<1>4. FreshOK'
  BY DEF IInv, FreshOK, Before
<1>5. MintsOK'
  BY SMTT(30) DEF IInv, MintsOK, WithinLimit, Mintable
<1> QED BY <1>1, <1>2, <1>3, <1>4, <1>5 DEF IInv

(* Without a cunestone nothing is allocated.                               *)
LEMMA NoCunestoneKeeps == IInv /\ NoCunestone => IInv'
<1> SUFFICES ASSUME IInv, NoCunestone PROVE IInv'
  OBVIOUS
<1> USE DEF NoCunestone, block, tables, stone, work
<1>1. TypeOK'
  BY DEF IInv, TypeOK, Known, Issued, IsPile
<1>2. NamesAreUnique'
  BY DEF IInv, NamesAreUnique
<1>3. IssueOK'
  BY DEF IInv, IssueOK
<1>4. FreshOK'
  BY DEF IInv, FreshOK, Before
<1>5. MintsOK'
  BY DEF IInv, MintsOK, WithinLimit, Mintable
<1> QED BY <1>1, <1>2, <1>3, <1>4, <1>5 DEF IInv

(* The allocation of an etching has a new id and a cune nobody has.        *)
LEMMA AllocateOK ==
  ASSUME TypeOK, NamesAreUnique, NEW etching \in Options(Etching)
  PROVE  /\ Allocate(etching) \in Option(Allocation)
         /\ \A a \in Allocate(etching) :
              /\ a.id = block
              /\ a.cune \notin DOMAIN cuneToId
              /\ a.cune < Reserved + (IF \E e \in etching : e.cune = {}
                                        THEN reservedCunes + 1 ELSE reservedCunes)
<1>1. CASE Allocate(etching) = {}
  BY <1>1, OptionForms
<1>2. CASE Allocate(etching) # {}
  <2>1. PICK e \in etching : NameValid(e) /\ index <= MaxIndex
    BY <1>2 DEF Allocate
  <2>2. etching = {e} /\ e \in Etching
    BY <2>1 DEF Options
  <2> DEFINE a == [id |-> block, cune |-> GivenCune(e), terms |-> Clamped(e.terms),
                   balance |-> U128Max]
  <2>3. Allocate(etching) = {a}
    BY <2>1, <2>2 DEF Allocate
  <2>4. /\ GivenCune(e) \in Nat
        /\ GivenCune(e) \notin DOMAIN cuneToId
        /\ GivenCune(e) < Reserved + (IF e.cune = {} THEN reservedCunes + 1
                                                     ELSE reservedCunes)
    <3>1. reservedCunes \in Nat /\ Reserved \in Nat
      BY CuneAssumption DEF TypeOK
    <3>2. CASE e.cune = {}
      BY <3>1, <3>2 DEF GivenCune, NamesAreUnique
    <3>3. CASE e.cune # {}
      <4>1. Only(e.cune) \in e.cune
        BY <3>3, OnlyIn
      <4>2. e.cune \subseteq Nat
        BY <2>2, CuneAssumption DEF Etching, Options
      <4>3. Only(e.cune) < Reserved /\ Only(e.cune) \notin DOMAIN cuneToId
        BY <2>1, <4>1 DEF NameValid
      <4> QED BY <3>1, <3>3, <4>1, <4>2, <4>3 DEF GivenCune
    <3> QED BY <3>2, <3>3
  <2>5. Clamped(e.terms) \in Option(TermsType)
    <3>1. CASE e.terms = {}
      <4>1. Clamped(e.terms) = {}
        BY <3>1 DEF Clamped
      <4> QED BY <4>1, OptionForms
    <3>2. CASE e.terms # {}
      <4>1. PICK t \in Terms : e.terms = {t}
        BY <2>2, <3>2 DEF Etching, Options
      <4>2. t \in TermsType
        BY CuneAssumption
      <4> DEFINE limit == {Lesser(l, MaxLimit) : l \in t.limit}
      <4>3. t.limit \in Option(Amount)
        BY <4>2 DEF TermsType
      <4>4. limit \in Option(Amount)
        BY <4>3, CuneAssumption DEF Option, Lesser, Amount
      <4>5. Clamped(e.terms) = {[t EXCEPT !.limit = limit]}
        BY <4>1 DEF Clamped
      <4> HIDE DEF limit
      <4>6. [t EXCEPT !.limit = limit] \in TermsType
        BY <4>2, <4>4 DEF TermsType
      <4> QED BY <4>5, <4>6, OptionForms
    <3> QED BY <3>1, <3>2
  <2>6. block \in Id /\ U128Max \in Amount
    BY CuneAssumption DEF TypeOK, block, Id, Amount
  <2>7. a \in Allocation
    BY <2>4, <2>5, <2>6 DEF Allocation
  <2>8. /\ a.id = block
        /\ a.cune \notin DOMAIN cuneToId
        /\ a.cune < Reserved + (IF e.cune = {} THEN reservedCunes + 1
                                              ELSE reservedCunes)
    BY <2>4
  <2> HIDE DEF a
  <2>9. Allocate(etching) \in Option(Allocation)
    BY <2>3, <2>7, OptionForms
  <2> QED BY <2>2, <2>3, <2>8, <2>9
<1> QED BY <1>1, <1>2

(* The limits of open mints depend on the entries and the height.          *)
LEMMA LimitsStay ==
  ASSUME entries' = entries, height' = height
  PROVE  \A id : Mintable(id)' = Mintable(id)
BY DEF Mintable

(* A cunestone: nothing is allocated yet.                                  *)
LEMMA CunestoneKeeps ==
  ASSUME IInv, NEW malformed \in BOOLEAN, NEW default \in Options(Pointers),
         NEW etching \in Options(Etching), Cunestone(malformed, default, etching)
  PROVE  IInv'
<1> USE DEF Cunestone, block
<1>1. /\ allocation' \in Option(Allocation)
      /\ \A a \in allocation' :
           /\ a.id = block
           /\ a.cune \notin DOMAIN cuneToId
           /\ a.cune < Reserved + reservedCunes'
  BY AllocateOK DEF IInv
<1>2. reservedCunes' \in Nat /\ reservedCunes' >= reservedCunes
  BY DEF IInv, TypeOK
<1>3. TypeOK'
  <2>1. Known' = DOMAIN entries \cup {a.id : a \in allocation'}
    BY DEF Known, Issued
  <2>2. IsPile(None(Known'), Known')
    BY NoneIsPile
  <2>3. IsPile(burned', Known')
    BY <2>1, <2>2
  <2>4. allocated' \in [1 .. Len(outputs) -> [Known' -> Amount]]
    BY <2>1, <2>2 DEF IsPile
  <2>5. pointer' \in Option(Nat)
    <3>1. pointer' = default /\ Pointers \subseteq Nat
      BY CuneAssumption
    <3>2. default = {} \/ \E p \in Nat : default = {p}
      BY ONLY <3>1, default \in Options(Pointers) DEF Options
    <3> QED BY ONLY <3>1, <3>2, OptionForms, Zenon
  <2>6. premine' \in Amount
    <3>1. CASE etching = {}
      BY <3>1, CuneAssumption DEF Amount
    <3>2. CASE etching # {}
      <4>1. Only(etching) \in Etching
        BY <3>2, OnlyIn DEF Options
      <4> QED BY <3>2, <4>1, CuneAssumption DEF Etching
    <3> QED BY <3>1, <3>2
  <2>7. cenotaph' \in BOOLEAN
    BY Zenon
  <2>8. pc' \in {"assign", "edicts"} /\ pc = "inputs"
    OBVIOUS
  <2> QED BY <1>1, <1>2, <2>3, <2>4, <2>5, <2>6, <2>7, <2>8 DEF IInv, TypeOK
<1>4. NamesAreUnique'
  <2>1. \A c \in DOMAIN cuneToId : c \in Nat /\ c < Reserved + reservedCunes
    BY DEF IInv, TypeOK, NamesAreUnique
  <2>2. reservedCunes \in Nat /\ Reserved \in Nat
    BY CuneAssumption DEF IInv, TypeOK
  <2>3. \A c \in DOMAIN cuneToId : c < Reserved + reservedCunes'
    BY <1>2, <2>1, <2>2
  <2> QED BY <2>3 DEF IInv, NamesAreUnique
<1>5. IssueOK'
  BY <1>1 DEF IssueOK
<1>6. FreshOK'
  BY DEF IInv, FreshOK, Before
<1>7. MintsOK'
  <2>1. entries' = entries /\ height' = height /\ minted' = minted /\ pc = "inputs"
    OBVIOUS
  <2>2. WithinLimit(minted)
    BY <2>1 DEF IInv, MintsOK
  <2> QED BY <2>1, <2>2, LimitsStay DEF MintsOK, WithinLimit
<1> QED BY <1>3, <1>4, <1>5, <1>6, <1>7 DEF IInv

(* What an edict leaves keeps the invariant while the tables stand still.  *)
LEMMA EdictKeeps ==
  ASSUME IInv, pc = "edicts", EdictLeaves,
         UNCHANGED <<block, tables, outputs, cenotaph, pointer, burned>>,
         pc' \in {"edicts", "assign"}, premine' \in Amount, edicts' \in Nat
  PROVE  IInv'
<1> USE DEF block, tables
<1>1. Known' = Known
  BY DEF EdictLeaves, Known
<1>2. TypeOK'
  BY <1>1 DEF IInv, TypeOK, EdictLeaves, IsPile
<1>3. NamesAreUnique'
  BY DEF IInv, NamesAreUnique
<1>4. IssueOK'
  BY DEF IInv, IssueOK, EdictLeaves
<1>5. FreshOK'
  BY DEF IInv, FreshOK, Before
<1>6. MintsOK'
  <2>1. entries' = entries /\ height' = height
    OBVIOUS
  <2> QED BY <2>1, LimitsStay DEF EdictLeaves, MintsOK, WithinLimit
<1> QED BY <1>2, <1>3, <1>4, <1>5, <1>6 DEF IInv

(* An edict of the cunestone.                                              *)
LEMMA ReadEdictKeeps ==
  ASSUME IInv, NEW kind, NEW id, NEW asked \in Asked,
         NEW output \in 0 .. Len(outputs), ReadEdict(kind, id, asked, output)
  PROVE  IInv'
<1>1. asked \in Amount /\ output \in Nat
  BY CuneAssumption
<1>2. EdictLeaves
  BY <1>1, EdictStep DEF ReadEdict, IInv
<1>3. premine' \in Amount /\ edicts' \in Nat
  BY DEF ReadEdict, stone, IInv, TypeOK
<1> QED BY <1>2, <1>3, EdictKeeps DEF ReadEdict, stone

(* The edict of the premine.                                               *)
LEMMA EndEdictsKeeps == IInv /\ EndEdicts => IInv'
<1> SUFFICES ASSUME IInv, EndEdicts PROVE IInv'
  OBVIOUS
<1>1. EdictLeaves
  <2>1. CASE premine > 0
    <3>1. Edict("issue", block, premine, 1)
      BY <2>1 DEF EndEdicts
    <3>2. premine \in Amount
      BY DEF IInv, TypeOK
    <3> QED BY <3>1, <3>2, EdictStep DEF IInv, EndEdicts
  <2>2. CASE ~(premine > 0)
    BY <2>2 DEF EndEdicts, EdictLeaves, IInv, TypeOK, MintsOK, Issued, IsPile
  <2> QED BY <2>1, <2>2
<1>2. premine' \in Amount /\ edicts' \in Nat
  BY CuneAssumption DEF EndEdicts, Amount
<1> QED BY <1>1, <1>2, EdictKeeps DEF EndEdicts

(* Entries and names get the new cune, what is left goes to an output.     *)
LEMMA AssignKeeps == IInv /\ Assign => IInv'
<1> SUFFICES ASSUME IInv, Assign PROVE IInv'
  OBVIOUS
<1> USE DEF Assign, block
<1>1. /\ pc = "assign" /\ pc' = "store" /\ allocation' = {}
      /\ outputs' = outputs /\ balances' = balances
      /\ height' = height /\ index' = index /\ reservedCunes' = reservedCunes
      /\ entries' = EntriesAfter
  OBVIOUS
<1>2. /\ DOMAIN entries' = Known
      /\ \A i \in DOMAIN entries : entries'[i] = AfterMint(entries[i], minted[i])
      /\ \A i \in Known \ DOMAIN entries : entries'[i] = Etched(Only(allocation))
  BY <1>1 DEF EntriesAfter, Known
<1>3. \A i \in DOMAIN entries : /\ entries[i] \in Entry
                               /\ minted[i] \in Amount
  BY <1>1 DEF IInv, TypeOK, IsPile
<1>4. \A i \in DOMAIN entries : entries'[i].cune = entries[i].cune
  BY <1>2, <1>3 DEF AfterMint, Entry
<1>5. \A a \in allocation : /\ allocation = {a} /\ a \in Allocation
                           /\ Only(allocation) = a
                           /\ Known = DOMAIN entries \cup {block}
                           /\ block \notin DOMAIN entries
  <2> SUFFICES ASSUME NEW a \in allocation
               PROVE  /\ allocation = {a} /\ a \in Allocation
                      /\ Only(allocation) = a
                      /\ Known = DOMAIN entries \cup {block}
                      /\ block \notin DOMAIN entries
    OBVIOUS
  <2>1. allocation = {a} /\ a \in Allocation
    BY DEF IInv, TypeOK, Option
  <2>2. Only(allocation) = a
    BY <2>1, OnlyIn
  <2>3. a.id = block
    BY DEF IInv, IssueOK
  <2>4. Known = DOMAIN entries \cup {block}
    BY <2>1, <2>3 DEF Known, Issued
  <2>5. ~Before(block)
    BY DEF Before, IInv, TypeOK
  <2>6. block \notin DOMAIN entries
    BY <1>1, <2>5 DEF IInv, FreshOK
  <2> QED BY <2>1, <2>2, <2>4, <2>6
<1>6. allocation = {} => Known = DOMAIN entries
  BY DEF Known, Issued
<1>7. TypeOK'
  <2>1. \A i \in DOMAIN entries : entries'[i] \in Entry
    <3> SUFFICES ASSUME NEW i \in DOMAIN entries
                 PROVE  AfterMint(entries[i], minted[i]) \in Entry
      BY <1>2
    <3>1. /\ entries[i].supply + minted[i] \in Int
          /\ entries[i].mints + 1 \in Int
      BY <1>3, CuneAssumption DEF Entry, Amount
    <3>2. /\ Wrap(entries[i].supply + minted[i]) \in Amount
          /\ Wrap(entries[i].mints + 1) \in Amount
      BY <3>1, WrapIsAmount
    <3> QED BY <1>3, <3>2 DEF AfterMint, Entry
  <2>2. \A a \in allocation : Etched(a) \in Entry
    <3> SUFFICES ASSUME NEW a \in allocation PROVE Etched(a) \in Entry
      OBVIOUS
    <3>1. a \in Allocation /\ premineAmount \in Amount
      BY <1>5 DEF IInv, TypeOK
    <3>2. U128Max - a.balance - premineAmount \in Int
      BY <3>1, CuneAssumption DEF Allocation, Amount
    <3>3. Wrap(U128Max - a.balance - premineAmount) \in Amount
      BY <3>2, WrapIsAmount
    <3>4. 0 \in Amount
      BY CuneAssumption DEF Amount
    <3>5. (IF cenotaph THEN {} ELSE a.terms) \in Option(TermsType)
      BY <3>1, OptionForms DEF Allocation
    <3> QED BY <3>1, <3>3, <3>4, <3>5 DEF Etched, Entry, Allocation
  <2>3. entries' \in [DOMAIN entries' -> Entry]
    BY <1>1, <1>2, <1>5, <1>6, <2>1, <2>2 DEF EntriesAfter
  <2>4. DOMAIN entries' \subseteq Id /\ block \in Id
    BY <1>2, <1>5, <1>6 DEF IInv, TypeOK, Id
  <2>5. /\ cuneToId' \in [DOMAIN cuneToId' -> Id] /\ DOMAIN cuneToId' \subseteq Nat
    <3>1. \A a \in allocation : a.cune \in Nat
      BY <1>5 DEF Allocation
    <3> QED BY <2>4, <3>1 DEF IInv, TypeOK
  <2>6. Known' = Known
    BY <1>1, <1>2 DEF Known, Issued
  <2>7. \A i \in Known : Of(unallocated, i) \in Amount
    BY <1>1, OfIsAmount DEF IInv, TypeOK, IsPile
  <2>8. /\ allocated \in [1 .. Len(outputs) -> [Known -> Amount]]
        /\ IsPile(burned, Known)
    BY <1>1 DEF IInv, TypeOK
  <2>9. IsPile(burned', Known)
    BY <2>7, <2>8 DEF AssignRest, IsPile
  <2>10. allocated' \in [1 .. Len(outputs) -> [Known -> Amount]]
    <3>1. ASSUME NEW v \in 1 .. Len(outputs)
          PROVE  [i \in Known |-> Wrap(allocated[v][i] + Of(unallocated, i))]
                   \in [Known -> Amount]
      <4> SUFFICES ASSUME NEW i \in Known
                   PROVE  Wrap(allocated[v][i] + Of(unallocated, i)) \in Amount
        OBVIOUS
      <4>1. allocated[v][i] + Of(unallocated, i) \in Int
        BY <2>7, <2>8, CuneAssumption DEF Amount
      <4> QED BY <4>1, WrapIsAmount
    <3> QED BY <2>8, <3>1 DEF AssignRest
  <2>11. /\ pointer' \in Option(Nat) /\ premine' \in Amount
         /\ premineAmount' \in Amount /\ allocation' \in Option(Allocation)
         /\ edicts' \in Nat
    BY OptionForms, CuneAssumption DEF Amount, IInv, TypeOK
  <2>12. \A o \in DOMAIN balances' : IsPile(balances'[o], DOMAIN balances'[o])
                               /\ DOMAIN balances'[o] \subseteq DOMAIN entries'
    BY <1>1, <1>2 DEF IInv, TypeOK, Known
  <2> HIDE DEF Assign
  <2>13. /\ height' \in Nat /\ index' \in Nat /\ reservedCunes' \in Nat
         /\ outputs' \in Seq(BOOLEAN) /\ cenotaph' \in BOOLEAN
    BY <1>1 DEF Assign, IInv, TypeOK
  <2> QED BY <1>1, <2>3, <2>4, <2>5, <2>6, <2>9, <2>10, <2>11, <2>12, <2>13
          DEF TypeOK
<1>8. NamesAreUnique'
  <2>1. CASE allocation = {}
    <3>1. cuneToId' = cuneToId
      BY <2>1 DEF IInv, TypeOK
    <3> QED BY <1>1, <1>2, <1>4, <1>6, <2>1, <3>1 DEF IInv, NamesAreUnique
  <2>2. CASE allocation # {}
    <3>1. PICK a \in allocation : TRUE
      BY <2>2
    <3>2. /\ a.cune \notin DOMAIN cuneToId
          /\ a.cune < Reserved + reservedCunes
      BY DEF IInv, IssueOK
    <3>3. /\ DOMAIN cuneToId' = DOMAIN cuneToId \cup {a.cune}
          /\ \A c \in DOMAIN cuneToId : cuneToId'[c] = cuneToId[c]
          /\ cuneToId'[a.cune] = block
      BY <1>5, <3>1, <3>2
    <3>4. /\ DOMAIN entries' = DOMAIN entries \cup {block}
          /\ entries'[block].cune = a.cune
      BY <1>2, <1>5, <3>1 DEF Etched
    <3>5. \A i \in DOMAIN entries' :
            /\ entries'[i].cune \in DOMAIN cuneToId'
            /\ cuneToId'[entries'[i].cune] = i
      <4>1. ASSUME NEW i \in DOMAIN entries
            PROVE  /\ entries'[i].cune \in DOMAIN cuneToId'
                   /\ cuneToId'[entries'[i].cune] = i
        <5>1. /\ entries[i].cune \in DOMAIN cuneToId
              /\ cuneToId[entries[i].cune] = i
          BY DEF IInv, NamesAreUnique
        <5>2. entries'[i].cune = entries[i].cune
          BY <1>4
        <5> HIDE DEF Assign
        <5> QED BY <3>3, <5>1, <5>2
      <4> HIDE DEF Assign
      <4> QED BY <3>3, <3>4, <4>1
    <3>6. \A c \in DOMAIN cuneToId' :
            /\ cuneToId'[c] \in DOMAIN entries'
            /\ entries'[cuneToId'[c]].cune = c
            /\ c < Reserved + reservedCunes
      BY <1>4, <3>2, <3>3, <3>4 DEF IInv, NamesAreUnique
    <3> QED BY <1>1, <3>5, <3>6 DEF NamesAreUnique
  <2> QED BY <2>1, <2>2
<1>9. IssueOK'
  BY <1>1 DEF IssueOK
<1>10. FreshOK'
  BY <1>1, <1>2, <1>5, <1>6 DEF IInv, FreshOK, Before
<1>11. MintsOK'
  BY <1>1 DEF MintsOK
<1> QED BY <1>7, <1>8, <1>9, <1>10, <1>11 DEF IInv

(* The outputs without the last.                                           *)
LEMMA ShorterOutputs ==
  ASSUME NEW s \in Seq(BOOLEAN), s # << >>
  PROVE  /\ Len(s) \in Nat /\ Len(s) > 0
         /\ SubSeq(s, 1, Len(s) - 1) \in Seq(BOOLEAN)
         /\ Len(SubSeq(s, 1, Len(s) - 1)) = Len(s) - 1
<1> DEFINE v == Len(s)
<1>1. v \in Nat /\ v > 0
  BY EmptySeq, LenProperties
<1>2. /\ 1 \in Int /\ v - 1 \in Int
      /\ \A i \in 1 .. v - 1 : s[i] \in BOOLEAN
  BY <1>1, ElementOfSeq
<1>3. Len(SubSeq(s, 1, v - 1)) = IF 1 <= v - 1 THEN v - 1 - 1 + 1 ELSE 0
  BY <1>1, <1>2, SubSeqProperties
<1>4. SubSeq(s, 1, v - 1) \in Seq(BOOLEAN)
  BY <1>1, <1>2, SubSeqProperties
<1> HIDE DEF v
<1>5. Len(SubSeq(s, 1, v - 1)) = v - 1
  BY <1>1, <1>3
<1> QED BY <1>1, <1>4, <1>5 DEF v

(* An output's pile is stored or burned.                                   *)
LEMMA StoreOutputKeeps == IInv /\ StoreOutput => IInv'
<1> SUFFICES ASSUME IInv, StoreOutput PROVE IInv'
  OBVIOUS
<1> DEFINE v == Len(outputs)
<1>1. /\ pc = "store" /\ outputs # << >> /\ outputs' = SubSeq(outputs, 1, v - 1)
      /\ allocated' = [w \in 1 .. v - 1 |-> allocated[w]]
      /\ UNCHANGED <<block, entries, cuneToId, reservedCunes, pc, cenotaph,
                     pointer, premine, allocation, unallocated, minted,
                     premineAmount, edicts>>
  BY DEF StoreOutput
<1>2. outputs \in Seq(BOOLEAN) /\ v \in Nat /\ v > 0
  BY <1>1, ShorterOutputs DEF IInv, TypeOK
<1>3. outputs' \in Seq(BOOLEAN) /\ Len(outputs') = v - 1
  BY <1>1, <1>2, ShorterOutputs
<1>4. Known = DOMAIN entries /\ Known' = Known
  BY <1>1 DEF Known, Issued, IInv, IssueOK
<1>5. /\ allocated \in [1 .. v -> [Known -> Amount]]
      /\ IsPile(burned, Known)
  BY <1>1 DEF IInv, TypeOK
<1>6. allocated[v] \in [Known -> Amount]
  BY <1>2, <1>5
<1>7. IsPile(burned', Known)
  <2>1. CASE outputs[v]
    <3>1. burned' = [i \in DOMAIN burned |-> Wrap(burned[i] + allocated[v][i])]
      BY <2>1 DEF StoreOutput
    <3>2. ASSUME NEW i \in Known
          PROVE  Wrap(burned[i] + allocated[v][i]) \in Amount
      <4>1. burned[i] + allocated[v][i] \in Int
        BY <1>5, <1>6, CuneAssumption DEF IsPile, Amount
      <4> QED BY <4>1, WrapIsAmount
    <3> QED BY <1>5, <3>1, <3>2 DEF IsPile
  <2>2. CASE ~outputs[v]
    BY <1>5, <2>2 DEF StoreOutput
  <2> QED BY <2>1, <2>2
<1>8. \A o \in DOMAIN balances' : IsPile(balances'[o], DOMAIN balances'[o])
                              /\ DOMAIN balances'[o] \subseteq DOMAIN entries
  <2>1. \A o \in DOMAIN balances : IsPile(balances[o], DOMAIN balances[o])
                              /\ DOMAIN balances[o] \subseteq DOMAIN entries
    BY DEF IInv, TypeOK
  <2>2. CASE balances' = balances
    BY <2>1, <2>2
  <2>3. CASE balances' = [o \in DOMAIN balances \cup {Outpoint(v)} |->
                            IF o = Outpoint(v) THEN allocated[v] ELSE balances[o]]
    BY <1>4, <1>6, <2>1, <2>3 DEF IsPile
  <2> QED BY <2>2, <2>3 DEF StoreOutput
<1>9. TypeOK'
  <2>1. allocated' \in [1 .. Len(outputs') -> [Known' -> Amount]]
    BY <1>1, <1>2, <1>3, <1>4, <1>5
  <2> HIDE DEF v
  <2> QED BY <1>1, <1>3, <1>4, <1>7, <1>8, <2>1 DEF IInv, TypeOK, block
<1>10. NamesAreUnique'
  BY <1>1 DEF IInv, NamesAreUnique
<1>11. IssueOK'
  BY <1>1 DEF IInv, IssueOK
<1>12. FreshOK'
  BY <1>1 DEF IInv, FreshOK, Before, block
<1>13. MintsOK'
  BY <1>1 DEF MintsOK
<1> QED BY <1>9, <1>10, <1>11, <1>12, <1>13 DEF IInv

(* The entries get what was burned, and the transaction is done.           *)
LEMMA AddBurnedKeeps == IInv /\ AddBurned => IInv'
<1> SUFFICES ASSUME IInv, AddBurned PROVE IInv'
  OBVIOUS
<1> USE DEF AddBurned, block
<1>1. \A i \in DOMAIN entries :
        /\ entries'[i] = [entries[i] EXCEPT !.burned = Wrap(@ + burned[i])]
        /\ entries'[i] \in Entry
        /\ entries'[i].cune = entries[i].cune
  <2> SUFFICES ASSUME NEW i \in DOMAIN entries
               PROVE  /\ entries'[i] = [entries[i] EXCEPT !.burned = Wrap(@ + burned[i])]
                      /\ entries'[i] \in Entry
                      /\ entries'[i].cune = entries[i].cune
    OBVIOUS
  <2>1. entries[i] \in Entry /\ burned[i] \in Amount
    BY DEF IInv, TypeOK, IsPile, Known
  <2>2. Wrap(entries[i].burned + burned[i]) \in Amount
    <3>1. entries[i].burned + burned[i] \in Int
      BY <2>1, CuneAssumption, SMTT(30) DEF Entry, Amount
    <3> QED BY <3>1, WrapIsAmount
  <2>3. entries'[i] = [entries[i] EXCEPT !.burned = Wrap(entries[i].burned + burned[i])]
    OBVIOUS
  <2> QED BY <2>1, <2>2, <2>3 DEF Entry
<1>2. DOMAIN entries' = DOMAIN entries /\ entries' \in [DOMAIN entries' -> Entry]
  BY <1>1
<1>3. TypeOK'
  BY <1>2, CuneAssumption DEF IInv, TypeOK, stone
<1>4. NamesAreUnique'
  BY <1>1, <1>2 DEF IInv, NamesAreUnique
<1>5. IssueOK'
  BY DEF IInv, IssueOK
<1>6. FreshOK'
  <2> SUFFICES ASSUME NEW i \in DOMAIN entries PROVE Before(i)'
    BY <1>2 DEF FreshOK
  <2>1. Before(i) \/ i = <<height, index>>
    BY DEF IInv, FreshOK
  <2>2. i \in Id /\ height \in Nat /\ index \in Nat
    BY DEF IInv, TypeOK
  <2>3. height' = height /\ index' = index + 1
    OBVIOUS
  <2> HIDE DEF AddBurned
  <2>4. CASE Before(i)
    BY <2>2, <2>3, <2>4 DEF Before, Id
  <2>5. CASE i = <<height, index>>
    BY <2>2, <2>3, <2>5 DEF Before
  <2> QED BY <2>1, <2>4, <2>5
<1>7. MintsOK'
  BY DEF MintsOK
<1> QED BY <1>3, <1>4, <1>5, <1>6, <1>7 DEF IInv

(* Every step of the updater keeps the invariant.                          *)
LEMMA StepKeeps == IInv /\ [Next]_vars => IInv'
<1> SUFFICES ASSUME IInv, [Next]_vars PROVE IInv'
  OBVIOUS
<1>1. CASE Transaction
  BY <1>1, NextTransactionKeeps, SpendInputKeeps, NoCunestoneKeeps,
     CunestoneKeeps, EndEdictsKeeps, AssignKeeps, StoreOutputKeeps,
     AddBurnedKeeps DEF Transaction
<1>2. CASE NextBlock
  BY <1>2, NextBlockKeeps
<1>3. CASE \E kind \in EdictKind, id \in DOMAIN entries \cup {block},
             asked \in Asked, output \in 0 .. Len(outputs) :
             ReadEdict(kind, id, asked, output)
  BY <1>3, ReadEdictKeeps
<1>4. CASE UNCHANGED vars
  <2> USE <1>4 DEF vars, block, tables, stone, work
  <2>1. TypeOK'
    BY DEF IInv, TypeOK, Known, Issued, IsPile
  <2>2. NamesAreUnique'
    BY DEF IInv, NamesAreUnique
  <2>3. IssueOK'
    BY DEF IInv, IssueOK
  <2>4. FreshOK'
    BY DEF IInv, FreshOK, Before
  <2>5. MintsOK'
    BY LimitsStay DEF IInv, MintsOK, WithinLimit
  <2> QED BY <2>1, <2>2, <2>3, <2>4, <2>5 DEF IInv
<1> QED BY <1>1, <1>2, <1>3, <1>4 DEF Next

-----------------------------------------------------------------------------
(* The theorems                                                            *)

(* The invariant holds in every reachable state.                           *)
LEMMA InvariantHolds == Spec => []IInv
BY InitIsGood, StepKeeps, PTL DEF Spec

(* The ledger's state is well formed; index_cunes never takes more of a    *)
(* balance than there is, so that no subtraction of it wraps.              *)
THEOREM CuneTypeCorrect == Spec => []TypeOK
<1>1. IInv => TypeOK
  BY DEF IInv
<1> QED BY <1>1, InvariantHolds, PTL

(* No two entries have a cune in common, whatever etchings come, valid,    *)
(* ignored or in a cenotaph, with a name or without.                       *)
THEOREM NamesAreGivenOnce == Spec => []NamesAreUnique
<1>1. IInv => NamesAreUnique
  BY DEF IInv
<1> QED BY <1>1, InvariantHolds, PTL

(* What MintsFollowTerms says of a step.                                   *)
MintStep ==
  \A i \in DOMAIN entries :
    \/ entries'[i] = [entries[i] EXCEPT !.burned = entries'[i].burned]
    \/ /\ entries'[i].mints = entries[i].mints + 1
       /\ \E limit \in Mintable(i) :
            \E amount \in 1 .. limit :
              entries'[i].supply = Wrap(entries[i].supply + amount)
       /\ \E t \in entries[i].terms : \A c \in t.cap : entries'[i].mints <= c

(* An entry that is not touched has not been minted.                       *)
LEMMA UntouchedIsNoMint ==
  ASSUME TypeOK, entries' = entries
  PROVE  MintStep
<1> SUFFICES ASSUME NEW i \in DOMAIN entries
             PROVE  entries'[i] = [entries[i] EXCEPT !.burned = entries'[i].burned]
  BY DEF MintStep
<1>1. entries[i] \in Entry
  BY DEF TypeOK
<1> QED BY <1>1 DEF Entry

(* One mint for the transaction, of what its claims took of the limit.     *)
LEMMA AssignMints == IInv /\ Assign => MintStep
<1> SUFFICES ASSUME IInv, Assign PROVE MintStep
  OBVIOUS
<1> SUFFICES ASSUME NEW i \in DOMAIN entries
             PROVE
    \/ entries'[i] = [entries[i] EXCEPT !.burned = entries'[i].burned]
    \/ /\ entries'[i].mints = entries[i].mints + 1
       /\ \E limit \in Mintable(i) :
            \E amount \in 1 .. limit :
              entries'[i].supply = Wrap(entries[i].supply + amount)
       /\ \E t \in entries[i].terms : \A c \in t.cap : entries'[i].mints <= c
  BY DEF MintStep
<1>1. /\ pc = "assign"
      /\ entries'[i] = AfterMint(entries[i], minted[i])
  BY DEF Assign, EntriesAfter, Known
<1>2. /\ entries[i] \in Entry /\ minted[i] \in Amount
      /\ entries[i].terms \in Option(TermsType)
      /\ TypeOK
  BY <1>1 DEF IInv, TypeOK, IsPile, Entry
<1>3. CASE minted[i] = 0
  BY <1>1, <1>2, <1>3 DEF AfterMint, Entry
<1>4. CASE minted[i] # 0
  <2>1. minted[i] > 0
    BY <1>2, <1>4 DEF Amount
  <2>2. PICK limit \in Mintable(i) : minted[i] <= limit
    BY <1>1, <2>1 DEF IInv, MintsOK, WithinLimit
  <2>3. PICK t \in entries[i].terms :
          IF t.cap = {} THEN entries[i].mints < U128Max
                        ELSE \A c \in t.cap : entries[i].mints < c
    BY <1>2, MintableLimit
  <2>4. limit \in Amount /\ minted[i] \in 1 .. limit
    BY <1>2, <2>1, <2>2, MintableLimit DEF Amount
  <2>5. t.cap \in Option(Amount)
    BY <1>2, <2>3 DEF Option, TermsType
  <2>6. entries[i].mints \in Amount
    BY <1>2 DEF Entry
  <2>7. entries[i].mints < U128Max
    <3>1. CASE t.cap = {}
      BY <2>3, <3>1
    <3>2. CASE t.cap # {}
      <4>1. PICK c \in t.cap : TRUE
        BY <3>2
      <4>2. c \in Amount
        BY <2>5, <4>1 DEF Option
      <4> QED BY <2>3, <2>6, <3>2, <4>2, CuneAssumption DEF Amount
    <3> QED BY <3>1, <3>2
  <2>8. Wrap(entries[i].mints + 1) = entries[i].mints + 1
    <3>1. entries[i].mints + 1 \in Amount
      BY <2>6, <2>7, CuneAssumption DEF Amount
    <3> QED BY <3>1, WrapSmall
  <2>9. /\ entries'[i].mints = entries[i].mints + 1
        /\ entries'[i].supply = Wrap(entries[i].supply + minted[i])
    BY <1>1, <1>2, <1>4, <2>8 DEF AfterMint, Entry
  <2>10. \A c \in t.cap : entries[i].mints + 1 <= c
    BY <2>3, <2>5, <2>6 DEF Option, Amount
  <2> QED BY <2>2, <2>3, <2>4, <2>9, <2>10
<1> QED BY <1>3, <1>4

(* The supply of a cune grows by mints alone, one for a transaction,       *)
(* within the cap, the window of heights and the limit of its terms.       *)
THEOREM MintsStayWithinTerms == Spec => MintsFollowTerms
<1>1. IInv /\ [Next]_vars => [MintStep]_vars
  <2> SUFFICES ASSUME IInv, Next PROVE MintStep
    OBVIOUS
  <2>1. CASE Assign
    BY <2>1, AssignMints
  <2>2. CASE AddBurned
    <3> SUFFICES ASSUME NEW i \in DOMAIN entries
                 PROVE  entries'[i] = [entries[i] EXCEPT !.burned = entries'[i].burned]
      BY DEF MintStep
    <3>1. entries[i] \in Entry
      BY DEF IInv, TypeOK
    <3>2. entries'[i] = [entries[i] EXCEPT !.burned = Wrap(@ + burned[i])]
      BY <2>2 DEF AddBurned
    <3> QED BY <3>1, <3>2 DEF Entry
  <2>3. CASE entries' = entries
    BY <2>3, UntouchedIsNoMint DEF IInv
  <2>4. Assign \/ AddBurned \/ entries' = entries
    BY DEF Next, NextBlock, Transaction, NextTransaction, SpendInput, NoCunestone,
           Cunestone, EndEdicts, StoreOutput, ReadEdict, tables
  <2> QED BY <2>1, <2>2, <2>3, <2>4
<1> QED BY <1>1, InvariantHolds, PTL DEF Spec, MintsFollowTerms, MintStep

-----------------------------------------------------------------------------
(* What the sums need: no work is left between two transactions, and none  *)
(* has been done before a cunestone is read.                               *)
WorkOK ==
  /\ pc \in {"idle", "store"} => unallocated = Empty /\ minted = Empty
  /\ pc = "idle" => DOMAIN allocated = {} /\ burned = Empty
  /\ pc = "inputs" =>
       /\ minted = None(DOMAIN entries)
       /\ \A v \in DOMAIN allocated, i \in Known : allocated[v][i] = 0
  /\ pc \in {"inputs", "edicts", "assign"} => \A i \in Known : burned[i] = 0

(* The outpoints of the table are those of earlier transactions and of the *)
(* outputs already stored.                                                 *)
OutpointsOK ==
  /\ IsFiniteSet(DOMAIN balances)
  /\ \A o \in DOMAIN balances :
       /\ o \in Nat \X Nat \X Nat
       /\ \/ Before(<<o[1], o[2]>>)
          \/ pc = "store" /\ <<o[1], o[2]>> = block /\ o[3] > Len(outputs)

(* Conserved, with the quotient in place of the remainder.                 *)
Multiples == {k * (U128Max + 1) : k \in Int}
Balanced == \A id \in Known : Held(id) - Issue(id) \in Multiples

SumsOK == WorkOK /\ OutpointsOK /\ Balanced

-----------------------------------------------------------------------------
(* Arithmetic modulo 2^128                                                 *)

(* Multiples are closed under addition and subtraction.                    *)
LEMMA MultiplesAdd ==
  /\ 0 \in Multiples /\ Multiples \subseteq Int
  /\ \A a, b \in Multiples : a + b \in Multiples /\ a - b \in Multiples
<1>1. 0 \in Multiples /\ Multiples \subseteq Int
  BY CuneAssumption DEF Multiples
<1>2. ASSUME NEW a \in Multiples, NEW b \in Multiples
      PROVE  a + b \in Multiples /\ a - b \in Multiples
  <2>1. PICK i \in Int : a = i * (U128Max + 1)
    BY DEF Multiples
  <2>2. PICK j \in Int : b = j * (U128Max + 1)
    BY DEF Multiples
  <2>3. /\ a + b = (i + j) * (U128Max + 1)
        /\ a - b = (i - j) * (U128Max + 1)
    BY <2>1, <2>2, CuneAssumption
  <2> QED BY <2>3 DEF Multiples
<1> QED BY <1>1, <1>2

(* A number is its remainder and a multiple.                               *)
LEMMA Remainder ==
  ASSUME NEW n \in Int
  PROVE  \E q \in Int : n = q * (U128Max + 1) + Wrap(n) /\ Wrap(n) \in 0 .. U128Max
<1>1. PICK m \in Nat \ {0} : m = U128Max + 1
  BY CuneAssumption
<1>2. /\ n = (n \div m) * m + (n % m)
      /\ n \div m \in Int /\ n % m \in 0 .. m - 1
  OBVIOUS
<1> QED BY <1>1, <1>2, CuneAssumption DEF Wrap

(* Wrapping adds a multiple,                                               *)
LEMMA WrapAddsMultiple ==
  ASSUME NEW n \in Int
  PROVE  \E e \in Multiples : Wrap(n) = n + e
<1>1. PICK q \in Int : n = q * (U128Max + 1) + Wrap(n) /\ Wrap(n) \in 0 .. U128Max
  BY Remainder
<1>2. Wrap(n) = n + (0 - q) * (U128Max + 1)
  BY <1>1, CuneAssumption
<1> QED BY <1>2 DEF Multiples

(* and makes nothing of one.                                               *)
LEMMA WrapOfMultiple ==
  ASSUME NEW n \in Multiples
  PROVE  Wrap(n) = 0
<1>1. PICK k \in Int : n = k * (U128Max + 1)
  BY DEF Multiples
<1>2. PICK q \in Int : n = q * (U128Max + 1) + Wrap(n) /\ Wrap(n) \in 0 .. U128Max
  BY Remainder, MultiplesAdd
<1>3. PICK d \in Int : d = k - q
  OBVIOUS
<1>4. PICK m \in Nat \ {0} : m = U128Max + 1
  BY CuneAssumption
<1>5. Wrap(n) = d * m /\ Wrap(n) \in 0 .. m - 1
  BY <1>1, <1>2, <1>3, <1>4, CuneAssumption
<1>6. CASE d <= 0 - 1
  <2>1. d * m <= (0 - 1) * m
    BY <1>6
  <2> QED BY <1>5, <2>1
<1>7. CASE d >= 1
  <2>1. d * m >= m
    BY <1>7
  <2> QED BY <1>5, <2>1
<1>8. CASE d = 0
  BY <1>5, <1>8
<1> QED BY <1>6, <1>7, <1>8

(* A balance that changes by a multiple stays balanced.                    *)
LEMMA StillBalanced ==
  ASSUME NEW id, Held(id) - Issue(id) \in Multiples,
         NEW e \in Multiples,
         (Held(id) - Issue(id))' = (Held(id) - Issue(id)) + e
  PROVE  (Held(id) - Issue(id))' \in Multiples
BY MultiplesAdd

-----------------------------------------------------------------------------
(* Sums of piles                                                           *)

(* Nothing is found in an empty pile, nor where nothing was put.           *)
LEMMA OfEmpty ==
  ASSUME NEW i
  PROVE  Of(Empty, i) = 0 /\ \A ids : Of(None(ids), i) = 0
BY DEF Of, Empty, None

(* What the piles of a table hold of a cune is a number,                    *)
LEMMA TotalIsInt ==
  ASSUME NEW t, IsFiniteSet(DOMAIN t), NEW id,
         \A x \in DOMAIN t : Of(t[x], id) \in Int
  PROVE  Total(t, id) \in Int
<1> DEFINE f == [x \in DOMAIN t |-> Of(t[x], id)]
<1>1. \A x \in DOMAIN t : f[x] \in Int
  OBVIOUS
<1>2. Total(t, id) = SumFunctionOnSet(f, DOMAIN t)
  BY DEF Total
<1> HIDE DEF f
<1> QED BY <1>1, <1>2, SumIsInt

(* the same when each pile has as much as before,                          *)
LEMMA TotalSame ==
  ASSUME NEW t, NEW u, DOMAIN u = DOMAIN t, IsFiniteSet(DOMAIN t), NEW id,
         \A x \in DOMAIN t : Of(t[x], id) \in Int /\ Of(u[x], id) = Of(t[x], id)
  PROVE  Total(u, id) = Total(t, id)
<1> DEFINE f == [x \in DOMAIN t |-> Of(t[x], id)]
<1> DEFINE g == [x \in DOMAIN t |-> Of(u[x], id)]
<1>1. \A x \in DOMAIN t : f[x] \in Int /\ g[x] = f[x]
  OBVIOUS
<1>2. /\ Total(t, id) = SumFunctionOnSet(f, DOMAIN t)
      /\ Total(u, id) = SumFunctionOnSet(g, DOMAIN t)
  BY DEF Total
<1> HIDE DEF f, g
<1> QED BY <1>1, <1>2, SumEqual

(* nothing when no pile has any,                                           *)
LEMMA TotalOfNothing ==
  ASSUME NEW t, IsFiniteSet(DOMAIN t), NEW id,
         \A x \in DOMAIN t : Of(t[x], id) = 0
  PROVE  Total(t, id) = 0
<1> DEFINE f == [x \in DOMAIN t |-> Of(t[x], id)]
<1>1. \A x \in DOMAIN t : f[x] = 0
  OBVIOUS
<1>2. Total(t, id) = SumFunctionOnSet(f, DOMAIN t)
  BY DEF Total
<1> HIDE DEF f
<1> QED BY <1>1, <1>2, SumOfZeros

(* less by a pile that is removed,                                         *)
LEMMA TotalLess ==
  ASSUME NEW t, NEW u, NEW y, y \in DOMAIN t, DOMAIN u = DOMAIN t \ {y},
         \A x \in DOMAIN u : u[x] = t[x],
         IsFiniteSet(DOMAIN t), NEW id,
         \A x \in DOMAIN t : Of(t[x], id) \in Int
  PROVE  Total(u, id) = Total(t, id) - Of(t[y], id)
<1> DEFINE f == [x \in DOMAIN t |-> Of(t[x], id)]
<1> DEFINE g == [x \in DOMAIN u |-> Of(u[x], id)]
<1> DEFINE S == DOMAIN t \ {y}
<1>1. \A x \in DOMAIN t : f[x] \in Int
  OBVIOUS
<1>2. /\ Total(t, id) = SumFunctionOnSet(f, DOMAIN t)
      /\ Total(u, id) = SumFunctionOnSet(g, S)
  BY DEF Total
<1>3. f[y] = Of(t[y], id)
  OBVIOUS
<1>4. \A x \in S : f[x] \in Int /\ g[x] = f[x]
  OBVIOUS
<1>5. IsFiniteSet(S)
  BY FS_RemoveElement
<1> HIDE DEF f, g
<1>6. /\ SumFunctionOnSet(f, DOMAIN t) = f[y] + SumFunctionOnSet(f, S)
      /\ SumFunctionOnSet(f, S) \in Int
  BY <1>1, SumSplit
<1> HIDE DEF S
<1>7. SumFunctionOnSet(g, S) = SumFunctionOnSet(f, S)
  BY <1>4, <1>5, SumEqual
<1>8. f[y] \in Int
  BY <1>1
<1> QED BY <1>2, <1>3, <1>6, <1>7, <1>8

(* and more by one that is added,                                          *)
LEMMA TotalMore ==
  ASSUME NEW t, NEW u, NEW y, y \notin DOMAIN t, DOMAIN u = DOMAIN t \cup {y},
         \A x \in DOMAIN t : u[x] = t[x],
         IsFiniteSet(DOMAIN t), NEW id,
         \A x \in DOMAIN u : Of(u[x], id) \in Int
  PROVE  Total(u, id) = Total(t, id) + Of(u[y], id)
<1>1. \A x \in DOMAIN t : t[x] = u[x]
  OBVIOUS
<1>2. y \in DOMAIN u
  OBVIOUS
<1>6. DOMAIN t = DOMAIN u \ {y}
  OBVIOUS
<1>3. IsFiniteSet(DOMAIN u)
  BY FS_AddElement
<1>4. Total(t, id) = Total(u, id) - Of(u[y], id)
  BY ONLY <1>1, <1>2, <1>3, <1>6, \A x \in DOMAIN u : Of(u[x], id) \in Int,
     TotalLess
<1>5. Total(u, id) \in Int /\ Of(u[y], id) \in Int
  BY <1>2, <1>3, TotalIsInt
<1> QED BY <1>4, <1>5

(* or by what one of them gains.                                           *)
LEMMA TotalChange ==
  ASSUME NEW t, NEW u, NEW y, y \in DOMAIN t, DOMAIN u = DOMAIN t,
         IsFiniteSet(DOMAIN t), NEW id,
         \A x \in DOMAIN t : Of(t[x], id) \in Int /\ Of(u[x], id) \in Int,
         \A x \in DOMAIN t : x # y => Of(u[x], id) = Of(t[x], id)
  PROVE  Total(u, id) = Total(t, id) + (Of(u[y], id) - Of(t[y], id))
<1> DEFINE f == [x \in DOMAIN t |-> Of(t[x], id)]
<1> DEFINE g == [x \in DOMAIN t |-> Of(u[x], id)]
<1>1. \A x \in DOMAIN t : f[x] \in Int /\ g[x] \in Int
  OBVIOUS
<1>2. \A x \in DOMAIN t : x # y => g[x] = f[x]
  OBVIOUS
<1>3. /\ Total(t, id) = SumFunctionOnSet(f, DOMAIN t)
      /\ Total(u, id) = SumFunctionOnSet(g, DOMAIN t)
  BY DEF Total
<1>4. f[y] = Of(t[y], id) /\ g[y] = Of(u[y], id)
  OBVIOUS
<1> HIDE DEF f, g
<1>5. SumFunctionOnSet(g, DOMAIN t) =
        SumFunctionOnSet(f, DOMAIN t) + (g[y] - f[y])
  BY <1>1, <1>2, SumChange
<1> QED BY <1>3, <1>4, <1>5

(* A pile of an outpoint or of an output has numbers.                      *)
LEMMA PilesOfInts ==
  ASSUME TypeOK, WorkOK, OutpointsOK, NEW id
  PROVE  /\ IsFiniteSet(DOMAIN balances) /\ IsFiniteSet(DOMAIN allocated)
         /\ \A o \in DOMAIN balances : Of(balances[o], id) \in Int
         /\ \A v \in DOMAIN allocated : Of(allocated[v], id) \in Int
<1>1. IsFiniteSet(DOMAIN allocated)
  <2>1. CASE pc = "idle"
    BY <2>1, FS_EmptySet DEF WorkOK
  <2>2. CASE pc # "idle"
    <3>1. Len(outputs) \in Nat /\ DOMAIN allocated = 1 .. Len(outputs)
      BY <2>2 DEF TypeOK
    <3> QED BY <3>1, FS_Interval
  <2> QED BY <2>1, <2>2
<1>2. ASSUME NEW o \in DOMAIN balances PROVE Of(balances[o], id) \in Int
  <2>1. Of(balances[o], id) \in Amount
    BY OfIsAmount DEF TypeOK, IsPile
  <2> QED BY <2>1, CuneAssumption DEF Amount
<1>3. ASSUME NEW v \in DOMAIN allocated PROVE Of(allocated[v], id) \in Int
  <2>1. pc # "idle"
    BY DEF WorkOK
  <2>2. allocated[v] \in [Known -> Amount]
    BY <2>1 DEF TypeOK
  <2>3. Of(allocated[v], id) \in Amount
    BY <2>2, OfIsAmount
  <2> QED BY <2>3, CuneAssumption DEF Amount
<1> QED BY <1>1, <1>2, <1>3 DEF OutpointsOK

(* Every term of what is held and of what was issued is an integer.        *)
LEMMA TermsAreInts ==
  ASSUME IInv, WorkOK, OutpointsOK, NEW id \in Known
  PROVE  /\ Total(balances, id) \in Int /\ Of(unallocated, id) \in Int
         /\ Total(allocated, id) \in Int /\ Of(burned, id) \in Int
         /\ Of(minted, id) \in Int /\ Issue(id) \in Int
         /\ Held(id) \in Int
<1>1. Total(balances, id) \in Int /\ Total(allocated, id) \in Int
  BY PilesOfInts, TotalIsInt DEF IInv
<1>2. Amount \subseteq Int
  BY CuneAssumption DEF Amount
<1>3. /\ pc \in {"idle", "store"} \/ pc \in {"inputs", "edicts", "assign"}
      /\ pc = "idle" \/ pc # "idle"
  BY DEF IInv, TypeOK
<1>4. Of(unallocated, id) \in Int /\ Of(minted, id) \in Int
  <2>1. CASE pc \in {"idle", "store"}
    BY <2>1, OfEmpty DEF WorkOK
  <2>2. CASE pc \in {"inputs", "edicts", "assign"}
    BY <1>2, <2>2, OfIsAmount DEF IInv, TypeOK, IsPile
  <2> QED BY <1>3, <2>1, <2>2
<1>5. Of(burned, id) \in Int
  <2>1. CASE pc = "idle"
    BY <2>1, OfEmpty DEF WorkOK
  <2>2. CASE pc # "idle"
    BY <1>2, <2>2, OfIsAmount DEF IInv, TypeOK, IsPile
  <2> QED BY <1>3, <2>1, <2>2
<1>6. Issue(id) \in Int
  <2>1. CASE id \in DOMAIN entries
    <3>1. entries[id] \in Entry
      BY <2>1 DEF IInv, TypeOK
    <3>2. /\ entries[id].supply \in Int /\ entries[id].premine \in Int
          /\ entries[id].burned \in Int
      BY <1>2, <3>1 DEF Entry
    <3> QED BY <1>4, <2>1, <3>2 DEF Issue
  <2>2. CASE id \notin DOMAIN entries
    <3>1. allocation # {}
      BY <2>2 DEF Known, Issued
    <3>2. Only(allocation) \in Allocation
      BY <3>1, OnlyIn DEF IInv, TypeOK, Option
    <3>3. Only(allocation).balance \in Amount
      BY <3>2 DEF Allocation
    <3>4. Only(allocation).balance \in Int
      BY <1>2, <3>3
    <3>5. U128Max \in Int
      BY CuneAssumption
    <3>6. Issue(id) = U128Max - Only(allocation).balance
      BY <2>2 DEF Issue
    <3> QED BY <3>4, <3>5, <3>6
  <2> QED BY <2>1, <2>2
<1> QED BY <1>1, <1>4, <1>5, <1>6 DEF Held


-----------------------------------------------------------------------------
(* Each step keeps the balance                                             *)

(* A step that moves nothing.                                              *)
LEMMA NothingMoves ==
  ASSUME Balanced,
         UNCHANGED <<entries, balances, allocation, unallocated, minted,
                     allocated, burned>>
  PROVE  Balanced'
BY DEF Balanced, Held, Issue, Known, Issued, Total

(* Before its outputs are stored a transaction adds no outpoint.           *)
LEMMA NoNewOutpoint ==
  ASSUME OutpointsOK, pc # "store", height' = height, index' = index,
         DOMAIN balances' \subseteq DOMAIN balances
  PROVE  OutpointsOK'
<1>1. IsFiniteSet(DOMAIN balances')
  BY FS_Subset DEF OutpointsOK
<1>2. \A o \in DOMAIN balances' : o \in Nat \X Nat \X Nat /\ Before(<<o[1], o[2]>>)'
  BY DEF OutpointsOK, Before
<1> QED BY <1>1, <1>2 DEF OutpointsOK

LEMMA NextBlockBalances ==
  ASSUME IInv, SumsOK, NextBlock
  PROVE  SumsOK'
<1> USE DEF NextBlock, tables, stone, work
<1>1. WorkOK'
  BY DEF SumsOK, WorkOK, Known, Issued
<1>2. OutpointsOK'
  <2>1. height \in Nat /\ height' = height + 1
    BY DEF IInv, TypeOK
  <2> SUFFICES ASSUME NEW o \in DOMAIN balances
               PROVE  o \in Nat \X Nat \X Nat /\ Before(<<o[1], o[2]>>)'
    BY DEF SumsOK, OutpointsOK
  <2>2. o \in Nat \X Nat \X Nat /\ Before(<<o[1], o[2]>>)
    BY DEF SumsOK, OutpointsOK
  <2>3. o[1] \in Nat
    BY <2>2
  <2>4. o[1] <= height
    BY <2>1, <2>2, <2>3 DEF Before
  <2>5. o[1] < height'
    BY <2>1, <2>3, <2>4
  <2> QED BY <2>2, <2>5 DEF Before
<1>3. Balanced'
  BY NothingMoves DEF SumsOK
<1> QED BY <1>1, <1>2, <1>3 DEF SumsOK

(* A new transaction has nothing, as had the last one when it ended.       *)
LEMMA NextTransactionBalances ==
  ASSUME IInv, SumsOK, NEW outs \in Shapes, NextTransaction(outs)
  PROVE  SumsOK'
<1>1. /\ pc = "idle" /\ pc' = "inputs"
      /\ entries' = entries /\ balances' = balances
      /\ height' = height /\ index' = index
      /\ allocation' = {}
      /\ unallocated' = None(DOMAIN entries)
      /\ minted' = None(DOMAIN entries)
      /\ burned' = None(DOMAIN entries)
      /\ allocated' = [v \in 1 .. Len(outs) |-> None(DOMAIN entries)]
  BY DEF NextTransaction, tables, block
<1>2. /\ allocation = {} /\ unallocated = Empty /\ minted = Empty
      /\ DOMAIN allocated = {} /\ burned = Empty
  BY <1>1 DEF IInv, IssueOK, SumsOK, WorkOK
<1>3. Known = DOMAIN entries /\ Known' = DOMAIN entries
  BY <1>1, <1>2 DEF Known, Issued
<1>4. WorkOK'
  BY <1>1, <1>3 DEF WorkOK, None
<1>5. OutpointsOK'
  BY <1>1, NoNewOutpoint DEF SumsOK
<1>6. Balanced'
  <2> SUFFICES ASSUME NEW id \in DOMAIN entries
               PROVE  (Held(id) - Issue(id))' \in Multiples
    BY <1>3 DEF Balanced
  <2>1. /\ Total(balances, id) \in Int /\ Held(id) \in Int /\ Issue(id) \in Int
    BY <1>3, TermsAreInts DEF SumsOK
  <2>2. Total(allocated, id) = 0
    BY <1>2, FS_EmptySet, TotalOfNothing
  <2>3. /\ Of(unallocated, id) = 0 /\ Of(burned, id) = 0 /\ Of(minted, id) = 0
    BY <1>2, OfEmpty
  <2>4. Total(allocated', id) = 0
    <3>1. Len(outs) \in Nat
      BY CuneAssumption
    <3>2. IsFiniteSet(DOMAIN allocated')
      BY <1>1, <3>1, FS_Interval
    <3>3. \A v \in DOMAIN allocated' : Of(allocated'[v], id) = 0
      BY <1>1, OfEmpty
    <3> QED BY <3>2, <3>3, TotalOfNothing
  <2>5. /\ Of(unallocated', id) = 0 /\ Of(burned', id) = 0 /\ Of(minted', id) = 0
    BY <1>1, OfEmpty
  <2>6. Held(id)' = Held(id)
    BY <1>1, <2>1, <2>2, <2>3, <2>4, <2>5 DEF Held
  <2>7. Issue(id)' = Issue(id)
    BY <1>1, <2>3, <2>5 DEF Issue
  <2>8. Held(id) - Issue(id) \in Multiples
    BY <1>3 DEF SumsOK, Balanced
  <2> QED BY <2>6, <2>7, <2>8
<1> QED BY <1>4, <1>5, <1>6 DEF SumsOK

(* What an outpoint held is unallocated.                                   *)
LEMMA SpendInputBalances ==
  ASSUME IInv, SumsOK, NEW out \in DOMAIN balances, SpendInput(out)
  PROVE  SumsOK'
<1>1. /\ pc = "inputs" /\ pc' = "inputs"
      /\ unallocated' = [i \in DOMAIN entries |->
                           Wrap(unallocated[i] + Of(balances[out], i))]
      /\ balances' = [o \in DOMAIN balances \ {out} |-> balances[o]]
      /\ height' = height /\ index' = index /\ entries' = entries
      /\ allocation' = allocation /\ minted' = minted
      /\ allocated' = allocated /\ burned' = burned
  BY DEF SpendInput, block
<1>2. allocation = {} /\ Known = DOMAIN entries /\ Known' = DOMAIN entries
  BY <1>1 DEF IInv, IssueOK, Known, Issued
<1>3. WorkOK'
  BY <1>1, <1>2 DEF SumsOK, WorkOK
<1>4. OutpointsOK'
  BY <1>1, NoNewOutpoint DEF SumsOK
<1>5. Balanced'
  <2> SUFFICES ASSUME NEW id \in DOMAIN entries
               PROVE  (Held(id) - Issue(id))' \in Multiples
    BY <1>2 DEF Balanced
  <2>1. /\ Total(balances, id) \in Int /\ Of(unallocated, id) \in Int
        /\ Total(allocated, id) \in Int /\ Of(burned, id) \in Int
        /\ Held(id) \in Int /\ Issue(id) \in Int
    BY <1>2, TermsAreInts DEF SumsOK
  <2>2. /\ IsFiniteSet(DOMAIN balances)
        /\ \A o \in DOMAIN balances : Of(balances[o], id) \in Int
    BY PilesOfInts DEF IInv, SumsOK
  <2>3. Total(balances', id) = Total(balances, id) - Of(balances[out], id)
    <3>1. DOMAIN balances' = DOMAIN balances \ {out}
      BY <1>1
    <3>2. \A o \in DOMAIN balances' : balances'[o] = balances[o]
      BY <1>1
    <3> QED BY <2>2, <3>1, <3>2, TotalLess
  <2>4. Of(unallocated, id) = unallocated[id]
    BY <1>1 DEF IInv, TypeOK, IsPile, Of
  <2>5. Of(balances[out], id) \in Int
    BY <2>2
  <2>6. PICK e \in Multiples :
          Wrap(unallocated[id] + Of(balances[out], id)) =
            unallocated[id] + Of(balances[out], id) + e
    BY <2>1, <2>4, <2>5, WrapAddsMultiple
  <2>7. Of(unallocated', id) = Of(unallocated, id) + Of(balances[out], id) + e
    BY <1>1, <2>4, <2>6 DEF Of
  <2>8. e \in Int
    BY MultiplesAdd
  <2>9. Held(id)' = Held(id) + e
    BY <1>1, <2>1, <2>3, <2>5, <2>7, <2>8 DEF Held
  <2>10. Issue(id)' = Issue(id)
    BY <1>1 DEF Issue
  <2>11. Held(id) - Issue(id) \in Multiples
    BY <1>2 DEF SumsOK, Balanced
  <2>12. (Held(id) - Issue(id))' = (Held(id) - Issue(id)) + e
    BY <2>1, <2>8, <2>9, <2>10
  <2> QED BY <2>11, <2>12, StillBalanced
<1> QED BY <1>3, <1>4, <1>5 DEF SumsOK

LEMMA NoCunestoneBalances ==
  ASSUME IInv, SumsOK, NoCunestone
  PROVE  SumsOK'
<1> USE DEF NoCunestone, block, tables, stone, work
<1>1. WorkOK'
  BY DEF SumsOK, WorkOK, Known, Issued
<1>2. OutpointsOK'
  BY NoNewOutpoint DEF SumsOK
<1>3. Balanced'
  BY NothingMoves DEF SumsOK
<1> QED BY <1>1, <1>2, <1>3 DEF SumsOK

(* A cunestone allocates nothing yet, its own cune included.               *)
LEMMA CunestoneBalances ==
  ASSUME IInv, IInv', SumsOK, NEW malformed \in BOOLEAN,
         NEW default \in Options(Pointers), NEW etching \in Options(Etching),
         Cunestone(malformed, default, etching)
  PROVE  SumsOK'
<1>1. /\ pc = "inputs" /\ pc' \in {"assign", "edicts"}
      /\ height' = height /\ index' = index
      /\ entries' = entries /\ balances' = balances
      /\ unallocated' = unallocated /\ minted' = minted /\ outputs' = outputs
  BY DEF Cunestone, block
<1>2. /\ allocation' = Allocate(etching)
      /\ allocated' = [v \in 1 .. Len(outputs) |-> None(Known')]
      /\ burned' = None(Known')
  BY DEF Cunestone, Known, Issued
<1>3. allocation = {} /\ Known = DOMAIN entries
  BY <1>1 DEF IInv, IssueOK, Known, Issued
<1>4. \A i : burned'[i] = 0 \/ i \notin Known'
  BY <1>2 DEF None
<1>5. WorkOK'
  BY <1>1, <1>4 DEF WorkOK
<1>6. OutpointsOK'
  BY <1>1, NoNewOutpoint DEF SumsOK
<1>7. Len(outputs) \in Nat /\ DOMAIN allocated = 1 .. Len(outputs)
  BY <1>1 DEF IInv, TypeOK
<1>8. ASSUME NEW id
      PROVE  Total(allocated', id) = 0 /\ Of(burned', id) = 0
  <2>1. IsFiniteSet(DOMAIN allocated')
    BY <1>2, <1>7, FS_Interval
  <2>2. \A v \in DOMAIN allocated' : Of(allocated'[v], id) = 0
    BY <1>2, OfEmpty
  <2> QED BY <1>2, <2>1, <2>2, TotalOfNothing, OfEmpty
<1>9. ASSUME NEW id \in DOMAIN entries
      PROVE  (Held(id) - Issue(id))' \in Multiples
  <2>1. /\ Total(balances, id) \in Int /\ Of(unallocated, id) \in Int
        /\ Held(id) \in Int /\ Issue(id) \in Int
    BY <1>3, TermsAreInts DEF SumsOK
  <2>2. Total(allocated, id) = 0
    <3>1. \A v \in DOMAIN allocated : Of(allocated[v], id) = 0
      BY <1>1, <1>3 DEF SumsOK, WorkOK, Of
    <3>2. IsFiniteSet(DOMAIN allocated)
      BY PilesOfInts DEF IInv, SumsOK
    <3> QED BY <3>1, <3>2, TotalOfNothing
  <2>3. Of(burned, id) = 0
    BY <1>1, <1>3 DEF SumsOK, WorkOK, Of
  <2>4. Held(id)' = Held(id)
    BY <1>1, <1>8, <2>1, <2>2, <2>3 DEF Held
  <2>5. Issue(id)' = Issue(id)
    BY <1>1 DEF Issue
  <2>6. Held(id) - Issue(id) \in Multiples
    BY <1>3 DEF SumsOK, Balanced
  <2> QED BY <2>4, <2>5, <2>6
<1>10. ASSUME NEW id \in Known', id \notin DOMAIN entries
       PROVE  (Held(id) - Issue(id))' \in Multiples
  <2>1. Total(balances, id) = 0
    <3>1. \A o \in DOMAIN balances : Of(balances[o], id) = 0
      BY <1>10 DEF IInv, TypeOK, Of
    <3> QED BY <3>1, TotalOfNothing DEF SumsOK, OutpointsOK
  <2>2. Of(unallocated, id) = 0
    BY <1>1, <1>10 DEF IInv, TypeOK, IsPile, Of
  <2>3. Held(id)' = 0
    BY <1>1, <1>8, <2>1, <2>2 DEF Held
  <2>4. allocation' # {} /\ entries' = entries
    BY <1>1, <1>10 DEF Known, Issued
  <2>5. Only(allocation') \in allocation'
    BY <2>4, OnlyIn
  <2>6. Only(allocation').balance = U128Max
    <3>1. \A a \in Allocate(etching) : a.balance = U128Max
      BY DEF Allocate
    <3> QED BY <1>2, <2>5, <3>1
  <2>7. Issue(id)' = 0
    BY <1>10, <2>4, <2>6, CuneAssumption DEF Issue
  <2> QED BY <2>3, <2>7, MultiplesAdd
<1>11. Balanced'
  BY <1>9, <1>10 DEF Balanced
<1> QED BY <1>5, <1>6, <1>11 DEF SumsOK

(* An output's gain.                                                       *)
LEMMA GiveAdds ==
  ASSUME IInv, SumsOK, pc = "edicts", NEW output \in Nat, output < Len(outputs),
         NEW id \in Known, NEW amount \in Amount, Give(output, id, amount)
  PROVE  \E e \in Multiples :
           /\ Total(allocated', id) = Total(allocated, id) + amount + e
           /\ \A i : i # id => Total(allocated', i) = Total(allocated, i)
<1> DEFINE v == output + 1
<1>1. /\ allocated \in [1 .. Len(outputs) -> [Known -> Amount]]
      /\ Len(outputs) \in Nat
  BY DEF IInv, TypeOK
<1>2. v \in DOMAIN allocated
  BY <1>1
<1>3. IsFiniteSet(DOMAIN allocated)
  BY PilesOfInts DEF IInv, SumsOK
<1>4. allocated[v] \in [Known -> Amount] /\ allocated[v][id] \in Amount
  BY <1>1, <1>2
<1>5. amount \in Int /\ allocated[v][id] \in Int
  BY <1>4, CuneAssumption DEF Amount
<1>6. PICK e \in Multiples : Wrap(allocated[v][id] + amount) =
                               allocated[v][id] + amount + e
  BY <1>5, WrapAddsMultiple
<1>7. e \in Int
  BY MultiplesAdd
<1>8. allocated' = [allocated EXCEPT ![v] =
                      [allocated[v] EXCEPT ![id] = Wrap(@ + amount)]]
  BY DEF Give
<1>9. DOMAIN allocated' = DOMAIN allocated
  BY <1>8
<1>10. /\ \A w \in DOMAIN allocated : w # v => allocated'[w] = allocated[w]
       /\ allocated'[v] = [allocated[v] EXCEPT ![id] = Wrap(@ + amount)]
  BY <1>2, <1>8
<1> HIDE DEF v
<1>11. /\ Of(allocated[v], id) = allocated[v][id]
       /\ Of(allocated'[v], id) = allocated[v][id] + amount + e
       /\ \A i : i # id => Of(allocated'[v], i) = Of(allocated[v], i)
  BY <1>4, <1>6, <1>10 DEF Of
<1>12. Total(allocated', id) = Total(allocated, id) + amount + e
  <2>1. \A w \in DOMAIN allocated : Of(allocated[w], id) \in Int
    BY PilesOfInts DEF IInv, SumsOK
  <2>2. \A w \in DOMAIN allocated : w # v => Of(allocated'[w], id) = Of(allocated[w], id)
    BY <1>10
  <2>3. Of(allocated'[v], id) \in Int
    BY <1>5, <1>7, <1>11
  <2>4. \A w \in DOMAIN allocated :
          Of(allocated[w], id) \in Int /\ Of(allocated'[w], id) \in Int
    BY <2>1, <2>2, <2>3
  <2>5. Total(allocated', id) = Total(allocated, id)
                                  + (Of(allocated'[v], id) - Of(allocated[v], id))
    BY <1>2, <1>3, <1>9, <2>2, <2>4, TotalChange
  <2>6. Total(allocated, id) \in Int
    BY <1>3, <2>1, TotalIsInt
  <2> QED BY <1>5, <1>7, <1>11, <2>5, <2>6
<1>13. ASSUME NEW i, i # id
       PROVE  Total(allocated', i) = Total(allocated, i)
  <2>1. \A w \in DOMAIN allocated :
          Of(allocated[w], i) \in Int /\ Of(allocated'[w], i) = Of(allocated[w], i)
    BY <1>10, <1>11, <1>13, PilesOfInts DEF IInv, SumsOK
  <2> QED BY <1>3, <1>9, <2>1, TotalSame
<1> QED BY <1>12, <1>13

(* The cune of an etching has no entry before its transaction ends.        *)
LEMMA IssueIsNew ==
  ASSUME IInv, pc # "store", NEW a \in allocation
  PROVE  a.id \notin DOMAIN entries
<1>1. ~Before(block)
  BY DEF Before, block, IInv, TypeOK
<1> QED BY <1>1 DEF IInv, IssueOK, FreshOK

(* What may still be minted is an amount.                                  *)
LEMMA MintRoom ==
  ASSUME IInv, pc = "edicts", NEW id \in DOMAIN entries, NEW limit \in Mintable(id)
  PROVE  limit - minted[id] \in Amount
<1>1. TypeOK /\ WithinLimit(minted) /\ minted[id] \in Amount
  BY DEF IInv, MintsOK, TypeOK, IsPile
<1>2. limit \in Amount
  BY <1>1, MintableLimit
<1>3. minted[id] <= limit
  <2>1. CASE minted[id] > 0
    <3>1. PICK l \in Mintable(id) : minted[id] <= l
      BY <1>1, <2>1 DEF WithinLimit
    <3>2. l = limit
      BY <1>1, <3>1, OneLimit
    <3> QED BY <3>1, <3>2
  <2>2. CASE ~(minted[id] > 0)
    BY <1>1, <1>2, <2>2 DEF Amount
  <2> QED BY <2>1, <2>2
<1> QED BY <1>1, <1>2, <1>3, CuneAssumption DEF Amount

(* The edicts: what an output gains is taken from the issue, from what may *)
(* still be minted or from the inputs.                                     *)
LEMMA EdictBalances ==
  ASSUME IInv, SumsOK, pc = "edicts", NEW kind, NEW id,
         NEW asked \in Amount, NEW output \in Nat,
         Edict(kind, id, asked, output),
         UNCHANGED <<entries, balances, burned>>
  PROVE  Balanced'
<1>1. CASE EdictSkipped(kind, id, output)
  <2>1. /\ allocation' = allocation /\ unallocated' = unallocated
        /\ minted' = minted /\ allocated' = allocated
    BY <1>1 DEF EdictSkipped
  <2> QED BY <2>1, NothingMoves DEF SumsOK
<1>2. CASE output < Len(outputs) /\ EdictOfIssue(asked, output)
  <2>1. PICK a \in allocation :
          LET amount == Share(asked, a.balance)
          IN  /\ allocation' = {[a EXCEPT !.balance = @ - amount]}
              /\ premineAmount' = Wrap(premineAmount + asked)
              /\ Give(output, a.id, amount)
              /\ UNCHANGED <<unallocated, minted>>
    BY <1>2 DEF EdictOfIssue
  <2> DEFINE amount == Share(asked, a.balance)
  <2>2. a \in Allocation /\ allocation = {a}
    BY <2>1 DEF IInv, TypeOK, Option
  <2>3. a.balance \in Amount
    BY <2>2 DEF Allocation
  <2>4. amount \in Amount
    BY <2>3, ShareBounds
  <2> DEFINE b == [a EXCEPT !.balance = @ - amount]
  <2>5. b.id = a.id /\ b.balance = a.balance - amount
    BY <2>2 DEF Allocation
  <2>6. /\ allocation' = {b} /\ Give(output, a.id, amount)
        /\ unallocated' = unallocated /\ minted' = minted
    BY <2>1
  <2>7. /\ Known' = Known /\ a.id \in Known
        /\ Only(allocation') = b /\ Only(allocation) = a
    <3> HIDE DEF b
    <3>1. /\ \A x \in allocation : x.id = a.id
          /\ \A x \in allocation' : x.id = a.id
          /\ b \in allocation'
      BY <2>2, <2>5, <2>6
    <3>2. Issued = {a.id} /\ Issued' = {a.id}
      BY <2>1, <2>5, <3>1 DEF Issued
    <3>3. Only(allocation') \in {b} /\ Only(allocation) \in {a}
      BY <2>2, <2>6, OnlyIn
    <3> QED BY <3>2, <3>3 DEF Known
  <2>8. a.id \notin DOMAIN entries
    BY <2>2, IssueIsNew
  <2>9. a.balance \in Int /\ amount \in Int /\ U128Max \in Int
    BY <2>3, <2>4, CuneAssumption DEF Amount
  <2> HIDE DEF amount, b
  <2>10. PICK e \in Multiples :
           /\ Total(allocated', a.id) = Total(allocated, a.id) + amount + e
           /\ \A i : i # a.id => Total(allocated', i) = Total(allocated, i)
    BY <1>2, <2>4, <2>6, <2>7, GiveAdds
  <2> SUFFICES ASSUME NEW i \in Known PROVE (Held(i) - Issue(i))' \in Multiples
    BY <2>7 DEF Balanced
  <2>11. /\ Total(balances, i) \in Int /\ Of(unallocated, i) \in Int
         /\ Total(allocated, i) \in Int /\ Of(burned, i) \in Int
         /\ Held(i) \in Int /\ Issue(i) \in Int
    BY TermsAreInts DEF SumsOK
  <2>12. Held(i) - Issue(i) \in Multiples /\ e \in Int
    BY MultiplesAdd DEF SumsOK, Balanced
  <2>13. CASE i = a.id
    <3>1. Held(i)' = Held(i) + amount + e
      BY <2>6, <2>9, <2>10, <2>11, <2>12, <2>13 DEF Held
    <3>2. Issue(i) = U128Max - a.balance
      BY <2>7, <2>8, <2>13 DEF Issue
    <3>3. Issue(i)' = U128Max - b.balance
      BY <2>7, <2>8, <2>13 DEF Issue
    <3>4. (Held(i) - Issue(i))' = (Held(i) - Issue(i)) + e
      BY <2>5, <2>9, <2>11, <2>12, <3>1, <3>2, <3>3
    <3> QED BY <2>12, <3>4, StillBalanced
  <2>14. CASE i # a.id
    <3>1. Held(i)' = Held(i)
      BY <2>6, <2>10, <2>14 DEF Held
    <3>2. i \in DOMAIN entries
      BY <2>2, <2>14 DEF Known, Issued
    <3>3. Issue(i)' = Issue(i)
      BY <2>6, <3>2 DEF Issue
    <3> QED BY <2>12, <3>1, <3>3
  <2> QED BY <2>13, <2>14
<1>3. CASE output < Len(outputs) /\ EdictOfClaim(id, asked, output)
  <2>1. PICK limit \in Mintable(id) :
          LET amount == Share(asked, limit - minted[id])
          IN  /\ minted' = [minted EXCEPT ![id] = @ + amount]
              /\ Give(output, id, amount)
              /\ UNCHANGED <<allocation, premineAmount, unallocated>>
    BY <1>3 DEF EdictOfClaim
  <2> DEFINE amount == Share(asked, limit - minted[id])
  <2>2. id \in DOMAIN entries /\ id \in Known /\ IsPile(minted, DOMAIN entries)
    BY MintableLimit DEF Known, IInv, TypeOK
  <2>3. minted[id] \in Amount
    BY <2>2 DEF IsPile
  <2>4. limit - minted[id] \in Amount
    BY <2>1, <2>2, MintRoom
  <2>5. amount \in Amount
    BY <2>4, ShareBounds
  <2>6. /\ minted' = [minted EXCEPT ![id] = minted[id] + amount]
        /\ Give(output, id, amount)
        /\ allocation' = allocation /\ unallocated' = unallocated
    BY <2>1
  <2>7. amount \in Int /\ minted[id] \in Int
    BY <2>3, <2>5, CuneAssumption DEF Amount
  <2> HIDE DEF amount
  <2>8. PICK e \in Multiples :
          /\ Total(allocated', id) = Total(allocated, id) + amount + e
          /\ \A i : i # id => Total(allocated', i) = Total(allocated, i)
    BY <1>3, <2>2, <2>5, <2>6, GiveAdds
  <2>9. Known' = Known
    BY <2>6 DEF Known, Issued
  <2> SUFFICES ASSUME NEW i \in Known PROVE (Held(i) - Issue(i))' \in Multiples
    BY <2>9 DEF Balanced
  <2>10. /\ Total(balances, i) \in Int /\ Of(unallocated, i) \in Int
         /\ Total(allocated, i) \in Int /\ Of(burned, i) \in Int
         /\ Held(i) \in Int /\ Issue(i) \in Int
    BY TermsAreInts DEF SumsOK
  <2>11. Held(i) - Issue(i) \in Multiples /\ e \in Int
    BY MultiplesAdd DEF SumsOK, Balanced
  <2>12. CASE i = id
    <3>1. Held(i)' = Held(i) + amount + e
      BY <2>6, <2>7, <2>8, <2>10, <2>11, <2>12 DEF Held
    <3>2. /\ Of(minted', i) = Of(minted, i) + amount
          /\ Of(minted, i) \in Int
      BY <2>2, <2>6, <2>7, <2>12 DEF IsPile, Of
    <3>3. Issue(i)' = Issue(i) + amount
      <4>1. entries[i] \in Entry
        BY <2>2, <2>12 DEF IInv, TypeOK
      <4>2. /\ entries[i].supply \in Int /\ entries[i].premine \in Int
            /\ entries[i].burned \in Int
        BY <4>1, CuneAssumption DEF Entry, Amount
      <4> QED BY <2>2, <2>7, <2>12, <3>2, <4>2 DEF Issue
    <3>4. (Held(i) - Issue(i))' = (Held(i) - Issue(i)) + e
      BY <2>7, <2>10, <2>11, <3>1, <3>3
    <3> QED BY <2>11, <3>4, StillBalanced
  <2>13. CASE i # id
    <3>1. Held(i)' = Held(i)
      BY <2>6, <2>8, <2>13 DEF Held
    <3>2. Of(minted', i) = Of(minted, i)
      BY <2>2, <2>6, <2>13 DEF IsPile, Of
    <3>3. Issue(i)' = Issue(i)
      BY <2>6, <3>2 DEF Issue
    <3> QED BY <2>11, <3>1, <3>3
  <2> QED BY <2>12, <2>13
<1>4. CASE output < Len(outputs) /\ id \in DOMAIN entries
             /\ EdictOfInputs(id, asked, output)
  <2> DEFINE amount == Share(asked, unallocated[id])
  <2>1. IsPile(unallocated, DOMAIN entries) /\ id \in Known
    BY <1>4 DEF IInv, TypeOK, Known
  <2>2. /\ unallocated' = [unallocated EXCEPT ![id] = unallocated[id] - amount]
        /\ Give(output, id, amount)
        /\ allocation' = allocation /\ minted' = minted
    BY <1>4, <2>1 DEF EdictOfInputs, IsPile
  <2>3. unallocated[id] \in Amount
    BY <1>4, <2>1 DEF IsPile
  <2>4. amount \in Amount
    BY <2>3, ShareBounds
  <2>5. amount \in Int /\ unallocated[id] \in Int
    BY <2>3, <2>4, CuneAssumption DEF Amount
  <2> HIDE DEF amount
  <2>6. PICK e \in Multiples :
          /\ Total(allocated', id) = Total(allocated, id) + amount + e
          /\ \A i : i # id => Total(allocated', i) = Total(allocated, i)
    BY <1>4, <2>1, <2>2, <2>4, GiveAdds
  <2>7. Known' = Known
    BY <2>2 DEF Known, Issued
  <2> SUFFICES ASSUME NEW i \in Known PROVE (Held(i) - Issue(i))' \in Multiples
    BY <2>7 DEF Balanced
  <2>8. /\ Total(balances, i) \in Int /\ Of(unallocated, i) \in Int
        /\ Total(allocated, i) \in Int /\ Of(burned, i) \in Int
        /\ Held(i) \in Int /\ Issue(i) \in Int
    BY TermsAreInts DEF SumsOK
  <2>9. Held(i) - Issue(i) \in Multiples /\ e \in Int
    BY MultiplesAdd DEF SumsOK, Balanced
  <2>10. Issue(i)' = Issue(i)
    BY <2>2 DEF Issue
  <2>11. CASE i = id
    <3>1. /\ Of(unallocated', i) = unallocated[id] - amount
          /\ Of(unallocated, i) = unallocated[id]
      BY <1>4, <2>1, <2>2, <2>11 DEF IsPile, Of
    <3>2. Held(i)' = Held(i) + e
      BY <2>5, <2>6, <2>8, <2>9, <2>11, <3>1 DEF Held
    <3>3. (Held(i) - Issue(i))' = (Held(i) - Issue(i)) + e
      BY <2>8, <2>9, <2>10, <3>2
    <3> QED BY <2>9, <3>3, StillBalanced
  <2>12. CASE i # id
    <3>1. Of(unallocated', i) = Of(unallocated, i)
      BY <2>1, <2>2, <2>12 DEF IsPile, Of
    <3>2. Held(i)' = Held(i)
      BY <2>6, <2>12, <3>1 DEF Held
    <3> QED BY <2>9, <2>10, <3>2
  <2> QED BY <2>11, <2>12
<1> QED BY <1>1, <1>2, <1>3, <1>4 DEF Edict

LEMMA ReadEdictBalances ==
  ASSUME IInv, IInv', SumsOK, NEW kind, NEW id, NEW asked \in Asked,
         NEW output \in 0 .. Len(outputs), ReadEdict(kind, id, asked, output)
  PROVE  SumsOK'
<1>1. /\ pc = "edicts" /\ pc' = "edicts"
      /\ Edict(kind, id, asked, output)
      /\ height' = height /\ index' = index /\ entries' = entries
      /\ balances' = balances /\ burned' = burned
  BY DEF ReadEdict, block, tables
<1>2. asked \in Amount /\ output \in Nat
  BY CuneAssumption
<1>3. EdictLeaves
  BY <1>1, <1>2, EdictStep DEF IInv
<1>4. Known' = Known
  BY <1>1, <1>3 DEF EdictLeaves, Known
<1>5. WorkOK'
  BY <1>1, <1>4 DEF SumsOK, WorkOK
<1>6. OutpointsOK'
  BY <1>1, NoNewOutpoint DEF SumsOK
<1>7. Balanced'
  BY <1>1, <1>2, EdictBalances
<1> QED BY <1>5, <1>6, <1>7 DEF SumsOK

LEMMA EndEdictsBalances ==
  ASSUME IInv, SumsOK, EndEdicts
  PROVE  SumsOK'
<1>1. /\ pc = "edicts" /\ pc' = "assign"
      /\ height' = height /\ index' = index /\ entries' = entries
      /\ balances' = balances /\ burned' = burned
  BY DEF EndEdicts, block, tables
<1>2. premine \in Amount
  BY DEF IInv, TypeOK
<1>3. Issued' = Issued /\ Balanced'
  <2>1. CASE premine > 0
    <3>1. Edict("issue", block, premine, 1)
      BY <2>1 DEF EndEdicts
    <3>2. EdictLeaves
      BY <1>1, <1>2, <3>1, EdictStep DEF IInv
    <3>3. Balanced'
      BY <1>1, <1>2, <3>1, EdictBalances
    <3> QED BY <3>2, <3>3 DEF EdictLeaves
  <2>2. CASE ~(premine > 0)
    <3>1. /\ allocation' = allocation /\ unallocated' = unallocated
          /\ minted' = minted /\ allocated' = allocated
      BY <2>2 DEF EndEdicts
    <3> QED BY <1>1, <3>1, NothingMoves DEF SumsOK, Issued
  <2> QED BY <2>1, <2>2
<1>4. Known' = Known
  BY <1>1, <1>3 DEF Known
<1>5. WorkOK'
  BY <1>1, <1>4 DEF SumsOK, WorkOK
<1>6. OutpointsOK'
  BY <1>1, NoNewOutpoint DEF SumsOK
<1> QED BY <1>3, <1>5, <1>6 DEF SumsOK

(* What is left is assigned to one output, or burned.                      *)
LEMMA OneDefault ==
  ASSUME IInv, NEW v \in DefaultOutput, NEW w \in DefaultOutput
  PROVE  v = w
<1> DEFINE pointed == {p + 1 : p \in {p \in pointer : p < Len(outputs)}}
<1>1. pointer \in Option(Nat) /\ Len(outputs) \in Nat
  BY DEF IInv, TypeOK
<1>2. CASE pointed # {}
  <2>1. v \in pointed /\ w \in pointed
    BY <1>2 DEF DefaultOutput
  <2>2. PICK p \in pointer : v = p + 1
    BY <2>1
  <2>3. PICK q \in pointer : w = q + 1
    BY <2>1
  <2>4. p = q
    BY <1>1 DEF Option
  <2> QED BY <2>2, <2>3, <2>4
<1>3. CASE pointed = {}
  <2>1. /\ v \in PlainOutputs /\ w \in PlainOutputs
        /\ v <= w /\ w <= v
    BY <1>3 DEF DefaultOutput
  <2>2. v \in Int /\ w \in Int
    BY <1>1, <2>1 DEF PlainOutputs
  <2> QED BY <2>1, <2>2
<1> QED BY <1>2, <1>3

LEMMA DefaultIsOutput ==
  ASSUME IInv, NEW v \in DefaultOutput
  PROVE  v \in 1 .. Len(outputs)
<1>1. pointer \in Option(Nat) /\ Len(outputs) \in Nat
  BY DEF IInv, TypeOK
<1>2. pointer \subseteq Nat
  BY <1>1 DEF Option
<1> QED BY <1>1, <1>2 DEF DefaultOutput, PlainOutputs

(* Either way the outputs and the burned gain it.                          *)
LEMMA RestMoves ==
  ASSUME IInv, SumsOK, pc = "assign", AssignRest, NEW id \in Known
  PROVE  \E e \in Multiples :
           /\ Total(allocated', id) \in Int /\ Of(burned', id) \in Int
           /\ Total(allocated', id) + Of(burned', id) =
                Total(allocated, id) + Of(burned, id) + Of(unallocated, id) + e
<1>1. /\ Total(allocated, id) \in Int /\ Of(burned, id) \in Int
      /\ Of(unallocated, id) \in Int
  BY TermsAreInts DEF SumsOK
<1>2. /\ allocated \in [1 .. Len(outputs) -> [Known -> Amount]]
      /\ IsPile(burned, Known)
  BY DEF IInv, TypeOK
<1>3. Of(burned, id) = 0
  BY DEF SumsOK, WorkOK, Of
<1>4. CASE cenotaph \/ DefaultOutput = {}
  <2>1. allocated' = allocated /\ Of(burned', id) = Of(unallocated, id)
    BY <1>4 DEF AssignRest, Of
  <2> QED BY <1>1, <1>3, <2>1, MultiplesAdd
<1>5. CASE ~(cenotaph \/ DefaultOutput = {})
  <2>1. PICK v \in DefaultOutput : TRUE
    BY <1>5
  <2>2. v \in DOMAIN allocated
    BY <1>2, <2>1, DefaultIsOutput
  <2>3. /\ burned' = burned
        /\ allocated' = [w \in DOMAIN allocated |->
              IF w \in DefaultOutput
                THEN [i \in Known |->
                        Wrap(allocated[w][i] + Of(unallocated, i))]
                ELSE allocated[w]]
    BY <1>5 DEF AssignRest
  <2>4. DOMAIN allocated' = DOMAIN allocated
    BY <2>3
  <2>5. \A w \in DOMAIN allocated : w # v => allocated'[w] = allocated[w]
    <3>1. \A w \in DOMAIN allocated : w # v => w \notin DefaultOutput
      BY <2>1, OneDefault
    <3> QED BY <2>3, <3>1
  <2>6. /\ allocated[v] \in [Known -> Amount]
        /\ Of(allocated[v], id) = allocated[v][id]
        /\ allocated[v][id] \in Int
    BY <1>2, <2>2, CuneAssumption DEF Of, Amount
  <2>7. Of(allocated'[v], id) = Wrap(allocated[v][id] + Of(unallocated, id))
    BY <2>1, <2>2, <2>3 DEF Of
  <2>8. PICK e \in Multiples :
          Wrap(allocated[v][id] + Of(unallocated, id)) =
            allocated[v][id] + Of(unallocated, id) + e
    BY <1>1, <2>6, WrapAddsMultiple
  <2>9. e \in Int
    BY MultiplesAdd
  <2>10. IsFiniteSet(DOMAIN allocated)
    BY PilesOfInts DEF IInv, SumsOK
  <2>11. \A w \in DOMAIN allocated : Of(allocated[w], id) \in Int
    BY PilesOfInts DEF IInv, SumsOK
  <2>12. \A w \in DOMAIN allocated : w # v => Of(allocated'[w], id) = Of(allocated[w], id)
    BY <2>5
  <2>13. Of(allocated'[v], id) \in Int
    BY <1>1, <2>6, <2>7, <2>8, <2>9
  <2>14. \A w \in DOMAIN allocated :
           Of(allocated[w], id) \in Int /\ Of(allocated'[w], id) \in Int
    BY <2>11, <2>12, <2>13
  <2>15. Total(allocated', id) = Total(allocated, id)
                                   + (Of(allocated'[v], id) - Of(allocated[v], id))
    BY <2>2, <2>4, <2>10, <2>12, <2>14, TotalChange
  <2>16. Total(allocated', id) + Of(burned', id) =
           Total(allocated, id) + Of(burned, id) + Of(unallocated, id) + e
    BY <1>1, <2>3, <2>6, <2>7, <2>8, <2>9, <2>15
  <2>17. Total(allocated', id) \in Int
    BY <1>1, <2>11, <2>13, <2>2, <2>15
  <2> QED BY <1>1, <2>3, <2>16, <2>17
<1> QED BY <1>4, <1>5

(* The entries say what was minted or etched.                              *)
LEMMA AssignBalances ==
  ASSUME IInv, SumsOK, Assign
  PROVE  SumsOK'
<1>1. /\ pc = "assign" /\ pc' = "store" /\ allocation' = {}
      /\ height' = height /\ index' = index /\ balances' = balances
      /\ unallocated' = Empty /\ minted' = Empty
      /\ entries' = EntriesAfter /\ AssignRest
  BY DEF Assign, block
<1>2. /\ DOMAIN entries' = Known /\ Known' = Known
      /\ \A i \in DOMAIN entries : entries'[i] = AfterMint(entries[i], minted[i])
      /\ \A i \in Known \ DOMAIN entries : entries'[i] = Etched(Only(allocation))
  BY <1>1 DEF EntriesAfter, Known, Issued
<1>3. WorkOK'
  BY <1>1 DEF WorkOK
<1>4. OutpointsOK'
  BY <1>1, NoNewOutpoint DEF SumsOK
<1>5. ASSUME NEW id \in DOMAIN entries
      PROVE  \E e \in Multiples : Issue(id)' = Issue(id) + e
  <2>1. entries[id] \in Entry /\ minted[id] \in Amount
    BY <1>1 DEF IInv, TypeOK, IsPile
  <2>2. /\ entries[id].supply \in Int /\ entries[id].premine \in Int
        /\ entries[id].burned \in Int /\ minted[id] \in Int
    BY <2>1, CuneAssumption DEF Entry, Amount
  <2>3. Of(minted, id) = minted[id]
    BY <1>1 DEF IInv, TypeOK, IsPile, Of
  <2>4. Of(minted', id) = 0
    BY <1>1, OfEmpty
  <2>5. Issue(id) = entries[id].supply + entries[id].premine
                      - entries[id].burned + minted[id]
    BY <2>3 DEF Issue
  <2>6. id \in DOMAIN entries'
    BY <1>2 DEF Known
  <2>7. Issue(id)' = entries'[id].supply + entries'[id].premine
                       - entries'[id].burned + 0
    BY <2>4, <2>6 DEF Issue
  <2>8. CASE minted[id] = 0
    <3>1. entries'[id] = entries[id]
      BY <1>2, <2>8 DEF AfterMint
    <3>2. Issue(id)' = Issue(id) + 0
      BY <2>2, <2>5, <2>7, <2>8, <3>1
    <3> QED BY <3>2, MultiplesAdd
  <2>9. CASE minted[id] # 0
    <3>1. PICK e \in Multiples : Wrap(entries[id].supply + minted[id]) =
                                   entries[id].supply + minted[id] + e
      BY <2>2, WrapAddsMultiple
    <3>2. e \in Int
      BY MultiplesAdd
    <3>3. /\ entries'[id].supply = entries[id].supply + minted[id] + e
          /\ entries'[id].premine = entries[id].premine
          /\ entries'[id].burned = entries[id].burned
      BY <1>2, <2>1, <2>9, <3>1 DEF AfterMint, Entry
    <3>4. Issue(id)' = Issue(id) + e
      BY <2>2, <2>5, <2>7, <3>2, <3>3
    <3> QED BY <3>4
  <2> QED BY <2>8, <2>9
<1>6. ASSUME NEW id \in Known, id \notin DOMAIN entries
      PROVE  \E e \in Multiples : Issue(id)' = Issue(id) + e
  <2> DEFINE a == Only(allocation)
  <2>1. allocation # {}
    BY <1>6 DEF Known, Issued
  <2>2. a \in allocation /\ a \in Allocation
    BY <2>1, OnlyIn DEF IInv, TypeOK, Option
  <2>3. a.balance \in Amount /\ premineAmount \in Amount
    BY <2>2 DEF Allocation, IInv, TypeOK
  <2>4. a.balance \in Int /\ premineAmount \in Int /\ U128Max \in Int
    BY <2>3, CuneAssumption DEF Amount
  <2>5. entries'[id] = Etched(a)
    BY <1>2, <1>6
  <2>6. Issue(id) = U128Max - a.balance
    BY <1>6 DEF Issue
  <2> HIDE DEF a
  <2>7. PICK e \in Multiples : Wrap(U128Max - a.balance - premineAmount) =
                                 U128Max - a.balance - premineAmount + e
    BY <2>4, WrapAddsMultiple
  <2>8. e \in Int
    BY MultiplesAdd
  <2>9. /\ entries'[id].supply = U128Max - a.balance - premineAmount + e
        /\ entries'[id].premine = premineAmount
        /\ entries'[id].burned = 0
    BY <2>5, <2>7 DEF Etched
  <2>10. Of(minted', id) = 0
    BY <1>1, OfEmpty
  <2>11. Issue(id)' = entries'[id].supply + entries'[id].premine
                        - entries'[id].burned + 0
    BY <1>2, <2>10 DEF Issue
  <2>12. Issue(id)' = Issue(id) + e
    BY <2>4, <2>6, <2>8, <2>9, <2>11
  <2> QED BY <2>12
<1>7. Balanced'
  <2> SUFFICES ASSUME NEW id \in Known PROVE (Held(id) - Issue(id))' \in Multiples
    BY <1>2 DEF Balanced
  <2>1. /\ Total(balances, id) \in Int /\ Of(unallocated, id) \in Int
        /\ Total(allocated, id) \in Int /\ Of(burned, id) \in Int
        /\ Held(id) \in Int /\ Issue(id) \in Int
    BY TermsAreInts DEF SumsOK
  <2>2. PICK d \in Multiples :
          /\ Total(allocated', id) \in Int /\ Of(burned', id) \in Int
          /\ Total(allocated', id) + Of(burned', id) =
               Total(allocated, id) + Of(burned, id) + Of(unallocated, id) + d
    BY <1>1, RestMoves
  <2>3. PICK e \in Multiples : Issue(id)' = Issue(id) + e
    BY <1>5, <1>6
  <2>4. d \in Int /\ e \in Int /\ d - e \in Multiples
    BY MultiplesAdd
  <2>5. Held(id)' = Total(balances, id) + 0
                      + Total(allocated', id) + Of(burned', id)
    BY <1>1, OfEmpty DEF Held
  <2>6. Held(id)' = Held(id) + d
    BY <2>1, <2>2, <2>4, <2>5 DEF Held
  <2>7. Held(id) - Issue(id) \in Multiples
    BY DEF SumsOK, Balanced
  <2>8. (Held(id) - Issue(id))' = (Held(id) - Issue(id)) + (d - e)
    BY <2>1, <2>3, <2>4, <2>6
  <2> QED BY <2>4, <2>7, <2>8, StillBalanced
<1> QED BY <1>3, <1>4, <1>7 DEF SumsOK

(* The last output's cunes go to its outpoint or are burned.               *)
LEMMA StoreOutputBalances ==
  ASSUME IInv, SumsOK, StoreOutput
  PROVE  SumsOK'
<1> DEFINE v == Len(outputs)
<1>1. /\ pc = "store" /\ pc' = "store" /\ outputs # << >>
      /\ outputs' = SubSeq(outputs, 1, v - 1)
      /\ allocated' = [w \in 1 .. v - 1 |-> allocated[w]]
      /\ height' = height /\ index' = index /\ entries' = entries
      /\ allocation' = allocation /\ unallocated' = unallocated
      /\ minted' = minted
  BY DEF StoreOutput, block
<1>2. /\ outputs \in Seq(BOOLEAN) /\ v \in Nat /\ v > 0
      /\ Len(outputs') = v - 1
  BY <1>1, ShorterOutputs DEF IInv, TypeOK
<1>3. /\ allocated \in [1 .. v -> [Known -> Amount]]
      /\ IsPile(burned, Known)
  BY <1>1 DEF IInv, TypeOK
<1>4. /\ v \in DOMAIN allocated
      /\ DOMAIN allocated' = DOMAIN allocated \ {v}
      /\ \A w \in DOMAIN allocated' : allocated'[w] = allocated[w]
  BY <1>1, <1>2, <1>3
<1>5. Known = DOMAIN entries /\ Known' = Known
  BY <1>1 DEF Known, Issued, IInv, IssueOK
<1>6. Outpoint(v) \notin DOMAIN balances
  <2>1. ~Before(block)
    BY DEF Before, block, IInv, TypeOK
  <2>2. SUFFICES ASSUME Outpoint(v) \in DOMAIN balances PROVE FALSE
    OBVIOUS
  <2>3. Outpoint(v)[1] = height /\ Outpoint(v)[2] = index /\ Outpoint(v)[3] = v
    BY DEF Outpoint
  <2>4. Before(<<height, index>>) \/ v > v
    BY <2>2, <2>3 DEF SumsOK, OutpointsOK
  <2> QED BY <1>2, <2>1, <2>4 DEF block
<1>7. \/ outputs[v] /\ balances' = balances
           /\ burned' = [i \in DOMAIN burned |-> Wrap(burned[i] + allocated[v][i])]
      \/ /\ burned' = burned /\ balances' = balances
         /\ \A i \in DOMAIN allocated[v] : allocated[v][i] = 0
      \/ /\ burned' = burned
         /\ balances' = [o \in DOMAIN balances \cup {Outpoint(v)} |->
                           IF o = Outpoint(v) THEN allocated[v] ELSE balances[o]]
  BY DEF StoreOutput
<1> HIDE DEF v
<1>8. WorkOK'
  BY <1>1 DEF SumsOK, WorkOK
<1>9. OutpointsOK'
  <2>1. DOMAIN balances' \subseteq DOMAIN balances \cup {Outpoint(v)}
    BY <1>7
  <2>2. IsFiniteSet(DOMAIN balances')
    <3>1. IsFiniteSet(DOMAIN balances \cup {Outpoint(v)})
      BY FS_AddElement DEF SumsOK, OutpointsOK
    <3> QED BY <2>1, <3>1, FS_Subset
  <2>3. ASSUME NEW o \in DOMAIN balances
        PROVE  /\ o \in Nat \X Nat \X Nat
               /\ \/ Before(<<o[1], o[2]>>)'
                  \/ <<o[1], o[2]>> = block' /\ o[3] > Len(outputs')
    <3>1. /\ o \in Nat \X Nat \X Nat
          /\ \/ Before(<<o[1], o[2]>>)
             \/ <<o[1], o[2]>> = block /\ o[3] > v
      BY DEF SumsOK, OutpointsOK, v
    <3>2. o[3] \in Nat
      BY <3>1
    <3>3. block' = block /\ (Before(<<o[1], o[2]>>)' <=> Before(<<o[1], o[2]>>))
      BY <1>1 DEF block, Before
    <3> QED BY <1>2, <3>1, <3>2, <3>3
  <2>4. /\ Outpoint(v) \in Nat \X Nat \X Nat
        /\ Outpoint(v)[1] = height /\ Outpoint(v)[2] = index
        /\ Outpoint(v)[3] = v /\ v > Len(outputs')
    BY <1>2 DEF Outpoint, IInv, TypeOK
  <2>5. <<Outpoint(v)[1], Outpoint(v)[2]>> = block'
    BY <1>1, <2>4 DEF block
  <2> QED BY <1>1, <2>1, <2>2, <2>3, <2>4, <2>5 DEF OutpointsOK
<1>10. Balanced'
  <2> SUFFICES ASSUME NEW id \in Known PROVE (Held(id) - Issue(id))' \in Multiples
    BY <1>5 DEF Balanced
  <2>1. /\ Total(balances, id) \in Int /\ Of(unallocated, id) \in Int
        /\ Total(allocated, id) \in Int /\ Of(burned, id) \in Int
        /\ Held(id) \in Int /\ Issue(id) \in Int
    BY TermsAreInts DEF SumsOK
  <2>2. /\ IsFiniteSet(DOMAIN balances) /\ IsFiniteSet(DOMAIN allocated)
        /\ \A o \in DOMAIN balances : Of(balances[o], id) \in Int
        /\ \A w \in DOMAIN allocated : Of(allocated[w], id) \in Int
    BY PilesOfInts DEF IInv, SumsOK
  <2>3. Total(allocated', id) = Total(allocated, id) - Of(allocated[v], id)
    BY <1>4, <2>2, TotalLess
  <2>4. /\ Of(allocated[v], id) = allocated[v][id]
        /\ Of(burned, id) = burned[id]
        /\ Of(allocated[v], id) \in Int
        /\ DOMAIN allocated[v] = Known
    BY <1>3, <1>4, <2>2 DEF IsPile, Of
  <2>5. Issue(id)' = Issue(id)
    BY <1>1 DEF Issue
  <2>6. Held(id) - Issue(id) \in Multiples
    BY DEF SumsOK, Balanced
  <2>7. ASSUME balances' = balances,
               burned' = [i \in DOMAIN burned |-> Wrap(burned[i] + allocated[v][i])]
        PROVE  (Held(id) - Issue(id))' \in Multiples
    <3>1. PICK e \in Multiples : Wrap(burned[id] + allocated[v][id]) =
                                   burned[id] + allocated[v][id] + e
      BY <2>1, <2>4, WrapAddsMultiple
    <3>2. e \in Int
      BY MultiplesAdd
    <3>3. Of(burned', id) = Of(burned, id) + Of(allocated[v], id) + e
      BY <1>3, <2>4, <2>7, <3>1 DEF IsPile, Of
    <3>4. Held(id)' = Held(id) + e
      BY <1>1, <2>1, <2>3, <2>4, <2>7, <3>2, <3>3 DEF Held
    <3>5. (Held(id) - Issue(id))' = (Held(id) - Issue(id)) + e
      BY <2>1, <2>5, <3>2, <3>4
    <3> QED BY <2>6, <3>5, StillBalanced
  <2>8. ASSUME burned' = burned, balances' = balances,
               \A i \in DOMAIN allocated[v] : allocated[v][i] = 0
        PROVE  (Held(id) - Issue(id))' \in Multiples
    <3>1. Of(allocated[v], id) = 0
      BY <2>4, <2>8
    <3>2. Held(id)' = Held(id)
      BY <1>1, <2>1, <2>3, <2>8, <3>1 DEF Held
    <3> QED BY <2>5, <2>6, <3>2
  <2>9. ASSUME burned' = burned,
               balances' = [o \in DOMAIN balances \cup {Outpoint(v)} |->
                           IF o = Outpoint(v) THEN allocated[v] ELSE balances[o]]
        PROVE  (Held(id) - Issue(id))' \in Multiples
    <3>1. /\ DOMAIN balances' = DOMAIN balances \cup {Outpoint(v)}
          /\ \A o \in DOMAIN balances : balances'[o] = balances[o]
          /\ balances'[Outpoint(v)] = allocated[v]
      BY <1>6, <2>9
    <3>2. \A o \in DOMAIN balances' : Of(balances'[o], id) \in Int
      BY <2>2, <2>4, <3>1
    <3> DEFINE y == Outpoint(v)
    <3>3. y \notin DOMAIN balances /\ DOMAIN balances' = DOMAIN balances \cup {y}
      BY <1>6, <3>1
    <3>4. Total(balances', id) = Total(balances, id) + Of(balances'[y], id)
      <4> HIDE DEF y
      <4> QED BY <2>2, <3>1, <3>2, <3>3, TotalMore
    <3>5. Total(balances', id) = Total(balances, id) + Of(allocated[v], id)
      BY <3>1, <3>4
    <3>6. Held(id)' = Held(id)
      BY <1>1, <2>1, <2>3, <2>4, <2>9, <3>5 DEF Held
    <3> QED BY <2>5, <2>6, <3>6
  <2> QED BY <1>7, <2>7, <2>8, <2>9
<1> QED BY <1>8, <1>9, <1>10 DEF SumsOK

(* What was burned leaves the issue.                                       *)
LEMMA AddBurnedBalances ==
  ASSUME IInv, SumsOK, AddBurned
  PROVE  SumsOK'
<1>1. /\ pc = "store" /\ pc' = "idle" /\ outputs = << >>
      /\ entries' = [i \in DOMAIN entries |->
                       [entries[i] EXCEPT !.burned = Wrap(@ + burned[i])]]
      /\ index' = index + 1 /\ height' = height /\ burned' = Empty
      /\ balances' = balances /\ allocation' = allocation
      /\ unallocated' = unallocated /\ minted' = minted
      /\ allocated' = allocated
  BY DEF AddBurned
<1>2. /\ height \in Nat /\ index \in Nat /\ IsPile(burned, Known)
      /\ Known = DOMAIN entries /\ Known' = Known
      /\ DOMAIN allocated = 1 .. 0
  BY <1>1, EmptySeq DEF IInv, TypeOK, IssueOK, Known, Issued
<1>3. WorkOK'
  BY <1>1, <1>2 DEF SumsOK, WorkOK
<1>4. OutpointsOK'
  <2>1. ASSUME NEW o \in DOMAIN balances
        PROVE  o \in Nat \X Nat \X Nat /\ Before(<<o[1], o[2]>>)'
    <3>1. /\ o \in Nat \X Nat \X Nat
          /\ Before(<<o[1], o[2]>>) \/ <<o[1], o[2]>> = block
      BY DEF SumsOK, OutpointsOK
    <3>2. o[1] \in Nat /\ o[2] \in Nat
      BY <3>1
    <3> QED BY <1>1, <1>2, <3>1, <3>2 DEF Before, block
  <2> QED BY <1>1, <2>1 DEF SumsOK, OutpointsOK
<1>5. Balanced'
  <2> SUFFICES ASSUME NEW id \in Known PROVE (Held(id) - Issue(id))' \in Multiples
    BY <1>2 DEF Balanced
  <2>1. /\ Total(balances, id) \in Int /\ Of(unallocated, id) \in Int
        /\ Total(allocated, id) \in Int /\ Of(burned, id) \in Int
        /\ Of(minted, id) \in Int
        /\ Held(id) \in Int /\ Issue(id) \in Int
    BY TermsAreInts DEF SumsOK
  <2>2. Of(burned, id) = burned[id] /\ Of(burned', id) = 0
    BY <1>1, <1>2, OfEmpty DEF IsPile, Of
  <2>3. entries[id] \in Entry
    BY <1>2 DEF IInv, TypeOK
  <2>4. /\ entries[id].supply \in Int /\ entries[id].premine \in Int
        /\ entries[id].burned \in Int
    BY <2>3, CuneAssumption DEF Entry, Amount
  <2>5. PICK e \in Multiples : Wrap(entries[id].burned + burned[id]) =
                                 entries[id].burned + burned[id] + e
    BY <2>1, <2>2, <2>4, WrapAddsMultiple
  <2>6. e \in Int /\ 0 \in Multiples
    BY MultiplesAdd
  <2>7. /\ entries'[id].supply = entries[id].supply
        /\ entries'[id].premine = entries[id].premine
        /\ entries'[id].burned = entries[id].burned + burned[id] + e
    BY <1>1, <1>2, <2>3, <2>5 DEF Entry
  <2>8. Issue(id) = entries[id].supply + entries[id].premine
                      - entries[id].burned + Of(minted, id)
    BY <1>2 DEF Issue
  <2>9. Issue(id)' = entries'[id].supply + entries'[id].premine
                      - entries'[id].burned + Of(minted, id)
    BY <1>1, <1>2 DEF Issue
  <2>10. Issue(id)' = Issue(id) - burned[id] - e
    BY <2>1, <2>2, <2>4, <2>6, <2>7, <2>8, <2>9
  <2>11. Held(id)' = Held(id) - burned[id]
    BY <1>1, <2>1, <2>2 DEF Held
  <2>12. Held(id) - Issue(id) \in Multiples
    BY DEF SumsOK, Balanced
  <2>13. (Held(id) - Issue(id))' = (Held(id) - Issue(id)) + e
    BY <2>1, <2>2, <2>6, <2>10, <2>11
  <2> QED BY <2>12, <2>13, StillBalanced
<1> QED BY <1>3, <1>4, <1>5 DEF SumsOK

(* Every step of the updater keeps the balance.                            *)
LEMMA StepBalances == IInv /\ IInv' /\ SumsOK /\ [Next]_vars => SumsOK'
<1> SUFFICES ASSUME IInv, IInv', SumsOK, [Next]_vars PROVE SumsOK'
  OBVIOUS
<1>1. CASE Transaction
  BY <1>1, NextTransactionBalances, SpendInputBalances, NoCunestoneBalances,
     CunestoneBalances, EndEdictsBalances, AssignBalances, StoreOutputBalances,
     AddBurnedBalances DEF Transaction
<1>2. CASE NextBlock
  BY <1>2, NextBlockBalances
<1>3. CASE \E kind \in EdictKind, id \in DOMAIN entries \cup {block},
             asked \in Asked, output \in 0 .. Len(outputs) :
             ReadEdict(kind, id, asked, output)
  BY <1>3, ReadEdictBalances
<1>4. CASE UNCHANGED vars
  <2> USE <1>4 DEF vars, block, tables, stone, work
  <2>1. WorkOK'
    BY DEF SumsOK, WorkOK, Known, Issued
  <2>2. OutpointsOK'
    BY DEF SumsOK, OutpointsOK, Before
  <2>3. Balanced'
    BY NothingMoves DEF SumsOK
  <2> QED BY <2>1, <2>2, <2>3 DEF SumsOK
<1> QED BY <1>1, <1>2, <1>3, <1>4 DEF Next

(* Nothing is held of nothing at first.                                    *)
LEMMA InitBalances == Init => SumsOK
<1> SUFFICES ASSUME Init PROVE SumsOK
  OBVIOUS
<1>1. /\ DOMAIN entries = {} /\ DOMAIN balances = {} /\ DOMAIN allocated = {}
      /\ allocation = {} /\ pc = "idle"
  BY DEF Init, Empty, None
<1>2. WorkOK
  BY <1>1 DEF Init, WorkOK
<1>3. OutpointsOK
  BY <1>1, FS_EmptySet DEF OutpointsOK
<1>4. Balanced
  BY <1>1 DEF Balanced, Known, Issued
<1> QED BY <1>2, <1>3, <1>4 DEF SumsOK

(* Whatever etchings, claims, edicts and outputs transactions have, and    *)
(* however amounts wrap: what outpoints and the transaction under way hold *)
(* of a cune is what was issued of it, modulo 2^128.                       *)
THEOREM CunesAreConserved == Spec => []Conserved
<1>1. Spec => [](IInv /\ SumsOK)
  <2>1. Init => IInv /\ SumsOK
    BY InitIsGood, InitBalances
  <2>2. IInv /\ SumsOK /\ [Next]_vars => (IInv /\ SumsOK)'
    BY StepKeeps, StepBalances
  <2> QED BY <2>1, <2>2, PTL DEF Spec
<1>2. SumsOK => Conserved
  BY WrapOfMultiple DEF SumsOK, Balanced, Conserved
<1> QED BY <1>1, <1>2, PTL
=============================================================================
