--------------------------- MODULE InscriptionProofs ---------------------------
(* Theorems about the inscription and the sat index, for every chain of    *)
(* transactions, all epochs and scripts, and all settings of the options.  *)
EXTENDS InscriptionIndex, SumTheorems, SequenceTheorems, TLAPS

(* A chain of partial transactions has a transaction, and those the node   *)
(* has brought only.                                                       *)
Known(c) ==
  /\ c \in Seq(Nat) /\ c # << >>
  /\ ToSet(c) \subseteq 0 .. next_txid - 1

ChainsOK ==
  /\ next_txid \in Nat
  /\ \A k \in DOMAIN partial_txid_to_txids : Known(partial_txid_to_txids[k])
  /\ \A i \in DOMAIN id_to_txids : Known(id_to_txids[i])

ChainsInv == ChainsOK /\ ChainsAreDisjoint

(* Outputs are those of transactions the node has brought.  Before the     *)
(* first height of inscriptions there are no values, and an index of       *)
(* transactions has that of each value.                                    *)
Empty ==
  DOMAIN value_cache = {} /\ DOMAIN outpoint_to_value = {} /\ address_to_outpoint = {}

ValuesOK ==
  /\ next_txid \in Nat /\ height \in Nat
  /\ \A o \in DOMAIN unspent : o.txid \in 0 .. next_txid - 1
  /\ ~index_inscriptions => Empty
  /\ options.transactions =>
       \A o \in (DOMAIN value_cache) \cup (DOMAIN outpoint_to_value) :
         o.txid \in transaction_id_to_transaction

ValuesInv == ValuesOK /\ ValuesAgree

-----------------------------------------------------------------------------
(* Chains                                                                  *)

(* The members of a sequence with one more.                                *)
LEMMA MembersOfAppend ==
  ASSUME NEW c \in Seq(Nat), NEW t \in Nat
  PROVE  /\ Append(c, t) \in Seq(Nat) /\ Append(c, t) # << >>
         /\ ToSet(Append(c, t)) = ToSet(c) \cup {t}
         /\ Last(Append(c, t)) = t
         /\ c # << >> => Head(Append(c, t)) = Head(c)
<1>1. /\ Append(c, t) \in Seq(Nat) /\ Len(Append(c, t)) = Len(c) + 1
      /\ Append(c, t)[Len(c) + 1] = t
      /\ \A i \in 1 .. Len(c) : Append(c, t)[i] = c[i]
  OBVIOUS
<1> Append(c, t) # << >>
  BY <1>1
<1>2. ToSet(Append(c, t)) = ToSet(c) \cup {t}
  BY <1>1 DEF ToSet
<1>3. Last(Append(c, t)) = t
  BY <1>1 DEF Last
<1>4. c # << >> => Head(Append(c, t)) = Head(c)
  BY <1>1
<1> QED
  BY <1>1, <1>2, <1>3, <1>4

(* The head of a chain is one of its members.                              *)
LEMMA HeadIsMember ==
  ASSUME NEW c \in Seq(Nat), c # << >>
  PROVE  Head(c) \in ToSet(c) /\ Last(c) \in ToSet(c)
BY DEF ToSet, Last

(* What a transaction continues is a chain that ends with it; its other    *)
(* members are those of the partial chain of its first input.              *)
LEMMA ContinuedIsChain ==
  ASSUME ChainsOK, NEW tx, tx.txid = next_txid
  PROVE  LET c == Continued(tx)
             k == tx.inputs[1].txid
         IN  /\ c \in Seq(Nat) /\ c # << >>
             /\ Last(c) = tx.txid
             /\ k \in DOMAIN partial_txid_to_txids =>
                  /\ ToSet(c) = ToSet(partial_txid_to_txids[k]) \cup {tx.txid}
                  /\ Head(c) = Head(partial_txid_to_txids[k])
             /\ k \notin DOMAIN partial_txid_to_txids =>
                  ToSet(c) = {tx.txid} /\ Head(c) = tx.txid
<1> DEFINE k == tx.inputs[1].txid
<1>1. tx.txid \in Nat
  BY DEF ChainsOK
<1>2. CASE k \in DOMAIN partial_txid_to_txids
  <2>1. Continued(tx) = Append(partial_txid_to_txids[k], tx.txid)
    BY <1>2 DEF Continued
  <2>2. partial_txid_to_txids[k] \in Seq(Nat) /\ partial_txid_to_txids[k] # << >>
    BY <1>2 DEF ChainsOK, Known
  <2> QED
    BY <1>1, <1>2, <2>1, <2>2, MembersOfAppend
<1>3. CASE k \notin DOMAIN partial_txid_to_txids
  <2>1. Continued(tx) = <<tx.txid>>
    BY <1>3 DEF Continued
  <2>2. ToSet(<<tx.txid>>) = {tx.txid} /\ Last(<<tx.txid>>) = tx.txid
    BY DEF ToSet, Last
  <2> QED
    BY <1>1, <1>3, <2>1, <2>2
<1> QED
  BY <1>2, <1>3

(* Moving the chains of the transaction that comes next keeps them apart.  *)
LEMMA MoveChainsKeeps ==
  ASSUME ChainsInv, NEW tx, tx.txid = next_txid, NEW parsed,
         MoveChains(tx, parsed), next_txid' = next_txid + 1
  PROVE  ChainsInv'
<1> DEFINE k == tx.inputs[1].txid
           c == Continued(tx)
           partial == partial_txid_to_txids
<1>1. /\ c \in Seq(Nat) /\ c # << >>
      /\ Last(c) = next_txid
      /\ k \in DOMAIN partial =>
           ToSet(c) = ToSet(partial[k]) \cup {next_txid} /\ Head(c) = Head(partial[k])
      /\ k \notin DOMAIN partial => ToSet(c) = {next_txid} /\ Head(c) = next_txid
  BY ContinuedIsChain DEF ChainsInv
<1>2. /\ next_txid \in Nat
      /\ \A l \in DOMAIN partial :
           /\ partial[l] \in Seq(Nat) /\ partial[l] # << >>
           /\ ToSet(partial[l]) \subseteq 0 .. next_txid - 1
      /\ \A i \in DOMAIN id_to_txids :
           /\ id_to_txids[i] \in Seq(Nat) /\ id_to_txids[i] # << >>
           /\ ToSet(id_to_txids[i]) \subseteq 0 .. next_txid - 1
  BY DEF ChainsInv, ChainsOK, Known
<1>3. ToSet(c) \subseteq 0 .. next_txid
  BY <1>1, <1>2
<1>4. \A l \in DOMAIN partial : l # k => Disjoint(c, partial[l])
  <2> SUFFICES ASSUME NEW l \in DOMAIN partial, l # k PROVE Disjoint(c, partial[l])
    OBVIOUS
  <2>1. next_txid \notin ToSet(partial[l])
    BY <1>2
  <2>2. k \in DOMAIN partial => ToSet(partial[k]) \cap ToSet(partial[l]) = {}
    BY DEF ChainsInv, ChainsAreDisjoint, Disjoint
  <2> QED
    BY <1>1, <2>1, <2>2 DEF Disjoint
<1>5. \A i \in DOMAIN id_to_txids : Disjoint(c, id_to_txids[i])
  <2> SUFFICES ASSUME NEW i \in DOMAIN id_to_txids PROVE Disjoint(c, id_to_txids[i])
    OBVIOUS
  <2>1. next_txid \notin ToSet(id_to_txids[i])
    BY <1>2
  <2>2. k \in DOMAIN partial => ToSet(partial[k]) \cap ToSet(id_to_txids[i]) = {}
    BY DEF ChainsInv, ChainsAreDisjoint, Disjoint
  <2> QED
    BY <1>1, <2>1, <2>2 DEF Disjoint
<1>6. CASE parsed = "Partial"
  <2>1. /\ DOMAIN partial' = ((DOMAIN partial) \ {k}) \cup {next_txid}
        /\ partial'[next_txid] = c
        /\ \A l \in (DOMAIN partial) \ {k} : l # next_txid => partial'[l] = partial[l]
    BY <1>6 DEF MoveChains, OtherChains, Without, With, WithRow
  <2>2. id_to_txids' = id_to_txids
    BY <1>6 DEF MoveChains
  <2>3. DOMAIN txid_to_tx' = (DOMAIN txid_to_tx) \cup {next_txid}
    BY <1>6 DEF MoveChains, With, WithRow
  <2>4. ChainsOK'
    BY <1>1, <1>2, <1>3, <2>1, <2>2, SMTT(30) DEF ChainsOK, Known
  <2>5. ToSet(c) \subseteq DOMAIN txid_to_tx'
    BY <1>1, <2>3 DEF ChainsInv, ChainsAreDisjoint
  <2>6. ChainsAreDisjoint'
    BY <1>1, <1>4, <1>5, <2>1, <2>2, <2>3, <2>5
      DEF ChainsInv, ChainsAreDisjoint, Disjoint
  <2> QED
    BY <2>4, <2>6 DEF ChainsInv
<1>7. CASE parsed = "Complete"
  <2>1. /\ DOMAIN partial' = (DOMAIN partial) \ {k}
        /\ \A l \in (DOMAIN partial) \ {k} : partial'[l] = partial[l]
    BY <1>7 DEF MoveChains, OtherChains, Without, With, WithRow
  <2>2. /\ DOMAIN id_to_txids' = (DOMAIN id_to_txids) \cup {Head(c)}
        /\ id_to_txids'[Head(c)] = c
        /\ \A i \in DOMAIN id_to_txids : i # Head(c) => id_to_txids'[i] = id_to_txids[i]
    <3>1. Head(c) = c[1]
      BY <1>1
    <3> QED
      BY <1>7, <3>1 DEF MoveChains, With, WithRow
  <2>3. DOMAIN txid_to_tx' = (DOMAIN txid_to_tx) \cup {next_txid}
    BY <1>7 DEF MoveChains, With, WithRow
  <2>4. ChainsOK'
    BY <1>1, <1>2, <1>3, <2>1, <2>2 DEF ChainsOK, Known
  <2>5. ChainsAreDisjoint'
    BY <1>1, <1>4, <1>5, <2>1, <2>2, <2>3 DEF ChainsInv, ChainsAreDisjoint, Disjoint
  <2> QED
    BY <2>4, <2>5 DEF ChainsInv
<1>8. CASE parsed \notin {"Partial", "Complete"}
  <2>1. partial' = partial /\ id_to_txids' = id_to_txids /\ txid_to_tx' = txid_to_tx
    BY <1>8 DEF MoveChains
  <2>2. ChainsOK'
    BY <1>2, <2>1 DEF ChainsOK, Known
  <2>3. ChainsAreDisjoint'
    BY <2>1 DEF ChainsInv, ChainsAreDisjoint, Disjoint
  <2> QED
    BY <2>2, <2>3 DEF ChainsInv
<1> QED
  BY <1>6, <1>7, <1>8

(* A step that leaves the chains alone keeps them apart.                   *)
LEMMA SameChains ==
  ASSUME ChainsInv, UNCHANGED chains, next_txid' \in Nat, next_txid' >= next_txid
  PROVE  ChainsInv'
<1>1. /\ partial_txid_to_txids' = partial_txid_to_txids
      /\ id_to_txids' = id_to_txids /\ txid_to_tx' = txid_to_tx
  BY DEF chains
<1>2. ChainsOK'
  <2>1. ASSUME NEW c, Known(c) PROVE Known(c)'
    BY <2>1 DEF Known, ChainsInv, ChainsOK
  <2> QED
    BY <1>1, <2>1 DEF ChainsInv, ChainsOK
<1>3. ChainsAreDisjoint'
  BY <1>1 DEF ChainsInv, ChainsAreDisjoint, Disjoint
<1> QED
  BY <1>2, <1>3 DEF ChainsInv

(* There is no chain at first.                                             *)
LEMMA ChainsBegin == Init => ChainsInv
BY DEF Init, ChainsInv, ChainsOK, ChainsAreDisjoint

(* Each step keeps the chains apart.                                       *)
LEMMA ChainsStep == ChainsInv /\ [Next]_vars => ChainsInv'
<1> SUFFICES ASSUME ChainsInv, [Next]_vars PROVE ChainsInv'
  OBVIOUS
<1>1. next_txid \in Nat
  BY DEF ChainsInv, ChainsOK
<1>2. CASE BeginBlock
  BY <1>1, <1>2, SameChains DEF BeginBlock
<1>3. ASSUME NEW tx \in Spends, IndexTransaction(tx) PROVE ChainsInv'
  <2>1. tx.txid = next_txid
    BY DEF Spends
  <2>2. next_txid' = next_txid + 1
    BY <1>3 DEF IndexTransaction, Extend
  <2>3. CASE index_inscriptions
    <3>1. PICK parsed : MoveChains(tx, parsed)
      BY <1>3, <2>3 DEF IndexTransaction, IndexInscriptions
    <3> QED
      BY <2>1, <2>2, <3>1, MoveChainsKeeps
  <2>4. CASE ~index_inscriptions
    BY <1>1, <1>3, <2>2, <2>4, SameChains DEF IndexTransaction
  <2> QED
    BY <2>3, <2>4
<1>4. ASSUME NEW outs, IndexCoinbase(outs) PROVE ChainsInv'
  <2>1. next_txid' = next_txid + 1
    BY <1>4 DEF IndexCoinbase, CoinbaseOf, Claims, Extend
  <2>2. UNCHANGED chains
    BY <1>4 DEF IndexCoinbase, CoinbaseOf, Claims, IndexCoinbaseInscriptions
  <2> QED
    BY <1>1, <2>1, <2>2, SameChains
<1>5. CASE Commit
  BY <1>1, <1>5, SameChains DEF Commit, chain
<1>6. CASE UNCHANGED vars
  BY <1>1, <1>6, SameChains DEF vars, chain
<1>7. ASSUME NEW tx, Stop(tx) PROVE ChainsInv'
  BY <1>1, <1>7, SameChains DEF Stop, chain
<1> QED
  BY <1>2, <1>3, <1>4, <1>5, <1>6, <1>7 DEF Next

(* Whatever inputs and scripts transactions have, a transaction is in one  *)
(* chain at most, and the unwrap of a stored transaction finds it.         *)
THEOREM ChainsStayDisjoint == Spec => []ChainsAreDisjoint
<1>1. ChainsInv => ChainsAreDisjoint
  BY DEF ChainsInv
<1> QED
  BY <1>1, ChainsBegin, ChainsStep, PTL DEF Spec

-----------------------------------------------------------------------------
(* Values                                                                  *)

(* The outputs of a transaction have its txid.                             *)
LEMMA OutputsOfTx ==
  ASSUME NEW tx
  PROVE  \A o \in ToSet(OutPointsOf(tx)) : o.txid = tx.txid
<1> SUFFICES ASSUME NEW o \in ToSet(OutPointsOf(tx)) PROVE o.txid = tx.txid
  OBVIOUS
<1>1. PICK j \in DOMAIN OutPointsOf(tx) : o = OutPointsOf(tx)[j]
  BY DEF ToSet
<1>2. OutPointsOf(tx)[j] = [txid |-> tx.txid, vout |-> j - 1]
  BY DEF OutPointsOf
<1> QED
  BY <1>1, <1>2

(* Values move with the outputs of the chain.                              *)
LEMMA MoveValuesKeeps ==
  ASSUME ValuesInv, NEW tx, tx.txid = next_txid, MoveValues(tx), Extend(tx),
         options' = options, height' \in Nat, index_inscriptions'
  PROVE  ValuesInv'
<1> DEFINE outs == ToSet(OutPointsOf(tx))
           ins == ToSet(tx.inputs)
<1>1. \A o \in outs : o.txid = next_txid
  BY OutputsOfTx
<1>2. /\ DOMAIN unspent' = ((DOMAIN unspent) \ ins) \cup outs
      /\ \A o \in outs : unspent'[o] = tx.outputs[o.vout + 1]
      /\ \A o \in (DOMAIN unspent) \ ins : o \notin outs => unspent'[o] = unspent[o]
      /\ next_txid' = next_txid + 1
  BY DEF Extend, With, Without
<1>3. /\ DOMAIN value_cache' = ((DOMAIN value_cache) \ ins) \cup outs
      /\ \A o \in outs : value_cache'[o] = tx.outputs[o.vout + 1]
      /\ \A o \in (DOMAIN value_cache) \ ins :
           o \notin outs => value_cache'[o] = value_cache[o]
  BY DEF MoveValues, With, Without
<1>4. /\ DOMAIN outpoint_to_value' = (DOMAIN outpoint_to_value) \ ins
      /\ \A o \in DOMAIN outpoint_to_value' :
           outpoint_to_value'[o] = outpoint_to_value[o]
  <2>1. RemovedFromTable(tx) = ins \cap DOMAIN outpoint_to_value
    BY DEF RemovedFromTable, ValuesInv, ValuesAgree
  <2> QED
    BY <2>1 DEF MoveValues, Without
<1>5. outs \cap DOMAIN unspent = {}
  BY <1>1 DEF ValuesInv, ValuesOK
<1>6. ValuesOK'
  <2>1. \A o \in DOMAIN unspent' : o.txid \in 0 .. next_txid' - 1
    <3>1. \A o \in DOMAIN unspent : o.txid \in 0 .. next_txid
      BY DEF ValuesInv, ValuesOK
    <3> QED
      BY <1>1, <1>2, <3>1 DEF ValuesInv, ValuesOK
  <2>2. options.transactions =>
          \A o \in (DOMAIN value_cache') \cup (DOMAIN outpoint_to_value') :
            o.txid \in transaction_id_to_transaction'
    BY <1>1, <1>3, <1>4 DEF MoveValues, ValuesInv, ValuesOK
  <2> QED
    BY <1>2, <2>1, <2>2 DEF ValuesInv, ValuesOK
<1>7. ValuesAgree'
  <2>1. (DOMAIN value_cache') \cap (DOMAIN outpoint_to_value') = {}
    BY <1>3, <1>4, <1>5 DEF ValuesInv, ValuesAgree
  <2>2. \A o \in DOMAIN value_cache' :
          o \in DOMAIN unspent' /\ value_cache'[o] = unspent'[o]
    BY <1>2, <1>3 DEF ValuesInv, ValuesAgree
  <2>3. \A o \in DOMAIN outpoint_to_value' :
          o \in DOMAIN unspent' /\ outpoint_to_value'[o] = unspent'[o]
    BY <1>2, <1>4, <1>5 DEF ValuesInv, ValuesAgree
  <2>4. options.transactions => address_to_outpoint' = DOMAIN outpoint_to_value'
    <3> SUFFICES ASSUME options.transactions
                 PROVE  address_to_outpoint' = DOMAIN outpoint_to_value'
      OBVIOUS
    <3>1. \A o \in RemovedFromTable(tx) :
            o.txid \in transaction_id_to_transaction \cup {tx.txid}
      BY DEF RemovedFromTable, ValuesInv, ValuesOK
    <3>2. address_to_outpoint' = address_to_outpoint \ RemovedFromTable(tx)
      BY <3>1 DEF MoveValues
    <3>3. DOMAIN outpoint_to_value' = (DOMAIN outpoint_to_value) \ RemovedFromTable(tx)
      BY DEF MoveValues, Without
    <3> QED
      BY <3>2, <3>3 DEF ValuesInv, ValuesAgree
  <2> QED
    BY <2>1, <2>2, <2>3, <2>4 DEF ValuesAgree
<1> QED
  BY <1>6, <1>7 DEF ValuesInv

(* Below the first height of inscriptions the chain goes on without them.  *)
LEMMA NoValuesYet ==
  ASSUME ValuesInv, NEW tx, tx.txid = next_txid, Extend(tx), UNCHANGED values,
         ~index_inscriptions, options' = options, height' \in Nat
  PROVE  ValuesInv'
<1>1. /\ value_cache' = value_cache /\ outpoint_to_value' = outpoint_to_value
      /\ address_to_outpoint' = address_to_outpoint
  BY DEF values
<1>2. Empty /\ Empty'
  BY <1>1 DEF ValuesInv, ValuesOK, Empty
<1>3. \A o \in ToSet(OutPointsOf(tx)) : o.txid = next_txid
  BY OutputsOfTx
<1>4. /\ DOMAIN unspent' \subseteq (DOMAIN unspent) \cup ToSet(OutPointsOf(tx))
      /\ next_txid' = next_txid + 1
  BY DEF Extend, With, Without
<1>5. \A o \in DOMAIN unspent : o.txid \in 0 .. next_txid
  BY DEF ValuesInv, ValuesOK
<1>6. \A o \in DOMAIN unspent' : o.txid \in 0 .. next_txid' - 1
  BY <1>3, <1>4, <1>5 DEF ValuesInv, ValuesOK
<1>7. ValuesOK'
  BY <1>2, <1>4, <1>6 DEF ValuesInv, ValuesOK, Empty
<1>8. ValuesAgree'
  BY <1>2 DEF ValuesAgree, Empty
<1> QED
  BY <1>7, <1>8 DEF ValuesInv

(* The caches go to the tables whole.                                      *)
LEMMA CommitKeepsValues ==
  ASSUME ValuesInv, Commit
  PROVE  ValuesInv'
<1>1. /\ DOMAIN outpoint_to_value' = (DOMAIN outpoint_to_value) \cup DOMAIN value_cache
      /\ \A o \in DOMAIN value_cache : outpoint_to_value'[o] = value_cache[o]
      /\ \A o \in DOMAIN outpoint_to_value :
           o \notin DOMAIN value_cache => outpoint_to_value'[o] = outpoint_to_value[o]
  BY DEF Commit, With
<1>2. /\ address_to_outpoint' = address_to_outpoint \cup DOMAIN value_cache
      /\ DOMAIN value_cache' = {}
      /\ options' = options /\ height' = height
      /\ unspent' = unspent /\ next_txid' = next_txid
      /\ transaction_id_to_transaction' = transaction_id_to_transaction
  BY DEF Commit, chain
<1>3. ValuesOK'
  BY <1>1, <1>2 DEF ValuesInv, ValuesOK, Empty, index_inscriptions
<1>4. ValuesAgree'
  BY <1>1, <1>2 DEF ValuesInv, ValuesAgree
<1> QED
  BY <1>3, <1>4 DEF ValuesInv

(* There is no value at first.                                             *)
LEMMA ValuesBegin == Init => ValuesInv
BY DEF Init, ValuesInv, ValuesOK, ValuesAgree, Empty

(* Each step keeps the values true.                                        *)
LEMMA ValuesStep == ValuesInv /\ [Next]_vars => ValuesInv'
<1> SUFFICES ASSUME ValuesInv, [Next]_vars PROVE ValuesInv'
  OBVIOUS
<1>1. height \in Nat /\ next_txid \in Nat
  BY DEF ValuesInv, ValuesOK
<1>2. ASSUME options' = options, height' = height, UNCHANGED values,
             unspent' = unspent, next_txid' = next_txid
      PROVE  ValuesInv'
  BY <1>2 DEF values, ValuesInv, ValuesOK, ValuesAgree, Empty, index_inscriptions
<1>3. CASE BeginBlock
  BY <1>2, <1>3 DEF BeginBlock
<1>4. ASSUME NEW tx \in Spends, IndexTransaction(tx) PROVE ValuesInv'
  <2>1. /\ tx.txid = next_txid /\ Extend(tx)
        /\ options' = options /\ height' = height
    BY <1>4 DEF Spends, IndexTransaction
  <2>2. CASE index_inscriptions
    <3>1. MoveValues(tx)
      BY <1>4, <2>2 DEF IndexTransaction, IndexInscriptions
    <3>2. index_inscriptions'
      BY <2>1, <2>2 DEF index_inscriptions
    <3> QED
      BY <1>1, <2>1, <3>1, <3>2, MoveValuesKeeps
  <2>3. CASE ~index_inscriptions
    <3>1. UNCHANGED values
      BY <1>4, <2>3 DEF IndexTransaction
    <3> QED
      BY <1>1, <2>1, <2>3, <3>1, NoValuesYet
  <2> QED
    BY <2>2, <2>3
<1>5. ASSUME NEW outs, IndexCoinbase(outs) PROVE ValuesInv'
  <2> DEFINE tx == [txid |-> next_txid, inputs |-> <<NullOutPoint>>, outputs |-> outs]
  <2>1. /\ tx.txid = next_txid /\ Extend(tx)
        /\ options' = options /\ height' = height + 1
    BY <1>5 DEF IndexCoinbase, CoinbaseOf, Claims
  <2>2. CASE index_inscriptions
    <3>1. MoveValues(tx)
      BY <1>5, <2>2 DEF IndexCoinbase, CoinbaseOf, Claims, IndexCoinbaseInscriptions
    <3>2. index_inscriptions'
      BY <1>1, <2>1, <2>2, IndexAssumption DEF index_inscriptions
    <3> HIDE DEF tx
    <3> QED
      BY <1>1, <2>1, <3>1, <3>2, MoveValuesKeeps
  <2>3. CASE ~index_inscriptions
    <3>1. UNCHANGED values
      BY <1>5, <2>3 DEF IndexCoinbase, CoinbaseOf, Claims
    <3> HIDE DEF tx
    <3> QED
      BY <1>1, <2>1, <2>3, <3>1, NoValuesYet
  <2> QED
    BY <2>2, <2>3
<1>6. CASE Commit
  BY <1>6, CommitKeepsValues
<1>7. CASE UNCHANGED vars
  BY <1>2, <1>7 DEF vars, chain, values
<1>8. ASSUME NEW tx, Stop(tx) PROVE ValuesInv'
  BY <1>2, <1>8 DEF Stop, chain, values
<1> QED
  BY <1>3, <1>4, <1>5, <1>6, <1>7, <1>8 DEF Next

(* For any block, cache and commit, a value that is read is the one of the *)
(* output, of an output that is still unspent, and the addresses of an     *)
(* index of transactions list the outputs of its table.                    *)
THEOREM ValuesAlwaysAgree == Spec => []ValuesAgree
<1>1. ValuesInv => ValuesAgree
  BY DEF ValuesInv
<1> QED
  BY <1>1, ValuesBegin, ValuesStep, PTL DEF Spec

-----------------------------------------------------------------------------
(* The starts of outputs and of locations                                  *)

(* The starts of the first n of a sequence of sizes.                      *)
Starts(sizes, n, g) ==
  g = [j \in 1 .. n |-> IF j = 1 THEN 0 ELSE g[j - 1] + sizes[j - 1]]

(* There are such starts, for every number of sizes.                       *)
LEMMA StartsExist ==
  ASSUME NEW sizes, NEW n \in Nat
  PROVE  \E g : Starts(sizes, n, g)
<1> DEFINE N == {m \in Nat : \E g : Starts(sizes, m, g)}
<1>1. 0 \in N
  <2>1. Starts(sizes, 0, [j \in 1 .. 0 |-> 0])
    BY DEF Starts
  <2> QED BY <2>1
<1>2. ASSUME NEW m \in Nat, m \in N PROVE m + 1 \in N
  <2>1. PICK g : Starts(sizes, m, g)
    BY <1>2
  <2> DEFINE next == IF m = 0 THEN 0 ELSE g[m] + sizes[m]
             h == [j \in 1 .. m + 1 |-> IF j = m + 1 THEN next ELSE g[j]]
  <2>2. \A j \in 1 .. m : g[j] = IF j = 1 THEN 0 ELSE g[j - 1] + sizes[j - 1]
    BY <2>1 DEF Starts
  <2>3. \A j \in 1 .. m + 1 : h[j] = IF j = 1 THEN 0 ELSE h[j - 1] + sizes[j - 1]
    <3> SUFFICES ASSUME NEW j \in 1 .. m + 1
                 PROVE  h[j] = IF j = 1 THEN 0 ELSE h[j - 1] + sizes[j - 1]
      OBVIOUS
    <3>1. CASE j = 1
      BY <2>2, <3>1
    <3>2. CASE j > 1 /\ j = m + 1
      <4>1. m # 0 /\ j - 1 = m /\ m \in 1 .. m + 1 /\ m # m + 1
        BY <3>2
      <4>2. h[j] = next /\ h[m] = g[m]
        BY <3>2, <4>1
      <4> QED BY <3>2, <4>1, <4>2
    <3>3. CASE j > 1 /\ j # m + 1
      <4>1. h[j] = g[j] /\ h[j - 1] = g[j - 1] /\ j \in 1 .. m
        BY <3>3
      <4> QED BY <2>2, <3>3, <4>1
    <3> QED BY <3>1, <3>2, <3>3
  <2>4. h = [j \in 1 .. m + 1 |-> IF j = 1 THEN 0 ELSE h[j - 1] + sizes[j - 1]]
    BY <2>3
  <2>5. Starts(sizes, m + 1, h)
    BY <2>4 DEF Starts
  <2> QED BY <2>5
<1> HIDE DEF N
<1>3. Nat \subseteq N
  BY <1>1, <1>2, NatSetInduction
<1> QED BY <1>3 DEF N

(* There is one sequence of them: two of them agree where both reach.      *)
LEMMA StartsAgree ==
  ASSUME NEW sizes, NEW n \in Nat, NEW m \in Nat, NEW g, NEW h,
         Starts(sizes, n, g), Starts(sizes, m, h), NEW i \in Nat,
         1 <= i, i <= n, i <= m
  PROVE  g[i] = h[i]
<1> DEFINE N == {k \in Nat : k + 1 <= n /\ k + 1 <= m => g[k + 1] = h[k + 1]}
<1>1. /\ \A j \in 1 .. n : g[j] = IF j = 1 THEN 0 ELSE g[j - 1] + sizes[j - 1]
      /\ \A j \in 1 .. m : h[j] = IF j = 1 THEN 0 ELSE h[j - 1] + sizes[j - 1]
  BY DEF Starts
<1>2. 0 \in N
  BY <1>1
<1>3. ASSUME NEW k \in Nat, k \in N PROVE k + 1 \in N
  <2> SUFFICES ASSUME k + 2 <= n, k + 2 <= m PROVE g[k + 2] = h[k + 2]
    OBVIOUS
  <2>1. g[k + 1] = h[k + 1]
    BY <1>3
  <2>2. g[k + 2] = g[k + 1] + sizes[k + 1]
    <3>1. k + 2 \in 1 .. n /\ k + 2 # 1 /\ k + 2 - 1 = k + 1
      OBVIOUS
    <3> QED BY <1>1, <3>1
  <2>3. h[k + 2] = h[k + 1] + sizes[k + 1]
    <3>1. k + 2 \in 1 .. m /\ k + 2 # 1 /\ k + 2 - 1 = k + 1
      OBVIOUS
    <3> QED BY <1>1, <3>1
  <2> QED BY <2>1, <2>2, <2>3
<1>4. Nat \subseteq N
  <2> HIDE DEF N
  <2> QED BY <1>2, <1>3, NatSetInduction
<1>5. i - 1 \in N /\ i - 1 + 1 = i
  BY <1>4
<1> QED BY <1>5

(* StartOf gives them.                                                     *)
LEMMA StartOfIs ==
  ASSUME NEW sizes, NEW i \in Nat, i >= 1, NEW n \in Nat, i <= n,
         NEW g, Starts(sizes, n, g)
  PROVE  StartOf(sizes, i) = g[i]
<1> DEFINE Step(h) == [j \in 1 .. i |-> IF j = 1 THEN 0 ELSE h[j - 1] + sizes[j - 1]]
           start == CHOOSE h : h = Step(h)
<1>1. StartOf(sizes, i) = start[i]
  BY DEF StartOf
<1>2. \E h : h = Step(h)
  BY StartsExist DEF Starts
<1>3. start = Step(start)
  BY <1>2
<1>4. Starts(sizes, i, start)
  BY <1>3 DEF Starts
<1> HIDE DEF start
<1>5. start[i] = g[i]
  BY <1>4, StartsAgree
<1> QED BY <1>1, <1>5

(* Values start one after the other.                                       *)
LEMMA StartSteps ==
  ASSUME NEW sizes
  PROVE  /\ StartOf(sizes, 1) = 0
         /\ \A i \in Nat \ {0} : StartOf(sizes, i + 1) = StartOf(sizes, i) + sizes[i]
<1>1. StartOf(sizes, 1) = 0
  <2>1. PICK g : Starts(sizes, 1, g)
    BY StartsExist
  <2>2. StartOf(sizes, 1) = g[1]
    BY <2>1, StartOfIs
  <2>3. g[1] = 0
    BY <2>1 DEF Starts
  <2> QED BY <2>2, <2>3
<1>2. ASSUME NEW i \in Nat \ {0}
      PROVE  StartOf(sizes, i + 1) = StartOf(sizes, i) + sizes[i]
  <2>1. PICK g : Starts(sizes, i + 1, g)
    BY StartsExist
  <2>2. StartOf(sizes, i) = g[i] /\ StartOf(sizes, i + 1) = g[i + 1]
    BY <2>1, StartOfIs
  <2>3. g[i + 1] = g[i] + sizes[i]
    <3>1. i + 1 \in 1 .. i + 1 /\ i + 1 # 1 /\ i + 1 - 1 = i
      OBVIOUS
    <3> QED BY <2>1, <3>1 DEF Starts
  <2> QED BY <2>2, <2>3
<1> QED BY <1>1, <1>2

(* Natural sizes start at natural numbers, later ones further on.         *)
LEMMA StartsGrow ==
  ASSUME NEW sizes, NEW n \in Nat, \A i \in 1 .. n : sizes[i] \in Nat
  PROVE  /\ \A i \in 1 .. n + 1 : StartOf(sizes, i) \in Nat
         /\ \A i, j \in 1 .. n + 1 :
              i < j => StartOf(sizes, i) + sizes[i] <= StartOf(sizes, j)
<1> DEFINE S(i) == StartOf(sizes, i)
           N == {k \in Nat : k <= n =>
                   /\ S(k + 1) \in Nat
                   /\ \A i \in 1 .. k : S(i) \in Nat /\ S(i) + sizes[i] <= S(k + 1)}
<1>1. /\ S(1) = 0
      /\ \A i \in Nat \ {0} : S(i + 1) = S(i) + sizes[i]
  BY StartSteps
<1> HIDE DEF S
<1>2. 0 \in N
  BY <1>1
<1>3. ASSUME NEW k \in Nat, k \in N PROVE k + 1 \in N
  <2> SUFFICES ASSUME k + 1 <= n
               PROVE  /\ S(k + 2) \in Nat
                      /\ \A i \in 1 .. k + 1 : S(i) \in Nat /\ S(i) + sizes[i] <= S(k + 2)
    OBVIOUS
  <2>1. /\ S(k + 1) \in Nat
        /\ \A i \in 1 .. k : S(i) \in Nat /\ S(i) + sizes[i] <= S(k + 1)
    BY <1>3
  <2>2. S(k + 2) = S(k + 1) + sizes[k + 1]
    <3>1. k + 1 \in Nat \ {0} /\ k + 1 + 1 = k + 2
      OBVIOUS
    <3> QED BY <1>1, <3>1
  <2>3. sizes[k + 1] \in Nat
    OBVIOUS
  <2>4. S(k + 2) \in Nat /\ S(k + 1) <= S(k + 2)
    BY <2>1, <2>2, <2>3
  <2>5. ASSUME NEW i \in 1 .. k + 1 PROVE S(i) \in Nat /\ S(i) + sizes[i] <= S(k + 2)
    <3>1. CASE i = k + 1
      BY <2>1, <2>2, <2>3, <3>1
    <3>2. CASE i \in 1 .. k
      <4>1. S(i) \in Nat /\ S(i) + sizes[i] <= S(k + 1) /\ sizes[i] \in Nat
        BY <2>1, <3>2
      <4> QED BY <2>1, <2>4, <4>1
    <3> QED BY <3>1, <3>2
  <2> QED BY <2>4, <2>5
<1>4. Nat \subseteq N
  <2> HIDE DEF N
  <2> QED BY <1>2, <1>3, NatSetInduction
<1>5. ASSUME NEW k \in Nat, k <= n
      PROVE  S(k + 1) \in Nat /\ \A i \in 1 .. k : S(i) + sizes[i] <= S(k + 1)
  BY <1>4, <1>5
<1> HIDE DEF N
<1>6. ASSUME NEW i \in 1 .. n + 1 PROVE S(i) \in Nat
  <2>1. i - 1 \in Nat /\ i - 1 <= n /\ i - 1 + 1 = i
    OBVIOUS
  <2> QED BY <1>5, <2>1
<1>7. ASSUME NEW i \in 1 .. n + 1, NEW j \in 1 .. n + 1, i < j
      PROVE  S(i) + sizes[i] <= S(j)
  <2>1. j - 1 \in Nat /\ j - 1 <= n /\ j - 1 + 1 = j /\ i \in 1 .. j - 1
    BY <1>7
  <2> QED BY <1>5, <2>1
<1> QED BY <1>6, <1>7 DEF S

(* An offset within the outputs of a transaction is in one of them.        *)
LEMMA OutputAtIs ==
  ASSUME NEW tx, tx.outputs \in Seq(Nat), NEW a \in Nat, a < Total(tx.outputs)
  PROVE  \E j \in DOMAIN tx.outputs :
           /\ OutputAt(tx, a).outpoint = [txid |-> tx.txid, vout |-> j - 1]
           /\ OutputAt(tx, a).offset \in Nat
           /\ OutputAt(tx, a).offset < tx.outputs[j]
           /\ a = StartOf(tx.outputs, j) + OutputAt(tx, a).offset
<1> DEFINE outs == tx.outputs
           n == Len(outs)
           J == {i \in DOMAIN outs : a < StartOf(outs, i) + outs[i]}
           j == Min(J)
<1>1. n \in Nat /\ DOMAIN outs = 1 .. n /\ \A i \in 1 .. n : outs[i] \in Nat
  OBVIOUS
<1>2. /\ StartOf(outs, 1) = 0
      /\ \A i \in Nat \ {0} : StartOf(outs, i + 1) = StartOf(outs, i) + outs[i]
  BY StartSteps
<1>3. \A i \in 1 .. n + 1 : StartOf(outs, i) \in Nat
  BY <1>1, StartsGrow
<1>4. Total(outs) = StartOf(outs, n + 1)
  BY DEF Total
<1> HIDE DEF n
<1>5. n # 0
  BY <1>2, <1>4
<1>6. n \in J
  <2>1. n \in Nat \ {0} /\ n \in 1 .. n
    BY <1>1, <1>5
  <2>2. StartOf(outs, n + 1) = StartOf(outs, n) + outs[n]
    BY <1>2, <2>1
  <2> QED BY <1>1, <1>4, <2>1, <2>2
<1>7. j \in J /\ \A m \in J : j <= m
  <2>1. J \in SUBSET Nat /\ J # {}
    BY <1>1, <1>6
  <2>2. \E k \in J : \A m \in J : k <= m
    <3> HIDE DEF J
    <3> QED BY <2>1, LeastNatural
  <2> QED BY <2>2 DEF Min
<1>8. /\ OutputAt(tx, a).outpoint = OutPointsOf(tx)[j]
      /\ OutputAt(tx, a).offset = a - StartOf(outs, j)
  BY DEF OutputAt
<1> HIDE DEF j
<1>9. j \in 1 .. n /\ a < StartOf(outs, j) + outs[j] /\ StartOf(outs, j) \in Nat
      /\ outs[j] \in Nat
  BY <1>1, <1>3, <1>7
<1>10. StartOf(outs, j) <= a
  <2>1. CASE j = 1
    BY <1>2, <2>1
  <2>2. CASE j # 1
    <3>1. j - 1 \in 1 .. n /\ j - 1 \in Nat \ {0} /\ j - 1 + 1 = j /\ ~(j <= j - 1)
      BY <1>1, <1>9, <2>2
    <3>2. j - 1 \notin J
      BY <1>7, <3>1
    <3>3. ~(a < StartOf(outs, j - 1) + outs[j - 1])
      BY <1>1, <3>1, <3>2
    <3>4. StartOf(outs, j) = StartOf(outs, j - 1) + outs[j - 1]
      BY <1>2, <3>1
    <3> QED BY <1>9, <3>3, <3>4
  <2> QED BY <2>1, <2>2
<1>11. OutPointsOf(tx)[j] = [txid |-> tx.txid, vout |-> j - 1]
  BY <1>1, <1>9 DEF OutPointsOf
<1>12. /\ OutputAt(tx, a).offset \in Nat
       /\ OutputAt(tx, a).offset < outs[j]
       /\ a = StartOf(outs, j) + OutputAt(tx, a).offset
  BY <1>8, <1>9, <1>10
<1>13. j \in DOMAIN outs
  BY <1>1, <1>9
<1> QED BY <1>8, <1>11, <1>12, <1>13

(* What lands at different offsets lands on different satpoints.           *)
LEMMA OutputAtInjective ==
  ASSUME NEW tx, tx.outputs \in Seq(Nat),
         NEW a \in Nat, a < Total(tx.outputs), NEW b \in Nat, b < Total(tx.outputs),
         OutputAt(tx, a) = OutputAt(tx, b)
  PROVE  a = b
<1>1. PICK i \in DOMAIN tx.outputs :
        /\ OutputAt(tx, a).outpoint = [txid |-> tx.txid, vout |-> i - 1]
        /\ a = StartOf(tx.outputs, i) + OutputAt(tx, a).offset
  BY OutputAtIs
<1>2. PICK j \in DOMAIN tx.outputs :
        /\ OutputAt(tx, b).outpoint = [txid |-> tx.txid, vout |-> j - 1]
        /\ b = StartOf(tx.outputs, j) + OutputAt(tx, b).offset
  BY OutputAtIs
<1>3. i \in Int /\ j \in Int
  OBVIOUS
<1>4. i - 1 = j - 1
  BY <1>1, <1>2
<1> QED BY <1>1, <1>2, <1>3, <1>4

-----------------------------------------------------------------------------
(* Flotsam at different offsets                                            *)
Apart(all) ==
  \A f, g \in all : /\ f.offset \in Nat /\ f.txid \in Nat
                    /\ f # g => f.offset # g.offset /\ f.id # g.id

(* Sorting by offset lists each of a set of flotsam once.                  *)
LEMMA SortLists ==
  ASSUME NEW all, IsFiniteSet(all), Apart(all)
  PROVE  LET n == Cardinality(all)
             s == SortByOffset(all)
         IN  /\ n \in Nat /\ Len(s) = n
             /\ \A k \in 1 .. n : s[k] \in all
             /\ \A k, l \in 1 .. n : k # l => s[k] # s[l]
             /\ \A f \in all : \E k \in 1 .. n : s[k] = f
<1> DEFINE n == Cardinality(all)
           Before(f) == {g \in all : Ahead(g, f)}
           R == [f \in all |-> Cardinality(Before(f)) + 1]
           s == SortByOffset(all)
<1>1. n \in Nat
  BY FS_CardinalityType
<1>2. \A f \in all : /\ f.offset \in Nat /\ f.txid \in Nat
                    /\ \A g \in all : f # g => f.offset # g.offset
  BY DEF Apart
<1>3. \A f \in all : IsFiniteSet(Before(f)) /\ Cardinality(Before(f)) \in Nat
                     /\ Cardinality(Before(f)) <= n
  <2> SUFFICES ASSUME NEW f \in all
               PROVE  IsFiniteSet(Before(f)) /\ Cardinality(Before(f)) \in Nat
                      /\ Cardinality(Before(f)) <= n
    OBVIOUS
  <2>1. Before(f) \in SUBSET all
    OBVIOUS
  <2> HIDE DEF Before
  <2> QED BY <2>1, FS_Subset, FS_CardinalityType
<1>4. \A f, g \in all : f.offset < g.offset => R[f] < R[g]
  <2> SUFFICES ASSUME NEW f \in all, NEW g \in all, f.offset < g.offset
               PROVE  R[f] < R[g]
    OBVIOUS
  <2>1. f \in Before(g) /\ f \notin Before(f)
    BY <1>2 DEF Ahead
  <2>2. Before(f) \in SUBSET Before(g)
    <3> SUFFICES ASSUME NEW h \in all, Ahead(h, f) PROVE Ahead(h, g)
      OBVIOUS
    <3>1. h.offset <= f.offset
      BY <1>2 DEF Ahead
    <3>2. h.offset < g.offset
      BY <1>2, <3>1
    <3> QED BY <3>2 DEF Ahead
  <2>3. IsFiniteSet(Before(g)) /\ Cardinality(Before(g)) \in Nat
        /\ Cardinality(Before(f)) \in Nat
    BY <1>3
  <2>4. Cardinality(Before(f)) <= Cardinality(Before(g))
        /\ (Cardinality(Before(g)) = Cardinality(Before(f)) => Before(g) = Before(f))
    <3> HIDE DEF Before
    <3> QED BY <2>2, <2>3, FS_Subset
  <2>5. Cardinality(Before(f)) < Cardinality(Before(g))
    <3>1. Before(g) # Before(f)
      BY <2>1
    <3> HIDE DEF Before
    <3> QED BY <2>3, <2>4, <3>1
  <2> QED
    <3>1. R[f] = Cardinality(Before(f)) + 1 /\ R[g] = Cardinality(Before(g)) + 1
      OBVIOUS
    <3> HIDE DEF Before, R
    <3> QED BY <2>3, <2>5, <3>1
<1>5. \A f \in all : R[f] \in 1 .. n
  <2> SUFFICES ASSUME NEW f \in all PROVE R[f] \in 1 .. n
    OBVIOUS
  <2>1. f \notin Before(f)
    BY <1>2 DEF Ahead
  <2>2. Before(f) \in SUBSET all /\ Before(f) # all
    BY <2>1
  <2>3. Cardinality(Before(f)) # n
    <3> HIDE DEF Before
    <3> QED BY <2>2, FS_Subset
  <2>4. R[f] = Cardinality(Before(f)) + 1
    OBVIOUS
  <2>5. Cardinality(Before(f)) \in Nat /\ Cardinality(Before(f)) <= n
    BY <1>3
  <2> HIDE DEF Before, R
  <2> QED BY <1>1, <2>3, <2>4, <2>5
<1>6. \A f, g \in all : R[f] = R[g] => f = g
  <2> SUFFICES ASSUME NEW f \in all, NEW g \in all, f # g PROVE R[f] # R[g]
    OBVIOUS
  <2>1. R[f] \in Nat /\ R[g] \in Nat
    <3> HIDE DEF R
    <3> QED BY <1>5
  <2>2. f.offset \in Nat /\ g.offset \in Nat /\ f.offset # g.offset
    BY <1>2
  <2>3. f.offset < g.offset \/ g.offset < f.offset
    BY <2>2
  <2> HIDE DEF R
  <2> QED BY <1>4, <2>1, <2>3
<1>7. \A f \in all : Cardinality({g \in all : Ahead(g, f)}) = R[f] - 1
  <2> SUFFICES ASSUME NEW f \in all PROVE Cardinality(Before(f)) = R[f] - 1
    OBVIOUS
  <2>1. R[f] = Cardinality(Before(f)) + 1 /\ Cardinality(Before(f)) \in Nat
    BY <1>3
  <2> HIDE DEF R, Before
  <2> QED BY <2>1
<1>8. R \in [all -> 1 .. n]
  <2>1. R = [f \in all |-> R[f]]
    OBVIOUS
  <2> HIDE DEF R
  <2> QED BY <1>5, <2>1
<1> HIDE DEF R
<1>9. \A k \in 1 .. n : \E f \in all : R[f] = k
  <2>1. R \in Injection(all, 1 .. n)
    BY <1>6, <1>8 DEF Injection, IsInjective
  <2>2. IsFiniteSet(1 .. n) /\ Cardinality(1 .. n) = n
    <3> HIDE DEF n
    <3>1. Cardinality(1 .. n) = IF 1 > n THEN 0 ELSE n - 1 + 1
      BY <1>1, FS_Interval
    <3> QED BY <1>1, <3>1, FS_Interval
  <2>3. R \in Surjection(all, 1 .. n)
    BY <2>1, <2>2, FS_Injection
  <2> QED BY <2>3 DEF Surjection
<1>10. s = [k \in 1 .. n |-> CHOOSE f \in all : Cardinality({g \in all : Ahead(g, f)}) = k - 1]
  BY DEF SortByOffset
<1>11. ASSUME NEW k \in 1 .. n PROVE s[k] \in all /\ R[s[k]] = k
  <2>1. PICK f \in all : R[f] = k
    BY <1>9
  <2>2. Cardinality({g \in all : Ahead(g, f)}) = k - 1
    BY <1>7, <2>1
  <2>3. s[k] = CHOOSE h \in all : Cardinality({g \in all : Ahead(g, h)}) = k - 1
    BY <1>10
  <2>4. s[k] \in all /\ Cardinality({g \in all : Ahead(g, s[k])}) = k - 1
    BY <2>2, <2>3
  <2>5. k - 1 = R[s[k]] - 1
    BY <1>7, <2>4
  <2>6. R[s[k]] \in 1 .. n
    BY <1>5, <2>4
  <2> QED BY <2>4, <2>5, <2>6
<1>12. Len(s) = n
  BY <1>1, <1>10
<1> HIDE DEF s
<1>13. ASSUME NEW f \in all PROVE \E k \in 1 .. n : s[k] = f
  <2>1. R[f] \in 1 .. n
    BY <1>5
  <2>2. s[R[f]] \in all /\ R[s[R[f]]] = R[f]
    BY <1>11, <2>1
  <2> QED BY <1>6, <2>1, <2>2
<1>14. \A k, l \in 1 .. n : k # l => s[k] # s[l]
  BY <1>11
<1> QED BY <1>1, <1>11, <1>12, <1>13, <1>14 DEF s

-----------------------------------------------------------------------------
(* Moves of inscriptions in the tables                                     *)
TwoWay(by_satpoint, by_id) ==
  /\ \A sp \in DOMAIN by_satpoint :
       by_satpoint[sp] \in DOMAIN by_id /\ by_id[by_satpoint[sp]] = sp
  /\ \A id \in DOMAIN by_id :
       /\ by_id[id] \in DOMAIN by_satpoint
       /\ by_satpoint[by_id[id]] = id \/ Uncounted(by_id[id])

Gapless(t) ==
  /\ t.next_number \in Nat
  /\ DOMAIN t.number_to_id = 0 .. t.next_number - 1
  /\ \A n \in DOMAIN t.number_to_id :
       /\ t.number_to_id[n] \in DOMAIN t.id_to_entry
       /\ t.id_to_entry[t.number_to_id[n]].number = n
  /\ DOMAIN t.id_to_entry = DOMAIN t.id_to_satpoint
  /\ IsFiniteSet(DOMAIN t.id_to_entry)
  /\ Cardinality(DOMAIN t.id_to_entry) = t.next_number

Ids(all) == {f.id : f \in all}

(* The tables are t after some of a set of flotsam went where To says.     *)
Moved(t, done, To) ==
  /\ TwoWay(t.satpoint_to_id, t.id_to_satpoint)
  /\ Gapless(t)
  /\ DOMAIN t.id_to_satpoint = (DOMAIN id_to_satpoint) \cup Ids(done)
  /\ \A f \in done : t.id_to_satpoint[f.id] = To[f]
  /\ \A id \in (DOMAIN id_to_satpoint) \ Ids(done) :
       t.id_to_satpoint[id] = id_to_satpoint[id]
  /\ \A id \in DOMAIN id_to_entry : t.id_to_entry[id] = id_to_entry[id]

(* Flotsam may go where To says: to satpoints of their own, that nothing   *)
(* is on, but for those that are Uncounted, from where the tables have it. *)
Landable(all, To) ==
  /\ IsFiniteSet(all) /\ Apart(all)
  /\ \A f \in all :
       /\ To[f] \notin DOMAIN satpoint_to_id \/ Uncounted(To[f])
       /\ f.origin \in {"Old", "New"}
       /\ f.origin = "Old" =>
            /\ f.id \in DOMAIN id_to_satpoint /\ id_to_satpoint[f.id] = f.old
            /\ ~Uncounted(f.old)
       /\ f.origin = "New" => f.id \notin DOMAIN id_to_satpoint
  /\ \A f, g \in all : f # g => To[f] # To[g] \/ Uncounted(To[f])

(* A move of one more keeps the tables inverse, whatever its origin.       *)
LEMMA InverseMoves ==
  ASSUME NEW by_satpoint, NEW by_id, TwoWay(by_satpoint, by_id),
         NEW f, NEW to, to \notin DOMAIN by_satpoint \/ Uncounted(to),
         f.origin = "Old" =>
           f.id \in DOMAIN by_id /\ by_id[f.id] = f.old /\ ~Uncounted(f.old),
         f.origin # "Old" => f.id \notin DOMAIN by_id
  PROVE  TwoWay(WithRow(Removed(by_satpoint, f), to, f.id), WithRow(by_id, f.id, to))
<1> DEFINE s == WithRow(Removed(by_satpoint, f), to, f.id)
           i == WithRow(by_id, f.id, to)
<1>1. /\ DOMAIN i = (DOMAIN by_id) \cup {f.id} /\ i[f.id] = to
      /\ \A id \in DOMAIN by_id : id # f.id => i[id] = by_id[id]
  BY DEF WithRow, With
<1>2. CASE f.origin = "Old"
  <2>1. /\ DOMAIN s = ((DOMAIN by_satpoint) \ {f.old}) \cup {to}
        /\ s[to] = f.id
        /\ \A sp \in (DOMAIN by_satpoint) \ {f.old} : sp # to => s[sp] = by_satpoint[sp]
    BY <1>2 DEF WithRow, With, Removed, Without
  <2>2. by_satpoint[f.old] = f.id
    BY <1>2 DEF TwoWay
  <2> HIDE DEF s, i
  <2>3. ASSUME NEW sp \in DOMAIN s PROVE s[sp] \in DOMAIN i /\ i[s[sp]] = sp
    BY <1>1, <1>2, <2>1, <2>2 DEF TwoWay
  <2>4. ASSUME NEW id \in DOMAIN i PROVE i[id] \in DOMAIN s /\ (s[i[id]] = id \/ Uncounted(i[id]))
    BY <1>1, <1>2, <2>1, <2>2 DEF TwoWay
  <2> QED BY <2>3, <2>4 DEF TwoWay, s, i
<1>3. CASE f.origin # "Old"
  <2>1. /\ DOMAIN s = (DOMAIN by_satpoint) \cup {to}
        /\ s[to] = f.id
        /\ \A sp \in DOMAIN by_satpoint : sp # to => s[sp] = by_satpoint[sp]
    BY <1>3 DEF WithRow, With, Removed
  <2> HIDE DEF s, i
  <2>2. ASSUME NEW sp \in DOMAIN s PROVE s[sp] \in DOMAIN i /\ i[s[sp]] = sp
    BY <1>1, <1>3, <2>1 DEF TwoWay
  <2>3. ASSUME NEW id \in DOMAIN i PROVE i[id] \in DOMAIN s /\ (s[i[id]] = id \/ Uncounted(i[id]))
    BY <1>1, <1>3, <2>1 DEF TwoWay
  <2> QED BY <2>2, <2>3 DEF TwoWay, s, i
<1> QED BY <1>2, <1>3

(* A new inscription gets the next number, and an old one keeps its own.   *)
LEMMA NumbersMove ==
  ASSUME NEW t, Gapless(t), NEW f, NEW to, NEW ranges,
         f.origin = "New" => f.id \notin DOMAIN t.id_to_satpoint,
         f.origin # "New" => f.id \in DOMAIN t.id_to_satpoint
  PROVE  /\ Gapless(Located(t, f, to, ranges))
         /\ \A id \in DOMAIN t.id_to_entry :
              Located(t, f, to, ranges).id_to_entry[id] = t.id_to_entry[id]
<1> DEFINE u == Located(t, f, to, ranges)
           n == t.next_number
<1>1. /\ DOMAIN u.id_to_satpoint = (DOMAIN t.id_to_satpoint) \cup {f.id}
  BY DEF Located, WithRow, With
<1>2. CASE f.origin = "New"
  <2>1. PICK entry : /\ entry.number = n
                     /\ u.id_to_entry = WithRow(t.id_to_entry, f.id, entry)
    <3> DEFINE sat == IF options.sats THEN SatAt(ranges, f.offset) ELSE {}
               e == [number |-> n, sat |-> sat]
    <3>1. u.id_to_entry = WithRow(t.id_to_entry, f.id, e)
      BY <1>2 DEF Located
    <3>2. e.number = n
      OBVIOUS
    <3> HIDE DEF e
    <3> QED BY <3>1, <3>2
  <2>2. u.number_to_id = WithRow(t.number_to_id, n, f.id) /\ u.next_number = n + 1
    BY <1>2 DEF Located
  <2> HIDE DEF u
  <2>3. /\ DOMAIN u.id_to_entry = (DOMAIN t.id_to_entry) \cup {f.id}
        /\ u.id_to_entry[f.id] = entry
        /\ \A id \in DOMAIN t.id_to_entry : id # f.id => u.id_to_entry[id] = t.id_to_entry[id]
    BY <2>1 DEF WithRow, With
  <2>4. /\ DOMAIN u.number_to_id = (DOMAIN t.number_to_id) \cup {n}
        /\ u.number_to_id[n] = f.id
        /\ \A m \in DOMAIN t.number_to_id : m # n => u.number_to_id[m] = t.number_to_id[m]
    BY <2>2 DEF WithRow, With
  <2>5. /\ n \in Nat /\ DOMAIN t.number_to_id = 0 .. n - 1
        /\ DOMAIN t.id_to_entry = DOMAIN t.id_to_satpoint
        /\ IsFiniteSet(DOMAIN t.id_to_entry)
        /\ Cardinality(DOMAIN t.id_to_entry) = n
        /\ \A m \in DOMAIN t.number_to_id :
             /\ t.number_to_id[m] \in DOMAIN t.id_to_entry
             /\ t.id_to_entry[t.number_to_id[m]].number = m
    BY DEF Gapless
  <2> HIDE DEF n
  <2>6. DOMAIN u.number_to_id = 0 .. n
    BY <2>4, <2>5
  <2>7. f.id \notin DOMAIN t.id_to_entry
    BY <1>2, <2>5
  <2>8. IsFiniteSet(DOMAIN u.id_to_entry) /\ Cardinality(DOMAIN u.id_to_entry) = n + 1
    <3> DEFINE D == DOMAIN t.id_to_entry
    <3>1. IsFiniteSet(D \cup {f.id})
          /\ Cardinality(D \cup {f.id}) = IF f.id \in D THEN Cardinality(D) ELSE Cardinality(D) + 1
      <4> HIDE DEF D
      <4>1. IsFiniteSet(D)
        BY <2>5 DEF D
      <4> QED BY <4>1, FS_AddElement
    <3> QED BY <2>3, <2>5, <2>7, <3>1
  <2>9. ASSUME NEW m \in DOMAIN u.number_to_id
        PROVE  /\ u.number_to_id[m] \in DOMAIN u.id_to_entry
               /\ u.id_to_entry[u.number_to_id[m]].number = m
    <3>1. CASE m = n
      BY <2>1, <2>3, <2>4, <3>1
    <3>2. CASE m # n
      <4>1. m \in DOMAIN t.number_to_id /\ u.number_to_id[m] = t.number_to_id[m]
        BY <2>4, <3>2
      <4>2. /\ t.number_to_id[m] \in DOMAIN t.id_to_entry
            /\ t.id_to_entry[t.number_to_id[m]].number = m
        BY <2>5, <4>1
      <4>3. u.id_to_entry[t.number_to_id[m]] = t.id_to_entry[t.number_to_id[m]]
        BY <2>3, <2>7, <4>2
      <4> QED BY <2>3, <4>1, <4>2, <4>3
    <3> QED BY <3>1, <3>2
  <2>10. u.next_number \in Nat /\ DOMAIN u.number_to_id = 0 .. u.next_number - 1
    BY <2>2, <2>5, <2>6
  <2>11. DOMAIN u.id_to_entry = DOMAIN u.id_to_satpoint
    BY <1>1, <2>3, <2>5
  <2>12. Gapless(u)
    BY <2>2, <2>8, <2>9, <2>10, <2>11 DEF Gapless
  <2> QED BY <2>3, <2>7, <2>12 DEF u
<1>3. CASE f.origin # "New"
  <2>1. /\ u.number_to_id = t.number_to_id /\ u.next_number = t.next_number
        /\ u.id_to_entry = t.id_to_entry
    BY <1>3 DEF Located
  <2> HIDE DEF u
  <2>2. DOMAIN u.id_to_satpoint = DOMAIN t.id_to_satpoint
    BY <1>1, <1>3
  <2>3. Gapless(u)
    BY <2>1, <2>2 DEF Gapless
  <2> QED BY <2>1, <2>3 DEF u
<1> QED BY <1>2, <1>3

(* An inscription more is located: the tables have moved it too, and those *)
(* that were located before are where they were put.                       *)
LEMMA LocatedMoves ==
  ASSUME NEW all, NEW To, Landable(all, To), TwoWay(satpoint_to_id, id_to_satpoint),
         DOMAIN id_to_entry = DOMAIN id_to_satpoint,
         NEW t, NEW done \in SUBSET all, Moved(t, done, To),
         NEW f \in all, f \notin done, NEW ranges
  PROVE  Moved(Located(t, f, To[f], ranges), done \cup {f}, To)
<1> DEFINE u == Located(t, f, To[f], ranges)
<1>1. /\ u.satpoint_to_id = WithRow(Removed(t.satpoint_to_id, f), To[f], f.id)
      /\ u.id_to_satpoint = WithRow(t.id_to_satpoint, f.id, To[f])
  BY DEF Located
<1>2. /\ \A g \in done : g.id # f.id /\ (To[f] # To[g] \/ Uncounted(To[f]))
      /\ To[f] \notin DOMAIN satpoint_to_id \/ Uncounted(To[f])
      /\ f.origin \in {"Old", "New"}
      /\ f.origin = "Old" =>
            /\ f.id \in DOMAIN id_to_satpoint /\ id_to_satpoint[f.id] = f.old
            /\ ~Uncounted(f.old)
      /\ f.origin = "New" => f.id \notin DOMAIN id_to_satpoint
  BY DEF Landable, Apart
<1>3. f.id \notin Ids(done)
  BY <1>2 DEF Ids
<1>4. /\ TwoWay(t.satpoint_to_id, t.id_to_satpoint) /\ Gapless(t)
      /\ DOMAIN t.id_to_satpoint = (DOMAIN id_to_satpoint) \cup Ids(done)
      /\ \A g \in done : t.id_to_satpoint[g.id] = To[g]
      /\ \A id \in (DOMAIN id_to_satpoint) \ Ids(done) :
           t.id_to_satpoint[id] = id_to_satpoint[id]
      /\ \A id \in DOMAIN id_to_entry : t.id_to_entry[id] = id_to_entry[id]
  BY DEF Moved
<1>5. To[f] \notin DOMAIN t.satpoint_to_id \/ Uncounted(To[f])
  <2> SUFFICES ASSUME To[f] \in DOMAIN t.satpoint_to_id, ~Uncounted(To[f]) PROVE FALSE
    OBVIOUS
  <2>1. PICK id \in DOMAIN t.id_to_satpoint : t.id_to_satpoint[id] = To[f]
    BY <1>4 DEF TwoWay
  <2>2. CASE id \in Ids(done)
    BY <1>2, <1>4, <2>1, <2>2 DEF Ids
  <2>3. CASE id \notin Ids(done)
    <3>1. id \in DOMAIN id_to_satpoint /\ id_to_satpoint[id] = To[f]
      BY <1>4, <2>1, <2>3
    <3> QED BY <1>2, <3>1 DEF TwoWay
  <2> QED BY <2>2, <2>3
<1>6. /\ f.origin = "Old" =>
           /\ f.id \in DOMAIN t.id_to_satpoint /\ t.id_to_satpoint[f.id] = f.old
           /\ ~Uncounted(f.old)
      /\ f.origin # "Old" => f.id \notin DOMAIN t.id_to_satpoint
  BY <1>2, <1>3, <1>4
<1>7. TwoWay(u.satpoint_to_id, u.id_to_satpoint)
  <2> DEFINE s == t.satpoint_to_id
             i == t.id_to_satpoint
             to == To[f]
  <2>1. /\ TwoWay(s, i) /\ (to \notin DOMAIN s \/ Uncounted(to))
        /\ f.origin = "Old" => f.id \in DOMAIN i /\ i[f.id] = f.old /\ ~Uncounted(f.old)
        /\ f.origin # "Old" => f.id \notin DOMAIN i
    BY <1>4, <1>5, <1>6
  <2>2. u.satpoint_to_id = WithRow(Removed(s, f), to, f.id) /\ u.id_to_satpoint = WithRow(i, f.id, to)
    BY <1>1
  <2> HIDE DEF u, s, i, to
  <2>3. TwoWay(WithRow(Removed(s, f), to, f.id), WithRow(i, f.id, to))
    BY <2>1, InverseMoves
  <2> QED BY <2>2, <2>3
<1>8. /\ Gapless(u)
      /\ \A id \in DOMAIN t.id_to_entry : u.id_to_entry[id] = t.id_to_entry[id]
  <2>1. f.origin = "New" => f.id \notin DOMAIN t.id_to_satpoint
    BY <1>6
  <2>2. f.origin # "New" => f.id \in DOMAIN t.id_to_satpoint
    BY <1>2, <1>6
  <2> QED BY <1>4, <2>1, <2>2, NumbersMove
<1> HIDE DEF u
<1>9. /\ DOMAIN u.id_to_satpoint = (DOMAIN t.id_to_satpoint) \cup {f.id}
      /\ u.id_to_satpoint[f.id] = To[f]
      /\ \A id \in DOMAIN t.id_to_satpoint : id # f.id => u.id_to_satpoint[id] = t.id_to_satpoint[id]
  BY <1>1 DEF WithRow, With
<1>10. Ids(done \cup {f}) = Ids(done) \cup {f.id}
  BY DEF Ids
<1>11. DOMAIN u.id_to_satpoint = (DOMAIN id_to_satpoint) \cup Ids(done \cup {f})
  BY <1>4, <1>9, <1>10
<1>12. \A g \in done \cup {f} : u.id_to_satpoint[g.id] = To[g]
  <2>1. ASSUME NEW g \in done PROVE u.id_to_satpoint[g.id] = To[g]
    <3>1. g.id \in DOMAIN t.id_to_satpoint /\ g.id # f.id
      BY <1>2, <1>4 DEF Ids
    <3> QED BY <1>4, <1>9, <3>1
  <2> QED BY <1>9, <2>1
<1>13. \A id \in (DOMAIN id_to_satpoint) \ Ids(done \cup {f}) :
         u.id_to_satpoint[id] = id_to_satpoint[id]
  BY <1>4, <1>9, <1>10
<1>14. \A id \in DOMAIN id_to_entry : u.id_to_entry[id] = id_to_entry[id]
  <2>1. DOMAIN id_to_entry \subseteq DOMAIN t.id_to_entry
    BY <1>4 DEF Gapless
  <2> QED BY <1>4, <1>8, <2>1
<1>15. Moved(u, done \cup {f}, To)
  BY <1>7, <1>8, <1>11, <1>12, <1>13, <1>14 DEF Moved
<1> QED BY <1>15 DEF u

(* Tables along a list s of flotsam that go where To says.                 *)
Along(all, To, ranges, n, s, tables) ==
  /\ \A k \in 1 .. n : s[k] \in all
  /\ \A k, l \in 1 .. n : k # l => s[k] # s[l]
  /\ \A f \in all : \E k \in 1 .. n : s[k] = f
  /\ tables[0] = Tables
  /\ \A k \in 1 .. n : tables[k] = Located(tables[k - 1], s[k], To[s[k]], ranges)
  /\ TablesAfter(SortByOffset(all), To, ranges) = tables[n]

(* Flotsam is located one after the other, each once.                      *)
LEMMA TablesAfterSteps ==
  ASSUME NEW all, IsFiniteSet(all), Apart(all), NEW To, NEW ranges
  PROVE  \E n \in Nat : \E s, tables : Along(all, To, ranges, n, s, tables)
<1> DEFINE s == SortByOffset(all)
           n == Cardinality(all)
           Row(t, k) == IF k = 0 THEN Tables ELSE Located(t[k - 1], s[k], To[s[k]], ranges)
           Step(t) == [k \in 0 .. Len(s) |-> Row(t, k)]
           iter == CHOOSE t : t = Step(t)
<1>1. /\ n \in Nat /\ Len(s) = n
      /\ \A k \in 1 .. n : s[k] \in all
      /\ \A k, l \in 1 .. n : k # l => s[k] # s[l]
      /\ \A f \in all : \E k \in 1 .. n : s[k] = f
  BY SortLists
<1>2. TablesAfter(SortByOffset(all), To, ranges) = iter[Len(s)]
  BY DEF TablesAfter
<1> HIDE DEF s, n
<1>3. \E t : t = Step(t)
  <2> DEFINE N == {m \in Nat : \E t : t = [k \in 0 .. m |-> Row(t, k)]}
  <2>1. 0 \in N
    <3> DEFINE t == [k \in 0 .. 0 |-> Tables]
    <3>1. t = [k \in 0 .. 0 |-> Row(t, k)]
      OBVIOUS
    <3> QED BY <3>1
  <2>2. ASSUME NEW m \in Nat, m \in N PROVE m + 1 \in N
    <3>1. PICK t : t = [k \in 0 .. m |-> Row(t, k)]
      BY <2>2
    <3> DEFINE next == Located(t[m], s[m + 1], To[s[m + 1]], ranges)
               w == [k \in 0 .. m + 1 |-> IF k = m + 1 THEN next ELSE t[k]]
    <3>2. \A k \in 0 .. m + 1 : w[k] = Row(w, k)
      <4> SUFFICES ASSUME NEW k \in 0 .. m + 1 PROVE w[k] = Row(w, k)
        OBVIOUS
      <4>1. CASE k = m + 1
        <5>1. k # 0 /\ k - 1 = m /\ m \in 0 .. m + 1 /\ m # m + 1
          BY <4>1
        <5>2. w[k] = next /\ w[m] = t[m]
          BY <4>1, <5>1
        <5> HIDE DEF w
        <5> QED BY <4>1, <5>1, <5>2
      <4>2. CASE k # m + 1
        <5>1. k \in 0 .. m /\ w[k] = t[k]
          BY <4>2
        <5>2. t[k] = Row(t, k)
          <6> HIDE DEF Row
          <6> QED BY <3>1, <5>1
        <5>3. k # 0 => w[k - 1] = t[k - 1]
          <6>1. k # 0 => k - 1 \in 0 .. m + 1 /\ k - 1 # m + 1
            BY <5>1
          <6> QED BY <6>1
        <5> HIDE DEF w
        <5> QED BY <5>1, <5>2, <5>3
      <4> QED BY <4>1, <4>2
    <3>3. w = [k \in 0 .. m + 1 |-> Row(w, k)]
      <4>1. w = [k \in 0 .. m + 1 |-> w[k]]
        OBVIOUS
      <4> HIDE DEF w, Row
      <4> QED BY <3>2, <4>1
    <3> HIDE DEF w
    <3> QED BY <3>3
  <2>3. Nat \subseteq N
    <3> HIDE DEF N
    <3> QED BY <2>1, <2>2, NatSetInduction
  <2> QED BY <1>1, <2>3
<1>4. iter = Step(iter)
  <2> HIDE DEF Step
  <2> QED BY <1>3
<1>5. \A k \in 0 .. n : iter[k] = Row(iter, k)
  <2>1. Step(iter) = [k \in 0 .. n |-> Row(iter, k)]
    BY <1>1
  <2> HIDE DEF iter, Row, Step
  <2> QED BY <1>4, <2>1
<1> HIDE DEF iter
<1>6. iter[0] = Tables
  BY <1>1, <1>5
<1>7. ASSUME NEW k \in 1 .. n
      PROVE  iter[k] = Located(iter[k - 1], s[k], To[s[k]], ranges)
  <2>1. k \in 0 .. n /\ k # 0
    BY <1>1
  <2> QED BY <1>5, <2>1
<1>8. Along(all, To, ranges, n, s, iter)
  BY <1>1, <1>2, <1>6, <1>7 DEF Along
<1> QED BY <1>1, <1>8

(* Locate moves them all.                                                  *)
LEMMA TablesAfterMoves ==
  ASSUME NEW all, NEW To, Landable(all, To), Moved(Tables, {}, To), NEW ranges
  PROVE  Moved(TablesAfter(SortByOffset(all), To, ranges), all, To)
<1>1. PICK n \in Nat : \E s, iter : Along(all, To, ranges, n, s, iter)
  BY TablesAfterSteps DEF Landable
<1>2. PICK s, iter : Along(all, To, ranges, n, s, iter)
  BY <1>1
<1>3. /\ TwoWay(satpoint_to_id, id_to_satpoint)
      /\ DOMAIN id_to_entry = DOMAIN id_to_satpoint
  BY DEF Moved, Gapless, Tables
<1> DEFINE Done(k) == {s[j] : j \in 1 .. k}
           M == {k \in Nat : k <= n => Moved(iter[k], Done(k), To)}
<1>4. 0 \in M
  <2>1. Done(0) = {}
    OBVIOUS
  <2> HIDE DEF Done
  <2> QED BY <1>2, <2>1 DEF Along
<1>5. ASSUME NEW k \in Nat, k \in M PROVE k + 1 \in M
  <2> SUFFICES ASSUME k + 1 <= n PROVE Moved(iter[k + 1], Done(k + 1), To)
    OBVIOUS
  <2> DEFINE f == s[k + 1]
  <2>1. k + 1 \in 1 .. n /\ k + 1 - 1 = k /\ k <= n
    OBVIOUS
  <2>2. iter[k + 1] = Located(iter[k], f, To[f], ranges)
    BY <1>2, <2>1 DEF Along
  <2>3. Moved(iter[k], Done(k), To)
    BY <1>5, <2>1
  <2>4. f \in all /\ f \notin Done(k) /\ Done(k) \in SUBSET all
    BY <1>2, <2>1 DEF Along
  <2>5. Done(k + 1) = Done(k) \cup {f}
    BY <2>1
  <2> HIDE DEF f, Done
  <2>6. Moved(Located(iter[k], f, To[f], ranges), Done(k) \cup {f}, To)
    BY <1>3, <2>3, <2>4, LocatedMoves
  <2> QED BY <2>2, <2>5, <2>6
<1>6. n \in M
  <2>1. Nat \subseteq M
    <3> HIDE DEF M
    <3> QED BY <1>4, <1>5, NatSetInduction
  <2> QED BY <2>1
<1>7. Done(n) = all
  BY <1>2 DEF Along
<1> HIDE DEF Done
<1> QED BY <1>2, <1>6, <1>7 DEF Along

-----------------------------------------------------------------------------
(* What CRC20 is told                                                      *)

(* Sequences of operations, in which a transaction has an inscription once.*)
ToldOnce(ops) ==
  /\ \A t \in DOMAIN ops : \E S : ops[t] \in Seq(S)
  /\ \A t \in DOMAIN ops : \A k, l \in DOMAIN ops[t] : k # l => ops[t][k].id # ops[t][l].id

(* One more operation of a transaction, of an inscription it has none of.  *)
LEMMA TellsOneMore ==
  ASSUME NEW ops, ToldOnce(ops), NEW t, NEW op,
         \A m \in Told(ops) : m.txid = t => m.op.id # op.id,
         NEW more,
         more = WithRow(ops, t, Append(IF t \in DOMAIN ops THEN ops[t] ELSE << >>, op))
  PROVE  ToldOnce(more) /\ Told(more) = Told(ops) \cup {[txid |-> t, op |-> op]}
<1> DEFINE before == IF t \in DOMAIN ops THEN ops[t] ELSE << >>
<1>1. PICK S : before \in Seq(S)
  <2>1. CASE t \in DOMAIN ops
    BY <2>1 DEF ToldOnce
  <2>2. CASE t \notin DOMAIN ops
    <3>1. << >> \in Seq({})
      OBVIOUS
    <3> QED BY <2>2, <3>1
  <2> QED BY <2>1, <2>2
<1>2. \A k \in DOMAIN before : [txid |-> t, op |-> before[k]] \in Told(ops)
  <2>1. CASE t \in DOMAIN ops
    BY <2>1 DEF Told
  <2>2. CASE t \notin DOMAIN ops
    BY <2>2
  <2> QED BY <2>1, <2>2
<1>3. \A k, l \in DOMAIN before : k # l => before[k].id # before[l].id
  <2>1. CASE t \in DOMAIN ops
    BY <2>1 DEF ToldOnce
  <2>2. CASE t \notin DOMAIN ops
    BY <2>2
  <2> QED BY <2>1, <2>2
<1>4. /\ DOMAIN more = (DOMAIN ops) \cup {t}
      /\ more[t] = Append(before, op)
      /\ \A u \in DOMAIN ops : u # t => more[u] = ops[u]
  BY DEF WithRow, With
<1>5. t \in DOMAIN ops => before = ops[t]
  OBVIOUS
<1>6. t \notin DOMAIN ops => DOMAIN before = {}
  OBVIOUS
<1> HIDE DEF before
<1>7. PICK n \in Nat : n = Len(before) /\ DOMAIN before = 1 .. n
  BY <1>1
<1>8. before \in Seq(S \cup {op})
  BY <1>1, SeqMonotonic
<1>9. /\ Append(before, op) \in Seq(S \cup {op})
      /\ DOMAIN Append(before, op) = 1 .. n + 1
      /\ Append(before, op)[n + 1] = op
      /\ \A k \in 1 .. n : Append(before, op)[k] = before[k]
  <2>1. op \in S \cup {op}
    OBVIOUS
  <2>2. /\ Append(before, op) \in Seq(S \cup {op})
        /\ Len(Append(before, op)) = n + 1
        /\ \A k \in 1 .. n : Append(before, op)[k] = before[k]
        /\ Append(before, op)[n + 1] = op
    BY <1>7, <1>8, <2>1, AppendProperties
  <2> QED BY <2>2
<1>10. ASSUME NEW k \in 1 .. n PROVE before[k].id # op.id
  <2> DEFINE m == [txid |-> t, op |-> before[k]]
  <2>1. m \in Told(ops) /\ m.txid = t /\ m.op = before[k]
    BY <1>2, <1>7
  <2> HIDE DEF m
  <2> QED BY <2>1
<1>11. \A k, l \in 1 .. n + 1 : k # l => more[t][k].id # more[t][l].id
  <2> SUFFICES ASSUME NEW k \in 1 .. n + 1, NEW l \in 1 .. n + 1, k # l
               PROVE  more[t][k].id # more[t][l].id
    OBVIOUS
  <2>1. k = n + 1 \/ k \in 1 .. n
    BY <1>7
  <2>2. l = n + 1 \/ l \in 1 .. n
    BY <1>7
  <2> QED BY <1>3, <1>4, <1>7, <1>9, <1>10, <2>1, <2>2
<1>12. ToldOnce(more)
  <2>1. \A u \in DOMAIN more : \E R : more[u] \in Seq(R)
    BY <1>4, <1>9 DEF ToldOnce
  <2>2. ASSUME NEW u \in DOMAIN more
        PROVE  \A k, l \in DOMAIN more[u] : k # l => more[u][k].id # more[u][l].id
    <3>1. CASE u = t
      BY <1>4, <1>9, <1>11, <3>1
    <3>2. CASE u # t
      BY <1>4, <3>2 DEF ToldOnce
    <3> QED BY <3>1, <3>2
  <2> QED BY <2>1, <2>2 DEF ToldOnce
<1>13. ASSUME NEW m \in Told(more) PROVE m \in Told(ops) \cup {[txid |-> t, op |-> op]}
  <2>1. PICK u \in DOMAIN more : \E k \in DOMAIN more[u] : m = [txid |-> u, op |-> more[u][k]]
    BY <1>13 DEF Told
  <2>2. PICK k \in DOMAIN more[u] : m = [txid |-> u, op |-> more[u][k]]
    BY <2>1
  <2>3. CASE u = t
    <3>1. k \in 1 .. n + 1
      BY <1>4, <1>9, <2>3
    <3>2. CASE k = n + 1
      BY <1>4, <1>9, <2>2, <2>3, <3>2
    <3>3. CASE k \in 1 .. n
      BY <1>2, <1>4, <1>7, <1>9, <2>2, <2>3, <3>3
    <3> QED BY <1>7, <3>1, <3>2, <3>3
  <2>4. CASE u # t
    <3>1. u \in DOMAIN ops /\ more[u] = ops[u]
      BY <1>4, <2>4
    <3>2. m \in Told(ops)
      BY <2>2, <3>1 DEF Told
    <3> QED BY <3>2
  <2> QED BY <2>3, <2>4
<1>14. [txid |-> t, op |-> op] \in Told(more)
  <2>1. t \in DOMAIN more /\ n + 1 \in DOMAIN more[t] /\ more[t][n + 1] = op
    BY <1>4, <1>7, <1>9
  <2> QED BY <2>1 DEF Told
<1>15. ASSUME NEW m \in Told(ops) PROVE m \in Told(more)
  <2>1. PICK u \in DOMAIN ops : \E k \in DOMAIN ops[u] : m = [txid |-> u, op |-> ops[u][k]]
    BY <1>15 DEF Told
  <2>2. PICK k \in DOMAIN ops[u] : m = [txid |-> u, op |-> ops[u][k]]
    BY <2>1
  <2>3. u \in DOMAIN more /\ k \in DOMAIN more[u] /\ more[u][k] = ops[u][k]
    <3>1. CASE u # t
      BY <1>4, <3>1
    <3>2. CASE u = t
      <4>1. k \in 1 .. n /\ more[u] = Append(before, op) /\ before = ops[u]
        BY <1>4, <1>5, <1>7, <3>2
      <4>2. k \in 1 .. n + 1
        BY <1>7, <4>1
      <4> QED BY <1>4, <1>9, <3>2, <4>1, <4>2
    <3> QED BY <3>1, <3>2
  <2> QED BY <2>2, <2>3 DEF Told
<1> QED BY <1>12, <1>13, <1>14, <1>15

(* What is told after some of a set of flotsam went where To says.         *)
Tellings(done, To) == {[txid |-> f.txid, op |-> OperationOf(f, To[f])] : f \in done}

Tells(ops, done, To) ==
  ToldOnce(ops) /\ Told(ops) = Told(operations) \cup Tellings(done, To)

(* One more of them is located and told of.                                *)
LEMMA LocatedTells ==
  ASSUME NEW all, NEW To, Apart(all),
         \A f \in all : \A m \in Told(operations) : m.op.id = f.id => m.txid < f.txid,
         NEW t, NEW done \in SUBSET all, Tells(t.operations, done, To),
         NEW f \in all, f \notin done, NEW ranges
  PROVE  Tells(Located(t, f, To[f], ranges).operations, done \cup {f}, To)
<1> DEFINE op == OperationOf(f, To[f])
           more == Located(t, f, To[f], ranges).operations
           before == IF f.txid \in DOMAIN t.operations THEN t.operations[f.txid] ELSE << >>
<1>1. more = WithRow(t.operations, f.txid, Append(before, op))
  BY DEF Located
<1>2. op.id = f.id /\ f.txid \in Nat /\ \A g \in done : g.id # f.id
  BY DEF OperationOf, Apart
<1>3. ToldOnce(t.operations) /\ Told(t.operations) = Told(operations) \cup Tellings(done, To)
  BY DEF Tells
<1>4. ASSUME NEW m \in Told(t.operations), m.txid = f.txid PROVE m.op.id # op.id
  <2>1. CASE m \in Told(operations)
    <3>1. m.op.id = f.id => m.txid < f.txid
      BY <2>1
    <3> QED BY <1>2, <1>4, <3>1
  <2>2. CASE m \in Tellings(done, To)
    <3>1. PICK g \in done : m = [txid |-> g.txid, op |-> OperationOf(g, To[g])]
      BY <2>2 DEF Tellings
    <3>2. m.op.id = g.id
      BY <3>1 DEF OperationOf
    <3> QED BY <1>2, <3>2
  <2> QED BY <1>3, <2>1, <2>2
<1> HIDE DEF op, more
<1>5. ToldOnce(more) /\ Told(more) = Told(t.operations) \cup {[txid |-> f.txid, op |-> op]}
  BY <1>1, <1>3, <1>4, TellsOneMore
<1>6. Tellings(done \cup {f}, To) = Tellings(done, To) \cup {[txid |-> f.txid, op |-> op]}
  BY DEF Tellings, op
<1>7. Tells(more, done \cup {f}, To)
  BY <1>3, <1>5, <1>6 DEF Tells
<1> QED BY <1>7 DEF more

(* And CRC20 is told of them all.                                          *)
LEMMA TablesAfterTells ==
  ASSUME NEW all, NEW To, IsFiniteSet(all), Apart(all), NEW ranges,
         \A f \in all : \A m \in Told(operations) : m.op.id = f.id => m.txid < f.txid,
         ToldOnce(operations)
  PROVE  Tells(TablesAfter(SortByOffset(all), To, ranges).operations, all, To)
<1>1. PICK n \in Nat : \E s, iter : Along(all, To, ranges, n, s, iter)
  BY TablesAfterSteps
<1>2. PICK s, iter : Along(all, To, ranges, n, s, iter)
  BY <1>1
<1>3. Tells(Tables.operations, {}, To)
  BY DEF Tells, Tellings, Tables
<1> DEFINE Done(k) == {s[j] : j \in 1 .. k}
           M == {k \in Nat : k <= n => Tells(iter[k].operations, Done(k), To)}
<1>4. 0 \in M
  <2>1. Done(0) = {}
    OBVIOUS
  <2> HIDE DEF Done
  <2> QED BY <1>2, <1>3, <2>1 DEF Along
<1>5. ASSUME NEW k \in Nat, k \in M PROVE k + 1 \in M
  <2> SUFFICES ASSUME k + 1 <= n PROVE Tells(iter[k + 1].operations, Done(k + 1), To)
    OBVIOUS
  <2> DEFINE f == s[k + 1]
  <2>1. k + 1 \in 1 .. n /\ k + 1 - 1 = k /\ k <= n
    OBVIOUS
  <2>2. iter[k + 1] = Located(iter[k], f, To[f], ranges)
    BY <1>2, <2>1 DEF Along
  <2>3. Tells(iter[k].operations, Done(k), To)
    BY <1>5, <2>1
  <2>4. f \in all /\ f \notin Done(k) /\ Done(k) \in SUBSET all
    BY <1>2, <2>1 DEF Along
  <2>5. Done(k + 1) = Done(k) \cup {f}
    BY <2>1
  <2> HIDE DEF f, Done
  <2>6. Tells(Located(iter[k], f, To[f], ranges).operations, Done(k) \cup {f}, To)
    BY <2>3, <2>4, LocatedTells
  <2> QED BY <2>2, <2>5, <2>6
<1>6. n \in M
  <2>1. Nat \subseteq M
    <3> HIDE DEF M
    <3> QED BY <1>4, <1>5, NatSetInduction
  <2> QED BY <2>1
<1>7. Done(n) = all
  BY <1>2 DEF Along
<1> HIDE DEF Done
<1> QED BY <1>2, <1>6, <1>7 DEF Along

(* Nothing told is a path.                                                 *)
LEMMA NothingTold ==
  ASSUME NEW ops, DOMAIN ops = {}
  PROVE  Told(ops) = {} /\ ToldOnce(ops)
BY DEF Told, ToldOnce

(* Sequences of operations of a block, each of an inscription in the       *)
(* tables, which leaves in a later transaction if it is on its way.        *)
ToldOK ==
  /\ ToldOnce(operations)
  /\ \A m \in Told(operations) :
       /\ m.txid \in 0 .. next_txid - 1 /\ m.op.id \in DOMAIN id_to_satpoint
       /\ \A f \in flotsam : f.id = m.op.id => m.txid < f.txid
  /\ \A f \in flotsam : f.txid \in 0 .. next_txid - 1

(* Flotsam may be told of: it left after all that was told of it.          *)
Tellable(all) ==
  \A f \in all : \A m \in Told(operations) : m.op.id = f.id => m.txid < f.txid

(* What Locate tells.                                                      *)
LEMMA LocateTells ==
  ASSUME ToldOK, NEW all, NEW To, Landable(all, To), Tellable(all), NEW ranges,
         Locate(all, To, ranges)
  PROVE  /\ ToldOnce(operations')
         /\ Told(operations') = Told(operations) \cup Tellings(all, To)
<1> DEFINE t == TablesAfter(SortByOffset(all), To, ranges)
<1>1. Tells(t.operations, all, To)
  BY TablesAfterTells DEF Landable, Tellable, ToldOK
<1>2. operations' = t.operations
  BY DEF Locate
<1> HIDE DEF t
<1> QED BY <1>1, <1>2 DEF Tells

(* Paths grow by one move at most, which begins where they ended.          *)
LEMMA PathsGrow ==
  ASSUME ToldOK, OperationsArePaths, next_txid \in Nat,
         NEW all, NEW To, Landable(all, To), Tellable(all),
         ToldOnce(operations'), Told(operations') = Told(operations) \cup Tellings(all, To),
         \A f \in all : id_to_satpoint'[f.id] = To[f],
         \A id \in (DOMAIN id_to_satpoint) \ Ids(all) : id_to_satpoint'[id] = id_to_satpoint[id]
  PROVE  OperationsArePaths'
<1> DEFINE Telling(f) == [txid |-> f.txid, op |-> OperationOf(f, To[f])]
           Later(m) == {u \in Told(operations') : u.op.id = m.op.id /\ u.txid > m.txid}
           Path(m) == IF Later(m) = {} THEN m.op.to = id_to_satpoint'[m.op.id]
                      ELSE \E u \in Later(m) :
                             /\ \A v \in Later(m) : u.txid <= v.txid
                             /\ u.op.old = m.op.to /\ ~u.op.new
<1>1. \A f \in all : /\ Telling(f).txid = f.txid /\ Telling(f).op.id = f.id
                     /\ Telling(f).op.to = To[f] /\ Telling(f).op.old = f.old
                     /\ Telling(f).op.new = (f.origin = "New")
  BY DEF OperationOf
<1>2. Told(operations') = Told(operations) \cup {Telling(f) : f \in all}
  BY DEF Tellings
<1>3. \A f \in all : /\ f.txid \in Nat
                     /\ f.origin \in {"Old", "New"}
                     /\ f.origin = "Old" =>
                          f.id \in DOMAIN id_to_satpoint /\ id_to_satpoint[f.id] = f.old
                     /\ f.origin = "New" => f.id \notin DOMAIN id_to_satpoint
  BY DEF Landable, Apart
<1>4. \A f, g \in all : f.id = g.id => f = g
  BY DEF Landable, Apart
<1>5. \A m \in Told(operations) : m.txid \in Nat /\ m.op.id \in DOMAIN id_to_satpoint
  BY DEF ToldOK
<1>6. \A f \in all : \A m \in Told(operations) : m.op.id = f.id => m.txid < f.txid
  BY DEF Tellable
<1>7. \A m \in Told(operations) :
        IF After(m) = {} THEN m.op.to = id_to_satpoint[m.op.id]
        ELSE \E u \in After(m) :
               /\ \A v \in After(m) : u.txid <= v.txid
               /\ u.op.old = m.op.to /\ ~u.op.new
  BY DEF OperationsArePaths
<1> HIDE DEF Telling
<1>8. ASSUME NEW f \in all PROVE Path(Telling(f))
  <2>1. Later(Telling(f)) = {}
    <3> SUFFICES ASSUME NEW u \in Later(Telling(f)) PROVE FALSE
      OBVIOUS
    <3>1. u \in Told(operations') /\ u.op.id = f.id /\ u.txid > f.txid
      BY <1>1
    <3>2. CASE u \in Told(operations)
      BY <1>3, <1>5, <1>6, <3>1, <3>2
    <3>3. CASE u \in {Telling(g) : g \in all}
      <4>1. PICK g \in all : u = Telling(g)
        BY <3>3
      <4>2. g = f
        BY <1>1, <1>4, <3>1, <4>1
      <4> QED BY <1>1, <1>3, <3>1, <4>1, <4>2
    <3> QED BY <1>2, <3>1, <3>2, <3>3
  <2> QED BY <1>1, <2>1
<1>9. ASSUME NEW m \in Told(operations), m.op.id \notin Ids(all) PROVE Path(m)
  <2>1. Later(m) = After(m)
    <3>1. \A f \in all : Telling(f).op.id # m.op.id
      BY <1>1, <1>9 DEF Ids
    <3> QED BY <1>2, <3>1 DEF After
  <2>2. id_to_satpoint'[m.op.id] = id_to_satpoint[m.op.id]
    BY <1>5, <1>9
  <2> HIDE DEF Later
  <2> QED BY <1>7, <2>1, <2>2
<1>10. ASSUME NEW m \in Told(operations), NEW f \in all, f.id = m.op.id PROVE Path(m)
  <2>1. m.txid < f.txid /\ m.txid \in Nat /\ f.txid \in Nat
    BY <1>3, <1>5, <1>6, <1>10
  <2>2. f.origin = "Old" /\ id_to_satpoint[f.id] = f.old
    BY <1>3, <1>5, <1>10
  <2>3. Later(m) = After(m) \cup {Telling(f)}
    <3>1. \A g \in all : Telling(g).op.id = m.op.id => g = f
      BY <1>1, <1>4, <1>10
    <3>2. Telling(f).op.id = m.op.id /\ Telling(f).txid > m.txid
      BY <1>1, <1>10, <2>1
    <3> QED BY <1>2, <3>1, <3>2 DEF After
  <2>4. Telling(f).op.old = f.old /\ ~Telling(f).op.new /\ Telling(f).txid = f.txid
    BY <1>1, <2>2
  <2>5. \A v \in After(m) : v.txid \in Nat /\ v.txid < f.txid
    BY <1>5, <1>6, <1>10 DEF After
  <2> HIDE DEF Later
  <2>6. CASE After(m) = {}
    <3>1. m.op.to = f.old
      BY <1>7, <1>10, <2>2, <2>6
    <3>2. Later(m) = {Telling(f)}
      BY <2>3, <2>6
    <3> QED BY <2>1, <2>4, <3>1, <3>2
  <2>7. CASE After(m) # {}
    <3>1. PICK u \in After(m) : /\ \A v \in After(m) : u.txid <= v.txid
                                /\ u.op.old = m.op.to /\ ~u.op.new
      BY <1>7, <2>7
    <3>2. u \in Later(m) /\ u.txid <= Telling(f).txid
      BY <2>1, <2>3, <2>4, <2>5
    <3>3. \A v \in Later(m) : u.txid <= v.txid
      BY <2>3, <3>1, <3>2
    <3> QED BY <3>1, <3>2, <3>3
  <2> QED BY <2>6, <2>7
<1>11. \A m \in Told(operations') : Path(m)
  <2> HIDE DEF Path
  <2>1. ASSUME NEW m \in Told(operations) PROVE Path(m)
    <3>1. CASE m.op.id \in Ids(all)
      <4>1. PICK f \in all : f.id = m.op.id
        BY <3>1 DEF Ids
      <4> QED BY <1>10, <4>1
    <3>2. CASE m.op.id \notin Ids(all)
      BY <1>9, <3>2
    <3> QED BY <3>1, <3>2
  <2> QED BY <1>2, <1>8, <2>1
<1>12. \A t \in DOMAIN operations' : \A k, l \in DOMAIN operations'[t] :
         k # l => operations'[t][k].id # operations'[t][l].id
  BY DEF ToldOnce
<1> QED BY <1>11, <1>12 DEF OperationsArePaths, After

-----------------------------------------------------------------------------
(* Where inscriptions are                                                  *)
ChainOK ==
  /\ height \in Nat /\ height <= MaxHeight /\ (in_block => height < MaxHeight)
  /\ next_txid \in Nat \ {0} /\ claimable \in Nat
  /\ ~options.sats => lost_sats \in Nat
  /\ \A o \in DOMAIN unspent : unspent[o] \in Nat /\ o.txid \in 1 .. next_txid - 1
  /\ in_block /\ index_inscriptions => reward = claimable

(* Inscriptions on their way left an output that is spent, in a chain that *)
(* starts with another transaction each.                                   *)
FlotsamOK ==
  /\ IsFiniteSet(flotsam) /\ Apart(flotsam)
  /\ ~in_block => flotsam = {}
  /\ \A f \in flotsam :
       /\ f.origin \in {"Old", "New"}
       /\ f.origin = "Old" =>
            /\ f.id \in DOMAIN id_to_satpoint /\ id_to_satpoint[f.id] = f.old
            /\ f.old.outpoint.txid \in 1 .. next_txid - 1
            /\ f.old.outpoint \notin DOMAIN unspent

IsSatPoint(sp) ==
  sp = [outpoint |-> sp.outpoint, offset |-> sp.offset] /\ sp.offset \in Nat

TablesOK ==
  /\ next_number \in Nat /\ IsFiniteSet(DOMAIN id_to_entry)
  /\ \A id \in DOMAIN id_to_satpoint :
       IsSatPoint(id_to_satpoint[id]) \/ Uncounted(id_to_satpoint[id])
  /\ ~index_inscriptions => DOMAIN id_to_satpoint = {} /\ flotsam = {}

PlacesInv ==
  /\ ChainOK /\ FlotsamOK /\ TablesOK /\ TablesAgree /\ InscriptionsAreOnUnspent
  /\ ToldOK /\ OperationsArePaths

(* The subsidy of a block.                                                 *)
LEMMA SubsidyIsNat ==
  ASSUME NEW h \in Nat
  PROVE  Subsidy(h) \in Nat
<1> DEFINE E == {e \in Epochs : EpochHeight[e] <= h}
           T == {n \in Nat : \E e \in E : e + n = Len(EpochSat)}
<1>1. Epochs = 1 .. Len(EpochSat) /\ Len(EpochSat) \in Nat /\ 1 \in Epochs
  BY EpochAssumption DEF Epochs
<1>2. 1 \in E
  BY <1>1, EpochAssumption
<1>3. \E e \in E : \A d \in E : e >= d
  <2>1. Len(EpochSat) - 1 \in T
    BY <1>1, <1>2
  <2>2. PICK n \in T : \A m \in T : n <= m
    <3> HIDE DEF T
    <3>1. T \in SUBSET Nat
      BY DEF T
    <3> QED BY <2>1, <3>1, LeastNatural
  <2>3. PICK e \in E : e + n = Len(EpochSat)
    OBVIOUS
  <2>4. ASSUME NEW d \in E PROVE e >= d
    <3>1. d \in 1 .. Len(EpochSat) /\ e \in 1 .. Len(EpochSat)
      BY <1>1
    <3>2. Len(EpochSat) - d \in T
      BY <1>1, <3>1
    <3>3. n <= Len(EpochSat) - d
      BY <2>2, <3>2
    <3> QED BY <1>1, <2>3, <3>1, <3>3
  <2> QED BY <2>4
<1>4. EpochOfHeight(h) \in E
  <2>1. EpochOfHeight(h) = Max(E)
    BY DEF EpochOfHeight
  <2> HIDE DEF E
  <2> QED BY <1>3, <2>1 DEF Max
<1> QED BY <1>4, EpochAssumption DEF Subsidy

(* The head of what a transaction continues names no inscription yet.      *)
LEMMA ContinuedIsFresh ==
  ASSUME ChainsInv, NEW tx, tx.txid = next_txid
  PROVE  Continued(tx)[1] \notin DOMAIN id_to_txids
<1> DEFINE c == Continued(tx)
           k == tx.inputs[1].txid
<1>1. /\ c \in Seq(Nat) /\ c # << >>
      /\ k \in DOMAIN partial_txid_to_txids => Head(c) = Head(partial_txid_to_txids[k])
      /\ k \notin DOMAIN partial_txid_to_txids => Head(c) = next_txid
  BY ContinuedIsChain DEF ChainsInv
<1> SUFFICES ASSUME c[1] \in DOMAIN id_to_txids PROVE FALSE
  OBVIOUS
<1>2. PICK i \in DOMAIN id_to_txids : i = Head(c)
  BY <1>1
<1>3. id_to_txids[i] \in Seq(Nat) /\ id_to_txids[i] # << >>
      /\ ToSet(id_to_txids[i]) \subseteq 0 .. next_txid - 1 /\ next_txid \in Nat
  BY DEF ChainsInv, ChainsOK, Known
<1>4. i \in ToSet(id_to_txids[i])
  <2>1. Head(id_to_txids[i]) = i
    BY DEF ChainsInv, ChainsAreDisjoint
  <2> QED BY <1>3, <2>1, HeadIsMember
<1>5. CASE k \in DOMAIN partial_txid_to_txids
  <2>1. partial_txid_to_txids[k] \in Seq(Nat) /\ partial_txid_to_txids[k] # << >>
    BY <1>5 DEF ChainsInv, ChainsOK, Known
  <2>2. i \in ToSet(partial_txid_to_txids[k])
    BY <1>1, <1>2, <1>5, <2>1, HeadIsMember
  <2>3. ToSet(partial_txid_to_txids[k]) \cap ToSet(id_to_txids[i]) = {}
    BY <1>5 DEF ChainsInv, ChainsAreDisjoint, Disjoint
  <2> QED BY <1>4, <2>2, <2>3
<1>6. CASE k \notin DOMAIN partial_txid_to_txids
  BY <1>1, <1>2, <1>3, <1>4, <1>6
<1> QED BY <1>5, <1>6

(* The inputs of a transaction are different outputs, that are unspent and *)
(* whose values are known.                                                 *)
LEMMA InputsOfSpend ==
  ASSUME ValuesInv, ChainOK, NEW tx \in Spends
  PROVE  /\ tx.txid = next_txid
         /\ tx.outputs \in Seq(Nat)
         /\ \E n \in Nat \ {0} :
              /\ DOMAIN tx.inputs = 1 .. n
              /\ InputValues(tx) = [i \in 1 .. n |-> unspent[tx.inputs[i]]]
              /\ Len(InputValues(tx)) = n
         /\ \A i \in DOMAIN tx.inputs :
              /\ tx.inputs[i] \in DOMAIN unspent
              /\ unspent[tx.inputs[i]] \in Nat
              /\ InputValues(tx)[i] = unspent[tx.inputs[i]]
         /\ \A i, j \in DOMAIN tx.inputs : tx.inputs[i] = tx.inputs[j] => i = j
         /\ Total(InputValues(tx)) = InputTotal(tx)
<1>1. PICK ins \in InputLists, outs \in SpendOutputs, s \in Script :
        tx = [txid |-> next_txid, inputs |-> ins, outputs |-> outs, script |-> s]
  BY DEF Spends
<1>2. PICK n \in 1 .. MaxInputs : ins \in [1 .. n -> Spendable]
  BY DEF InputLists
<1>3. IsInjective(ins)
  BY DEF InputLists
<1>4. outs \in Seq(Nat)
  BY IndexAssumption
<1>5. DOMAIN ins = 1 .. n /\ n \in Nat \ {0} /\ \A i \in 1 .. n : ins[i] \in DOMAIN unspent
  BY <1>2, IndexAssumption DEF Spendable
<1>6. \A i \in 1 .. n : ~IsNull(ins[i]) /\ unspent[ins[i]] \in Nat
  <2> SUFFICES ASSUME NEW i \in 1 .. n PROVE ~IsNull(ins[i]) /\ unspent[ins[i]] \in Nat
    OBVIOUS
  <2>1. ins[i].txid \in 1 .. next_txid - 1 /\ unspent[ins[i]] \in Nat
    BY <1>5 DEF ChainOK
  <2> QED BY <2>1 DEF IsNull, NullOutPoint
<1>7. \A i \in 1 .. n : ValueOf(ins[i]) = unspent[ins[i]]
  BY <1>5, <1>6 DEF ValueOf, ValuesInv, ValuesAgree
<1>8. InputValues(tx) = [i \in 1 .. n |-> unspent[ins[i]]]
  BY <1>1, <1>5, <1>7 DEF InputValues
<1>9. InputTotal(tx) = Total([i \in 1 .. n |-> unspent[ins[i]]])
  BY <1>1, <1>5 DEF InputTotal
<1>10. Len([i \in 1 .. n |-> unspent[ins[i]]]) = n
  BY <1>5
<1>11. \A i, j \in DOMAIN ins : ins[i] = ins[j] => i = j
  BY <1>3 DEF IsInjective
<1>12. Total(InputValues(tx)) = InputTotal(tx)
  BY <1>8, <1>9
<1>13. tx.txid = next_txid /\ tx.inputs = ins /\ tx.outputs = outs
  BY <1>1
<1>14. \A i \in 1 .. n : InputValues(tx)[i] = unspent[ins[i]]
  BY <1>8
<1> QED
  BY <1>4, <1>5, <1>6, <1>8, <1>10, <1>11, <1>12, <1>13, <1>14

(* The total of natural values is past the end of each.                    *)
LEMMA WithinTotal ==
  ASSUME NEW n \in Nat, NEW sizes, Len(sizes) = n, \A i \in 1 .. n : sizes[i] \in Nat
  PROVE  /\ Total(sizes) \in Nat
         /\ \A i \in 1 .. n : /\ StartOf(sizes, i) \in Nat
                              /\ StartOf(sizes, i) + sizes[i] <= Total(sizes)
<1>1. Total(sizes) = StartOf(sizes, n + 1)
  BY DEF Total
<1>2. \A i \in 1 .. n + 1 : StartOf(sizes, i) \in Nat
  BY StartsGrow
<1>3. \A i, j \in 1 .. n + 1 : i < j => StartOf(sizes, i) + sizes[i] <= StartOf(sizes, j)
  BY StartsGrow
<1>4. n + 1 \in 1 .. n + 1 /\ \A i \in 1 .. n : i \in 1 .. n + 1 /\ i < n + 1
  OBVIOUS
<1> QED BY <1>1, <1>2, <1>3, <1>4

-----------------------------------------------------------------------------
(* The flotsam of a transaction                                            *)
AllFlotsam(tx) ==
  OldFlotsam(tx) \cup NewFlotsam(tx, Parsed(tx, OldFlotsam(tx)))

(* An inscription on an unspent output is not on its way.                  *)
LEMMA OnUnspentIsNotFlying ==
  ASSUME PlacesInv, NEW id \in DOMAIN id_to_satpoint,
         id_to_satpoint[id].outpoint \in DOMAIN unspent
  PROVE  id \notin FlyingIds
<1> SUFFICES ASSUME NEW f \in flotsam, f.id = id PROVE FALSE
  BY DEF FlyingIds
<1>1. CASE f.origin = "Old"
  BY <1>1 DEF PlacesInv, FlotsamOK
<1>2. CASE f.origin = "New"
  <2>1. id \notin DOMAIN id_to_entry /\ DOMAIN id_to_entry = DOMAIN id_to_satpoint
    BY <1>2 DEF PlacesInv, TablesAgree, NumbersAreGapless
  <2> QED BY <2>1
<1> QED BY <1>1, <1>2 DEF PlacesInv, FlotsamOK

(* The flotsam of an input is that of the satpoints within it.             *)
LEMMA OldFlotsamIs ==
  ASSUME ValuesInv, PlacesInv, NEW tx \in Spends, NEW f \in OldFlotsam(tx)
  PROVE  \E i \in DOMAIN tx.inputs, sp \in DOMAIN satpoint_to_id :
           /\ f = [txid |-> next_txid, id |-> satpoint_to_id[sp], origin |-> "Old",
                   offset |-> StartOf(InputValues(tx), i) + sp.offset, old |-> sp]
           /\ IsSatPoint(sp) /\ sp.outpoint = tx.inputs[i]
           /\ f.id \in DOMAIN id_to_satpoint /\ id_to_satpoint[f.id] = sp
           /\ f.id \notin FlyingIds
           /\ sp.offset < unspent[tx.inputs[i]]
<1>0. PICK i \in DOMAIN tx.inputs :
        f \in {[txid |-> tx.txid, id |-> satpoint_to_id[sp], origin |-> "Old",
               offset |-> StartOf(InputValues(tx), i) + sp.offset, old |-> sp]
                : sp \in OnOutput(tx.inputs[i])}
  BY DEF OldFlotsam
<1>1. PICK sp \in OnOutput(tx.inputs[i]) :
        f = [txid |-> tx.txid, id |-> satpoint_to_id[sp], origin |-> "Old",
             offset |-> StartOf(InputValues(tx), i) + sp.offset, old |-> sp]
  BY <1>0
<1>2. tx.txid = next_txid /\ tx.inputs[i] \in DOMAIN unspent
  BY InputsOfSpend DEF PlacesInv
<1>3. sp \in DOMAIN satpoint_to_id /\ sp.outpoint = tx.inputs[i]
  BY DEF OnOutput
<1>4. f.id = satpoint_to_id[sp]
  BY <1>1
<1>5. f.id \in DOMAIN id_to_satpoint /\ id_to_satpoint[f.id] = sp
  BY <1>3, <1>4 DEF PlacesInv, TablesAgree, PlacesAreInverse
<1>6. f.id \notin FlyingIds
  BY <1>2, <1>3, <1>5, OnUnspentIsNotFlying
<1>7. ~IsNull(sp.outpoint)
  <2>1. sp.outpoint.txid \in 1 .. next_txid - 1
    BY <1>2, <1>3 DEF PlacesInv, ChainOK
  <2> QED BY <2>1 DEF IsNull, NullOutPoint
<1>8. IsSatPoint(sp)
  BY <1>5, <1>7 DEF PlacesInv, TablesOK, Uncounted
<1>9. sp.offset < unspent[tx.inputs[i]]
  BY <1>3, <1>5, <1>6, <1>7 DEF PlacesInv, InscriptionsAreOnUnspent
<1> QED BY <1>1, <1>2, <1>3, <1>5, <1>6, <1>8, <1>9

(* Old flotsam is within the inputs, and different of it is apart.         *)
LEMMA OldFlotsamApart ==
  ASSUME ValuesInv, PlacesInv, NEW tx \in Spends
  PROVE  /\ IsFiniteSet(OldFlotsam(tx)) /\ Apart(OldFlotsam(tx))
         /\ \A f \in OldFlotsam(tx) : f.offset < InputTotal(tx)
<1> DEFINE all == OldFlotsam(tx)
           S(i) == StartOf(InputValues(tx), i)
           v == InputValues(tx)
<1>1. PICK n \in Nat \ {0} : DOMAIN tx.inputs = 1 .. n /\ Len(v) = n
  BY InputsOfSpend DEF PlacesInv
<1>2. /\ \A i \in 1 .. n : /\ tx.inputs[i] \in DOMAIN unspent
                           /\ unspent[tx.inputs[i]] \in Nat
                           /\ v[i] = unspent[tx.inputs[i]]
      /\ \A i, j \in 1 .. n : tx.inputs[i] = tx.inputs[j] => i = j
      /\ Total(v) = InputTotal(tx)
  BY <1>1, InputsOfSpend DEF PlacesInv
<1> HIDE DEF v
<1>3. /\ Total(v) \in Nat
      /\ \A i \in 1 .. n : StartOf(v, i) \in Nat /\ StartOf(v, i) + v[i] <= Total(v)
  BY <1>1, <1>2, WithinTotal
<1>4. \A i, j \in 1 .. n : i < j => StartOf(v, i) + v[i] <= StartOf(v, j)
  <2>1. \A i, j \in 1 .. n + 1 : i < j => StartOf(v, i) + v[i] <= StartOf(v, j)
    BY <1>2, StartsGrow
  <2> QED BY <2>1
<1>5. \A i \in 1 .. n : /\ S(i) \in Nat /\ S(i) + unspent[tx.inputs[i]] <= InputTotal(tx)
                        /\ \A j \in 1 .. n : i < j => S(i) + unspent[tx.inputs[i]] <= S(j)
  BY <1>2, <1>3, <1>4 DEF v
<1>6. InputTotal(tx) \in Nat
  BY <1>2, <1>3
<1> HIDE DEF S, all
<1>7. ASSUME NEW f \in all
      PROVE  \E i \in 1 .. n, sp \in DOMAIN satpoint_to_id :
               /\ f = [txid |-> next_txid, id |-> satpoint_to_id[sp], origin |-> "Old",
                       offset |-> S(i) + sp.offset, old |-> sp]
               /\ IsSatPoint(sp) /\ sp.outpoint = tx.inputs[i]
               /\ f.id \in DOMAIN id_to_satpoint /\ id_to_satpoint[f.id] = sp
               /\ sp.offset < unspent[tx.inputs[i]]
  BY <1>1, OldFlotsamIs DEF all, S
<1>8. ASSUME NEW f \in all
      PROVE  f.offset \in Nat /\ f.txid \in Nat /\ f.offset < InputTotal(tx)
  <2>1. PICK i \in 1 .. n, sp \in DOMAIN satpoint_to_id :
          /\ f.txid = next_txid /\ f.offset = S(i) + sp.offset
          /\ sp.offset \in Nat /\ sp.offset < unspent[tx.inputs[i]]
    BY <1>7 DEF IsSatPoint
  <2>2. S(i) \in Nat /\ S(i) + unspent[tx.inputs[i]] <= InputTotal(tx)
        /\ unspent[tx.inputs[i]] \in Nat
    BY <1>2, <1>5
  <2>3. next_txid \in Nat
    BY DEF PlacesInv, ChainOK
  <2> QED BY <1>6, <2>1, <2>2, <2>3
<1>9. ASSUME NEW f \in all, NEW g \in all, f # g
      PROVE  f.offset # g.offset /\ f.id # g.id
  <2>1. PICK i \in 1 .. n, sp \in DOMAIN satpoint_to_id :
          /\ f = [txid |-> next_txid, id |-> satpoint_to_id[sp], origin |-> "Old",
                  offset |-> S(i) + sp.offset, old |-> sp]
          /\ IsSatPoint(sp) /\ sp.outpoint = tx.inputs[i]
          /\ f.id \in DOMAIN id_to_satpoint /\ id_to_satpoint[f.id] = sp
          /\ sp.offset < unspent[tx.inputs[i]]
    BY <1>7
  <2>2. PICK j \in 1 .. n, sq \in DOMAIN satpoint_to_id :
          /\ g = [txid |-> next_txid, id |-> satpoint_to_id[sq], origin |-> "Old",
                  offset |-> S(j) + sq.offset, old |-> sq]
          /\ IsSatPoint(sq) /\ sq.outpoint = tx.inputs[j]
          /\ g.id \in DOMAIN id_to_satpoint /\ id_to_satpoint[g.id] = sq
          /\ sq.offset < unspent[tx.inputs[j]]
    BY <1>7
  <2>3. sp # sq
    BY <1>2, <1>9, <2>1, <2>2
  <2>4. f.id # g.id
    BY <2>1, <2>2, <2>3
  <2>5. f.offset = S(i) + sp.offset /\ g.offset = S(j) + sq.offset
    BY <2>1, <2>2
  <2>6. /\ S(i) \in Nat /\ S(j) \in Nat /\ sp.offset \in Nat /\ sq.offset \in Nat
        /\ unspent[tx.inputs[i]] \in Nat /\ unspent[tx.inputs[j]] \in Nat
    BY <1>2, <1>5, <2>1, <2>2 DEF IsSatPoint
  <2>7. CASE i = j
    <3>1. sp.offset # sq.offset
      BY <2>1, <2>2, <2>3, <2>7 DEF IsSatPoint
    <3> QED BY <2>4, <2>5, <2>6, <2>7, <3>1
  <2>8. CASE i < j
    <3>1. S(i) + unspent[tx.inputs[i]] <= S(j)
      BY <1>5, <2>8
    <3> QED BY <2>1, <2>4, <2>5, <2>6, <3>1
  <2>9. CASE j < i
    <3>1. S(j) + unspent[tx.inputs[j]] <= S(i)
      BY <1>5, <2>9
    <3> QED BY <2>2, <2>4, <2>5, <2>6, <3>1
  <2> QED BY <2>7, <2>8, <2>9
<1>10. IsFiniteSet(all)
  <2> DEFINE M == [f \in all |-> f.id]
  <2>1. \A f \in all : f.id \in DOMAIN id_to_satpoint
    BY <1>7
  <2>2. M \in [all -> DOMAIN id_to_satpoint] /\ \A f, g \in all : M[f] = M[g] => f = g
    BY <1>9, <2>1
  <2>3. DOMAIN M = all
    OBVIOUS
  <2> HIDE DEF M
  <2>4. M \in Injection(all, DOMAIN id_to_satpoint)
    BY <2>2, <2>3 DEF Injection, IsInjective
  <2>5. IsFiniteSet(DOMAIN id_to_satpoint)
    BY DEF PlacesInv, TablesOK, TablesAgree, NumbersAreGapless
  <2> QED BY <2>4, <2>5, FS_Injection
<1>11. Apart(all)
  BY <1>8, <1>9 DEF Apart
<1> QED BY <1>8, <1>10, <1>11 DEF all

IsFlotsam(f) == DOMAIN f = {"txid", "id", "origin", "offset", "old"}

(* What a transaction moves: different inscriptions at different offsets   *)
(* in its inputs, all of those on its inputs, and a new one if it completes*)
(* a chain.                                                                *)
LEMMA FlotsamOfSpend ==
  ASSUME ChainsInv, ValuesInv, PlacesInv, NEW tx \in Spends, InputTotal(tx) > 0
  PROVE  LET all == AllFlotsam(tx)
             complete == Parsed(tx, OldFlotsam(tx)) = "Complete"
         IN  /\ IsFiniteSet(all) /\ Apart(all)
             /\ \A f \in all :
                  /\ IsFlotsam(f) /\ f.txid = next_txid /\ f.id \notin FlyingIds
                  /\ f.offset < InputTotal(tx) /\ f.origin \in {"Old", "New"}
                  /\ f.origin = "Old" =>
                       /\ f.id \in DOMAIN id_to_satpoint /\ id_to_satpoint[f.id] = f.old
                       /\ f.old.outpoint \in ToSet(tx.inputs)
                  /\ f.origin = "New" =>
                       complete /\ f.id = Continued(tx)[1] /\ f.id \notin DOMAIN id_to_txids
             /\ complete => \E f \in all : f.origin = "New" /\ f.id = Continued(tx)[1]
             /\ \A id \in DOMAIN id_to_satpoint :
                  id_to_satpoint[id].outpoint \in ToSet(tx.inputs) =>
                    \E f \in all : f.id = id /\ f.origin = "Old"
<1> DEFINE old == OldFlotsam(tx)
           new == NewFlotsam(tx, Parsed(tx, old))
           complete == Parsed(tx, old) = "Complete"
           f0 == [txid |-> tx.txid, id |-> Continued(tx)[1], origin |-> "New",
                  offset |-> 0, old |-> [outpoint |-> tx.inputs[1], offset |-> 0]]
<1>1. tx.txid = next_txid /\ next_txid \in Nat
  BY InputsOfSpend DEF PlacesInv, ChainOK
<1>2. /\ IsFiniteSet(old) /\ Apart(old)
      /\ \A f \in old : f.offset < InputTotal(tx)
  BY OldFlotsamApart
<1>3. ASSUME NEW f \in old
      PROVE  /\ IsFlotsam(f) /\ f.txid = next_txid /\ f.id \notin FlyingIds
             /\ f.origin = "Old"
             /\ f.id \in DOMAIN id_to_satpoint /\ id_to_satpoint[f.id] = f.old
             /\ f.old.outpoint \in ToSet(tx.inputs)
  <2>1. PICK i \in DOMAIN tx.inputs, sp \in DOMAIN satpoint_to_id :
           /\ f = [txid |-> next_txid, id |-> satpoint_to_id[sp], origin |-> "Old",
                   offset |-> StartOf(InputValues(tx), i) + sp.offset, old |-> sp]
           /\ sp.outpoint = tx.inputs[i]
           /\ f.id \in DOMAIN id_to_satpoint /\ id_to_satpoint[f.id] = sp
           /\ f.id \notin FlyingIds
    BY OldFlotsamIs
  <2>2. sp.outpoint \in ToSet(tx.inputs)
    BY <2>1 DEF ToSet
  <2>3. f.old = sp /\ f.txid = next_txid /\ f.origin = "Old" /\ IsFlotsam(f)
    BY <2>1 DEF IsFlotsam
  <2> QED BY <2>1, <2>2, <2>3
<1>4. /\ IsFlotsam(f0) /\ f0.txid = next_txid /\ f0.origin = "New" /\ f0.offset = 0
      /\ f0.id = Continued(tx)[1]
  BY <1>1 DEF IsFlotsam
<1>5. (complete => new = {f0}) /\ (~complete => new = {})
  BY DEF NewFlotsam
<1>6. complete => \A f \in old : f.offset # 0
  BY DEF Parsed
<1>7. f0.id \notin DOMAIN id_to_txids
  BY <1>1, <1>4, ContinuedIsFresh
<1>8. /\ DOMAIN id_to_txids = DOMAIN id_to_satpoint
                                \cup {f.id : f \in {g \in flotsam : g.origin = "New"}}
  BY DEF PlacesInv, TablesAgree, NumbersAreGapless
<1>9. f0.id \notin FlyingIds /\ f0.id \notin DOMAIN id_to_satpoint
  <2>1. FlyingIds \subseteq DOMAIN id_to_txids
    BY <1>8 DEF FlyingIds, PlacesInv, FlotsamOK
  <2> QED BY <1>7, <1>8, <2>1
<1> HIDE DEF f0, old, new, complete
<1>10. IsFiniteSet(old \cup new) /\ Apart(old \cup new)
  <2>1. CASE complete
    <3>1. IsFiniteSet(old \cup {f0})
      BY <1>2, FS_AddElement
    <3>2. \A f \in old : f0.offset # f.offset /\ f0.id # f.id
      BY <1>3, <1>4, <1>6, <1>9, <2>1
    <3>3. f0.offset \in Nat /\ f0.txid \in Nat
      BY <1>1, <1>4
    <3>4. Apart(old \cup {f0})
      BY <1>2, <3>2, <3>3 DEF Apart
    <3> QED BY <1>5, <2>1, <3>1, <3>4
  <2>2. CASE ~complete
    BY <1>2, <1>5, <2>2
  <2> QED BY <2>1, <2>2
<1>11. ASSUME NEW f \in old \cup new
       PROVE  /\ IsFlotsam(f) /\ f.txid = next_txid /\ f.id \notin FlyingIds
              /\ f.offset < InputTotal(tx) /\ f.origin \in {"Old", "New"}
              /\ f.origin = "Old" =>
                   /\ f.id \in DOMAIN id_to_satpoint /\ id_to_satpoint[f.id] = f.old
                   /\ f.old.outpoint \in ToSet(tx.inputs)
              /\ f.origin = "New" =>
                   complete /\ f.id = Continued(tx)[1] /\ f.id \notin DOMAIN id_to_txids
  <2>1. CASE f \in old
    BY <1>2, <1>3, <2>1
  <2>2. CASE f \notin old
    <3>1. f = f0 /\ complete
      BY <1>5, <2>2
    <3> QED BY <1>4, <1>7, <1>9, <3>1
  <2> QED BY <2>1, <2>2
<1>12. complete => \E f \in old \cup new : f.origin = "New" /\ f.id = Continued(tx)[1]
  BY <1>4, <1>5
<1>13. ASSUME NEW id \in DOMAIN id_to_satpoint,
              id_to_satpoint[id].outpoint \in ToSet(tx.inputs)
       PROVE  \E f \in old \cup new : f.id = id /\ f.origin = "Old"
  <2> DEFINE sp == id_to_satpoint[id]
  <2>1. PICK i \in DOMAIN tx.inputs : tx.inputs[i] = sp.outpoint
    BY <1>13 DEF ToSet
  <2>2. sp \in DOMAIN satpoint_to_id /\ satpoint_to_id[sp] = id
    <3>1. sp.outpoint \in DOMAIN unspent
      BY <2>1, InputsOfSpend DEF PlacesInv
    <3>2. sp.outpoint.txid \in 1 .. next_txid - 1
      BY <3>1 DEF PlacesInv, ChainOK
    <3>3. ~Uncounted(sp)
      BY <3>2 DEF Uncounted, IsNull, NullOutPoint
    <3> QED BY <3>3 DEF PlacesInv, TablesAgree, PlacesAreInverse
  <2>3. sp \in OnOutput(tx.inputs[i])
    BY <2>1, <2>2 DEF OnOutput
  <2> DEFINE f == [txid |-> tx.txid, id |-> satpoint_to_id[sp], origin |-> "Old",
                   offset |-> StartOf(InputValues(tx), i) + sp.offset, old |-> sp]
  <2>4. f \in old
    BY <2>3 DEF OldFlotsam, old
  <2>5. f.id = id /\ f.origin = "Old"
    BY <2>2
  <2> HIDE DEF f
  <2> QED BY <2>4, <2>5
<1>14. AllFlotsam(tx) = old \cup new
  BY DEF AllFlotsam, old, new
<1> HIDE DEF AllFlotsam
<1>15. Parsed(tx, OldFlotsam(tx)) = "Complete" <=> complete
  BY DEF complete, old
<1> QED BY <1>10, <1>11, <1>12, <1>13, <1>14, <1>15

-----------------------------------------------------------------------------
(* Landing                                                                 *)

(* The tables as they are have moved nothing.                              *)
LEMMA NothingMoved ==
  ASSUME PlacesInv, NEW To
  PROVE  Moved(Tables, {}, To)
<1>1. Ids({}) = {}
  BY DEF Ids
<1>2. TwoWay(satpoint_to_id, id_to_satpoint)
  BY DEF PlacesInv, TablesAgree, PlacesAreInverse, TwoWay
<1>3. Gapless(Tables)
  BY DEF PlacesInv, TablesAgree, NumbersAreGapless, TablesOK, Gapless, Tables
<1> QED BY <1>1, <1>2, <1>3 DEF Moved, Tables

(* What Locate does to the tables.                                         *)
LEMMA LocateMoves ==
  ASSUME PlacesInv, NEW all, NEW To, Landable(all, To), NEW ranges,
         Locate(all, To, ranges), options' = options
  PROVE  /\ PlacesAreInverse'
         /\ next_number' \in Nat
         /\ DOMAIN number_to_id' = 0 .. next_number' - 1
         /\ \A n \in DOMAIN number_to_id' :
              /\ number_to_id'[n] \in DOMAIN id_to_entry'
              /\ id_to_entry'[number_to_id'[n]].number = n
         /\ DOMAIN id_to_entry' = DOMAIN id_to_satpoint'
         /\ IsFiniteSet(DOMAIN id_to_entry')
         /\ Cardinality(DOMAIN id_to_entry') = next_number'
         /\ DOMAIN id_to_satpoint' = (DOMAIN id_to_satpoint) \cup Ids(all)
         /\ \A f \in all : id_to_satpoint'[f.id] = To[f]
         /\ \A id \in (DOMAIN id_to_satpoint) \ Ids(all) :
              id_to_satpoint'[id] = id_to_satpoint[id]
         /\ \A id \in DOMAIN id_to_satpoint : id_to_entry'[id] = id_to_entry[id]
<1> DEFINE t == TablesAfter(SortByOffset(all), To, ranges)
<1>1. Moved(t, all, To)
  BY NothingMoved, TablesAfterMoves
<1>2. /\ satpoint_to_id' = t.satpoint_to_id /\ id_to_satpoint' = t.id_to_satpoint
      /\ number_to_id' = t.number_to_id /\ id_to_entry' = t.id_to_entry
      /\ next_number' = t.next_number
  BY DEF Locate
<1> HIDE DEF t
<1>3. TwoWay(satpoint_to_id', id_to_satpoint')
  BY <1>1, <1>2 DEF Moved
<1>4. PlacesAreInverse'
  BY <1>3 DEF TwoWay, PlacesAreInverse, Uncounted
<1>5. Gapless(t)
  BY <1>1 DEF Moved
<1>6. DOMAIN id_to_entry = DOMAIN id_to_satpoint
  BY DEF PlacesInv, TablesAgree, NumbersAreGapless
<1>7. /\ DOMAIN id_to_satpoint' = (DOMAIN id_to_satpoint) \cup Ids(all)
      /\ \A f \in all : id_to_satpoint'[f.id] = To[f]
      /\ \A id \in (DOMAIN id_to_satpoint) \ Ids(all) :
           id_to_satpoint'[id] = id_to_satpoint[id]
      /\ \A id \in DOMAIN id_to_satpoint : id_to_entry'[id] = id_to_entry[id]
  BY <1>1, <1>2, <1>6 DEF Moved
<1> QED BY <1>2, <1>4, <1>5, <1>7 DEF Gapless

(* The outputs that the tables know are of transactions so far.            *)
LEMMA SatPointsAreKnown ==
  ASSUME PlacesInv, NEW sp \in DOMAIN satpoint_to_id
  PROVE  /\ sp.outpoint.txid \in 0 .. next_txid - 1
         /\ IsNull(sp.outpoint) => Uncounted(sp) \/ sp.offset < lost_sats
<1> DEFINE id == satpoint_to_id[sp]
<1>1. id \in DOMAIN id_to_satpoint /\ id_to_satpoint[id] = sp
  BY DEF PlacesInv, TablesAgree, PlacesAreInverse
<1>2. next_txid \in Nat \ {0}
      /\ \A o \in DOMAIN unspent : o.txid \in 1 .. next_txid - 1
  BY DEF PlacesInv, ChainOK
<1> HIDE DEF id
<1>3. CASE id \in FlyingIds
  <2>1. PICK f \in flotsam : f.id = id
    BY <1>3 DEF FlyingIds
  <2>2. f.origin = "Old"
    <3>1. f.origin = "New" => id \notin DOMAIN id_to_satpoint
      BY <2>1 DEF PlacesInv, TablesAgree, NumbersAreGapless
    <3> QED BY <1>1, <3>1 DEF PlacesInv, FlotsamOK
  <2>3. sp.outpoint.txid \in 1 .. next_txid - 1
    BY <1>1, <2>1, <2>2 DEF PlacesInv, FlotsamOK
  <2>4. ~IsNull(sp.outpoint)
    BY <2>3 DEF IsNull, NullOutPoint
  <2> QED BY <1>2, <2>3, <2>4
<1>4. CASE id \notin FlyingIds
  <2>1. IF IsNull(sp.outpoint) THEN Uncounted(sp) \/ sp.offset < lost_sats
        ELSE sp.outpoint \in DOMAIN unspent
    BY <1>1, <1>4 DEF PlacesInv, InscriptionsAreOnUnspent
  <2>2. IsNull(sp.outpoint) => sp.outpoint.txid = 0
    BY DEF IsNull, NullOutPoint
  <2>3. CASE IsNull(sp.outpoint)
    BY <1>2, <2>1, <2>2, <2>3
  <2>4. CASE ~IsNull(sp.outpoint)
    <3>1. sp.outpoint.txid \in 1 .. next_txid - 1
      BY <1>2, <2>1, <2>4
    <3> QED BY <1>2, <2>4, <3>1
  <2> QED BY <2>3, <2>4
<1> QED BY <1>3, <1>4

(* The outputs of the transaction that comes next, and the inputs it takes.*)
LEMMA ExtendIs ==
  ASSUME ChainOK, NEW tx, tx.txid = next_txid, tx.outputs \in Seq(Nat), Extend(tx)
  PROVE  /\ next_txid' = next_txid + 1
         /\ \A o \in DOMAIN unspent' :
              unspent'[o] \in Nat /\ o.txid \in 1 .. next_txid' - 1
         /\ \A o \in DOMAIN unspent : o \notin ToSet(tx.inputs) =>
              o \in DOMAIN unspent' /\ unspent'[o] = unspent[o]
         /\ \A o : o.txid \in 0 .. next_txid - 1 /\ o \in DOMAIN unspent' =>
              o \in DOMAIN unspent /\ o \notin ToSet(tx.inputs)
         /\ \A j \in DOMAIN tx.outputs :
              LET o == [txid |-> tx.txid, vout |-> j - 1]
              IN  o \in DOMAIN unspent' /\ unspent'[o] = tx.outputs[j]
<1> DEFINE outs == ToSet(OutPointsOf(tx))
           ins == ToSet(tx.inputs)
<1>1. next_txid' = next_txid + 1 /\ next_txid \in Nat \ {0}
  BY DEF Extend, ChainOK
<1>2. /\ DOMAIN unspent' = ((DOMAIN unspent) \ ins) \cup outs
      /\ \A o \in outs : unspent'[o] = tx.outputs[o.vout + 1]
      /\ \A o \in (DOMAIN unspent) \ ins : o \notin outs => unspent'[o] = unspent[o]
  BY DEF Extend, With, Without
<1>3. DOMAIN OutPointsOf(tx) = DOMAIN tx.outputs
      /\ \A j \in DOMAIN tx.outputs : OutPointsOf(tx)[j] = [txid |-> tx.txid, vout |-> j - 1]
  BY DEF OutPointsOf
<1>4. ASSUME NEW j \in DOMAIN tx.outputs
      PROVE  LET o == [txid |-> tx.txid, vout |-> j - 1]
             IN  /\ o \in outs /\ o \in DOMAIN unspent'
                 /\ unspent'[o] = tx.outputs[j] /\ tx.outputs[j] \in Nat
  <2> DEFINE o == [txid |-> tx.txid, vout |-> j - 1]
  <2>1. o \in outs
    BY <1>3 DEF ToSet
  <2>2. o.vout + 1 = j
    <3>1. j \in Int
      OBVIOUS
    <3> QED BY <3>1
  <2>3. tx.outputs[j] \in Nat
    OBVIOUS
  <2> QED BY <1>2, <2>1, <2>2, <2>3
<1>5. \A o \in outs : \E j \in DOMAIN tx.outputs : o = [txid |-> tx.txid, vout |-> j - 1]
  BY <1>3 DEF ToSet
<1>6. \A o \in outs : o.txid = next_txid
  BY OutputsOfTx
<1>7. \A o \in DOMAIN unspent : unspent[o] \in Nat /\ o.txid \in 1 .. next_txid - 1
  BY DEF ChainOK
<1> HIDE DEF outs, ins
<1>8. ASSUME NEW o \in DOMAIN unspent'
      PROVE  unspent'[o] \in Nat /\ o.txid \in 1 .. next_txid' - 1
  <2>1. CASE o \in outs
    <3>1. PICK j \in DOMAIN tx.outputs : o = [txid |-> tx.txid, vout |-> j - 1]
      BY <1>5, <2>1
    <3> QED BY <1>1, <1>4, <1>6, <2>1, <3>1
  <2>2. CASE o \notin outs
    <3>1. o \in (DOMAIN unspent) \ ins /\ unspent'[o] = unspent[o]
      BY <1>2, <2>2
    <3> QED BY <1>1, <1>7, <3>1
  <2> QED BY <2>1, <2>2
<1>9. \A o \in DOMAIN unspent : o \notin outs
  BY <1>1, <1>6, <1>7
<1>10. \A o : o.txid \in 0 .. next_txid - 1 => o \notin outs
  BY <1>1, <1>6
<1> QED BY <1>1, <1>2, <1>4, <1>8, <1>9, <1>10 DEF ins

(* The outputs of a transaction have a total.                              *)
LEMMA OutputsTotal ==
  ASSUME NEW outs \in Seq(Nat)
  PROVE  Total(outs) \in Nat
<1>1. Len(outs) \in Nat /\ \A i \in 1 .. Len(outs) : outs[i] \in Nat
  OBVIOUS
<1> QED BY <1>1, WithinTotal

(* Where the flotsam of a transaction may land.                            *)
LEMMA SpendLands ==
  ASSUME ChainsInv, ValuesInv, PlacesInv, NEW tx \in Spends, InputTotal(tx) > 0,
         NEW all, all = AllFlotsam(tx), NEW landing, landing = Landing(tx, all),
         NEW To, To = [f \in landing |-> OutputAt(tx, f.offset)]
  PROVE  /\ Landable(landing, To)
         /\ \A f \in landing :
              /\ IsSatPoint(To[f])
              /\ \E j \in DOMAIN tx.outputs :
                   /\ To[f].outpoint = [txid |-> tx.txid, vout |-> j - 1]
                   /\ To[f].offset < tx.outputs[j]
<1>1. /\ IsFiniteSet(all) /\ Apart(all)
      /\ \A f \in all :
           /\ f.id \notin FlyingIds /\ f.origin \in {"Old", "New"}
           /\ f.origin = "Old" =>
                /\ f.id \in DOMAIN id_to_satpoint /\ id_to_satpoint[f.id] = f.old
                /\ f.old.outpoint \in ToSet(tx.inputs)
           /\ f.origin = "New" => f.id \notin DOMAIN id_to_txids
  BY FlotsamOfSpend
<1>2. tx.txid = next_txid /\ tx.outputs \in Seq(Nat) /\ next_txid \in Nat
  BY InputsOfSpend DEF PlacesInv, ChainOK
<1>3. landing \in SUBSET all /\ \A f \in landing : f.offset < Total(tx.outputs)
  BY DEF Landing
<1>4. \A f \in landing : f.offset \in Nat
  BY <1>1, <1>3 DEF Apart
<1>5. \A f \in landing : To[f] = OutputAt(tx, f.offset)
  OBVIOUS
<1>6. ASSUME NEW f \in landing
      PROVE  /\ IsSatPoint(To[f])
             /\ \E j \in DOMAIN tx.outputs :
                  /\ To[f].outpoint = [txid |-> tx.txid, vout |-> j - 1]
                  /\ To[f].offset < tx.outputs[j]
  <2>1. PICK j \in DOMAIN tx.outputs :
           /\ OutputAt(tx, f.offset).outpoint = [txid |-> tx.txid, vout |-> j - 1]
           /\ OutputAt(tx, f.offset).offset \in Nat
           /\ OutputAt(tx, f.offset).offset < tx.outputs[j]
    BY <1>2, <1>3, <1>4, OutputAtIs
  <2>2. \E o, a : OutputAt(tx, f.offset) = [outpoint |-> o, offset |-> a]
    BY DEF OutputAt
  <2>3. IsSatPoint(OutputAt(tx, f.offset))
    BY <2>1, <2>2 DEF IsSatPoint
  <2> QED BY <1>5, <2>1, <2>3
<1>7. ASSUME NEW f \in landing PROVE To[f] \notin DOMAIN satpoint_to_id
  <2>1. To[f].outpoint.txid = next_txid
    <3>1. PICK j \in DOMAIN tx.outputs :
            To[f].outpoint = [txid |-> tx.txid, vout |-> j - 1]
      BY <1>6
    <3> QED BY <1>2, <3>1
  <2> QED BY <1>2, <2>1, SatPointsAreKnown
<1>8. ASSUME NEW f \in landing, NEW g \in landing, f # g PROVE To[f] # To[g]
  <2>1. f.offset # g.offset
    BY <1>1, <1>3, <1>8 DEF Apart
  <2> QED BY <1>2, <1>3, <1>4, <1>5, <2>1, OutputAtInjective
<1>9. IsFiniteSet(landing) /\ Apart(landing)
  <2>1. IsFiniteSet(landing)
    BY <1>1, <1>3, FS_Subset
  <2> QED BY <1>1, <1>3, <2>1 DEF Apart
<1>10. \A id \in DOMAIN id_to_satpoint : id \in DOMAIN id_to_txids
  BY DEF PlacesInv, TablesAgree, NumbersAreGapless
<1>11. ASSUME NEW f \in all, f.origin = "Old" PROVE ~Uncounted(f.old)
  <2>1. f.old.outpoint \in DOMAIN unspent
    BY <1>1, <1>11, InputsOfSpend DEF ToSet, PlacesInv
  <2>2. f.old.outpoint.txid \in 1 .. next_txid - 1
    BY <2>1 DEF PlacesInv, ChainOK
  <2> QED BY <2>2 DEF Uncounted, IsNull, NullOutPoint
<1>12. Landable(landing, To)
  BY <1>1, <1>3, <1>7, <1>8, <1>9, <1>10, <1>11 DEF Landable
<1> QED BY <1>6, <1>12

-----------------------------------------------------------------------------
(* A transaction keeps inscriptions where they can be                      *)

(* What a step does to an inscription: the action of MovesOnlyWithItsCoin. *)
StaysUnlessSpent ==
  \A id \in DOMAIN id_to_satpoint :
    /\ id_to_entry'[id] = id_to_entry[id]
    /\ id_to_satpoint'[id] # id_to_satpoint[id] =>
         id_to_satpoint[id].outpoint \notin DOMAIN unspent'

(* Flotsam that floats on keeps all but its offset.                        *)
LEMMA RefloatedIs ==
  ASSUME NEW tx, NEW f, IsFlotsam(f)
  PROVE  LET g == Refloated(tx, f)
         IN  /\ g.id = f.id /\ g.origin = f.origin /\ g.old = f.old /\ g.txid = f.txid
             /\ g.offset = reward + f.offset - Total(tx.outputs)
BY DEF Refloated, IsFlotsam

(* The flotsam after a transaction is different and apart.                 *)
LEMMA FlotsamGrows ==
  ASSUME PlacesInv, in_block, index_inscriptions,
         NEW tx, tx.outputs \in Seq(Nat), NEW floating, IsFiniteSet(floating), Apart(floating),
         \A f \in floating : /\ IsFlotsam(f) /\ f.id \notin FlyingIds
                             /\ f.offset >= Total(tx.outputs),
         NEW flying, flying = flotsam \cup {Refloated(tx, f) : f \in floating}
  PROVE  IsFiniteSet(flying) /\ Apart(flying)
<1> DEFINE again == {Refloated(tx, f) : f \in floating}
           F == [f \in floating |-> Refloated(tx, f)]
<1>1. /\ reward = claimable /\ claimable \in Nat
      /\ IsFiniteSet(flotsam) /\ Apart(flotsam) /\ Total(tx.outputs) \in Nat
      /\ \A f \in flotsam : f.offset < claimable
  BY OutputsTotal DEF PlacesInv, ChainOK, FlotsamOK, InscriptionsAreOnUnspent
<1>2. IsFiniteSet(again)
  <2>1. F \in [floating -> again] /\ \A g \in again : \E f \in floating : F[f] = g
    OBVIOUS
  <2> HIDE DEF F, again
  <2>2. F \in Surjection(floating, again)
    BY <2>1 DEF Surjection
  <2> QED BY <2>2, FS_Surjection
<1>3. IsFiniteSet(flying)
  <2> HIDE DEF again
  <2>1. IsFiniteSet(flotsam \cup again)
    BY <1>1, <1>2, FS_Union
  <2> QED BY <2>1 DEF again
<1>4. ASSUME NEW g \in again
      PROVE  \E f \in floating :
               /\ g.id = f.id /\ g.txid = f.txid /\ g = Refloated(tx, f)
               /\ g.offset = reward + f.offset - Total(tx.outputs)
               /\ g.offset \in Nat /\ g.txid \in Nat /\ g.offset >= reward
  <2>1. PICK f \in floating : g = Refloated(tx, f)
    OBVIOUS
  <2>2. /\ g.id = f.id /\ g.txid = f.txid
        /\ g.offset = reward + f.offset - Total(tx.outputs)
    BY <2>1, RefloatedIs
  <2>3. f.offset \in Nat /\ f.txid \in Nat /\ f.offset >= Total(tx.outputs)
    BY DEF Apart
  <2>4. g.offset \in Nat /\ g.offset >= reward
    BY <1>1, <2>2, <2>3
  <2> QED BY <2>1, <2>2, <2>3, <2>4
<1>5. flying = flotsam \cup again
  OBVIOUS
<1> HIDE DEF again
<1>6. ASSUME NEW f \in flying PROVE f.offset \in Nat /\ f.txid \in Nat
  <2>1. CASE f \in flotsam
    BY <1>1, <2>1 DEF Apart
  <2>2. CASE f \in again
    BY <1>4, <2>2
  <2> QED BY <1>5, <2>1, <2>2
<1>7. ASSUME NEW f \in flotsam, NEW g \in again PROVE f.offset # g.offset /\ f.id # g.id
  <2>1. PICK h \in floating : g.id = h.id /\ g.offset \in Nat /\ g.offset >= reward
    BY <1>4
  <2>2. f.offset < reward /\ f.offset \in Nat /\ f.id \in FlyingIds
    BY <1>1 DEF Apart, FlyingIds
  <2> QED BY <1>1, <2>1, <2>2
<1>8. ASSUME NEW f \in again, NEW g \in again, f # g PROVE f.offset # g.offset /\ f.id # g.id
  <2>1. PICK h \in floating : /\ f.id = h.id /\ f = Refloated(tx, h)
                              /\ f.offset = reward + h.offset - Total(tx.outputs)
    BY <1>4
  <2>2. PICK k \in floating : /\ g.id = k.id /\ g = Refloated(tx, k)
                              /\ g.offset = reward + k.offset - Total(tx.outputs)
    BY <1>4
  <2>3. h # k
    BY <1>8, <2>1, <2>2
  <2>4. h.offset \in Nat /\ k.offset \in Nat /\ h.offset # k.offset /\ h.id # k.id
    BY <2>3 DEF Apart
  <2> QED BY <1>1, <2>1, <2>2, <2>4
<1>9. ASSUME NEW f \in flying, NEW g \in flying, f # g
      PROVE  f.offset # g.offset /\ f.id # g.id
  <2>1. CASE f \in flotsam /\ g \in flotsam
    BY <1>1, <1>9, <2>1 DEF Apart
  <2>2. CASE f \in flotsam /\ g \in again
    BY <1>7, <2>2
  <2>3. CASE f \in again /\ g \in flotsam
    <3>1. g.offset # f.offset /\ g.id # f.id
      BY <1>7, <2>3
    <3> QED BY <3>1
  <2>4. CASE f \in again /\ g \in again
    BY <1>8, <1>9, <2>4
  <2> QED BY <1>5, <2>1, <2>2, <2>3, <2>4
<1>10. Apart(flying)
  BY <1>6, <1>9 DEF Apart
<1> QED BY <1>3, <1>10

(* A transaction of a block that is indexed.                               *)
LEMMA SpendKeepsPlaces ==
  ASSUME ChainsInv, ValuesInv, PlacesInv, in_block, index_inscriptions,
         NEW tx \in Spends, NEW ranges, InputTotal(tx) > 0,
         Total(tx.outputs) <= InputTotal(tx), Extend(tx),
         claimable' = claimable + InputTotal(tx) - Total(tx.outputs),
         IndexInscriptions(tx, ranges),
         height' = height, in_block' = in_block, lost_sats' = lost_sats,
         options' = options
  PROVE  PlacesInv' /\ StaysUnlessSpent
<1> DEFINE all == AllFlotsam(tx)
           landing == Landing(tx, all)
           floating == Floating(tx, all)
           To == [f \in landing |-> OutputAt(tx, f.offset)]
           parsed == Parsed(tx, OldFlotsam(tx))
           again == {Refloated(tx, f) : f \in floating}
<1>1. /\ MoveChains(tx, parsed) /\ Locate(landing, To, ranges)
      /\ flotsam' = flotsam \cup again
      /\ reward' = reward + Total(InputValues(tx)) - Total(tx.outputs)
  BY DEF IndexInscriptions, AllFlotsam
<1>2. /\ tx.txid = next_txid /\ tx.outputs \in Seq(Nat)
      /\ Total(InputValues(tx)) = InputTotal(tx)
      /\ \A i \in DOMAIN tx.inputs : tx.inputs[i] \in DOMAIN unspent
      /\ \A i \in DOMAIN tx.inputs : unspent[tx.inputs[i]] \in Nat
  BY InputsOfSpend DEF PlacesInv
<1>3. Total(tx.outputs) \in Nat /\ claimable \in Nat /\ reward = claimable
      /\ next_txid \in Nat \ {0}
  BY <1>2, OutputsTotal DEF PlacesInv, ChainOK
<1>4. InputTotal(tx) \in Nat
  <2>1. PICK n \in Nat \ {0} : DOMAIN tx.inputs = 1 .. n /\ Len(InputValues(tx)) = n
    BY InputsOfSpend DEF PlacesInv
  <2>2. \A i \in 1 .. n : InputValues(tx)[i] \in Nat
    BY <2>1, InputsOfSpend DEF PlacesInv
  <2> QED BY <1>2, <2>1, <2>2, WithinTotal
<1>5. /\ IsFiniteSet(all) /\ Apart(all)
      /\ \A f \in all :
           /\ IsFlotsam(f) /\ f.txid = next_txid /\ f.id \notin FlyingIds
           /\ f.offset < InputTotal(tx) /\ f.origin \in {"Old", "New"}
           /\ f.origin = "Old" =>
                /\ f.id \in DOMAIN id_to_satpoint /\ id_to_satpoint[f.id] = f.old
                /\ f.old.outpoint \in ToSet(tx.inputs)
           /\ f.origin = "New" =>
                parsed = "Complete" /\ f.id = Continued(tx)[1] /\ f.id \notin DOMAIN id_to_txids
      /\ parsed = "Complete" => \E f \in all : f.origin = "New" /\ f.id = Continued(tx)[1]
      /\ \A id \in DOMAIN id_to_satpoint :
           id_to_satpoint[id].outpoint \in ToSet(tx.inputs) =>
             \E f \in all : f.id = id /\ f.origin = "Old"
  BY FlotsamOfSpend
<1>6. /\ Landable(landing, To)
      /\ \A f \in landing :
           /\ IsSatPoint(To[f])
           /\ \E j \in DOMAIN tx.outputs :
                /\ To[f].outpoint = [txid |-> tx.txid, vout |-> j - 1]
                /\ To[f].offset < tx.outputs[j]
  <2> HIDE DEF all, landing, To
  <2>1. all = AllFlotsam(tx) /\ landing = Landing(tx, all)
        /\ To = [f \in landing |-> OutputAt(tx, f.offset)]
    BY DEF all, landing, To
  <2> QED BY <2>1, SpendLands
<1>7. /\ next_txid' = next_txid + 1
      /\ \A o \in DOMAIN unspent' :
           unspent'[o] \in Nat /\ o.txid \in 1 .. next_txid' - 1
      /\ \A o \in DOMAIN unspent : o \notin ToSet(tx.inputs) =>
           o \in DOMAIN unspent' /\ unspent'[o] = unspent[o]
      /\ \A o : o.txid \in 0 .. next_txid - 1 /\ o \in DOMAIN unspent' =>
           o \in DOMAIN unspent /\ o \notin ToSet(tx.inputs)
      /\ \A j \in DOMAIN tx.outputs :
           LET o == [txid |-> tx.txid, vout |-> j - 1]
           IN  o \in DOMAIN unspent' /\ unspent'[o] = tx.outputs[j]
  BY <1>2, ExtendIs DEF PlacesInv
<1>8. /\ landing \in SUBSET all /\ floating \in SUBSET all
      /\ \A f \in all : f \in landing <=> f.offset < Total(tx.outputs)
      /\ \A f \in all : f \in floating <=> f.offset >= Total(tx.outputs)
  BY DEF Landing, Floating
<1>9. all = landing \cup floating /\ landing \cap floating = {}
  <2>1. \A f \in all : f.offset \in Nat
    BY <1>5 DEF Apart
  <2> HIDE DEF all, landing, floating
  <2>2. \A f \in all : f.offset < Total(tx.outputs) <=> ~(f.offset >= Total(tx.outputs))
    BY <1>3, <2>1
  <2> QED BY <1>8, <2>2
<1>10. \A g \in again : \E f \in floating :
         /\ g.id = f.id /\ g.origin = f.origin /\ g.old = f.old /\ g.txid = f.txid
         /\ g.offset = reward + f.offset - Total(tx.outputs)
  <2> SUFFICES ASSUME NEW f \in floating
               PROVE  LET g == Refloated(tx, f)
                      IN  /\ g.id = f.id /\ g.origin = f.origin /\ g.old = f.old
                          /\ g.txid = f.txid
                          /\ g.offset = reward + f.offset - Total(tx.outputs)
    OBVIOUS
  <2>1. IsFlotsam(f)
    BY <1>5, <1>8
  <2> QED BY <2>1, RefloatedIs
<1>11. \A f \in floating : \E g \in again : g.id = f.id /\ g.origin = f.origin
  <2> SUFFICES ASSUME NEW f \in floating
               PROVE  Refloated(tx, f).id = f.id /\ Refloated(tx, f).origin = f.origin
    OBVIOUS
  <2>1. IsFlotsam(f)
    BY <1>5, <1>8
  <2> QED BY <2>1, RefloatedIs
<1>12. IsFiniteSet(flotsam') /\ Apart(flotsam')
  <2>1. IsFiniteSet(floating) /\ Apart(floating)
    <3>1. IsFiniteSet(floating)
      <4> HIDE DEF all, floating
      <4> QED BY <1>5, <1>8, FS_Subset
    <3>2. Apart(floating)
      <4> HIDE DEF all, floating
      <4> QED BY <1>5, <1>8 DEF Apart
    <3> QED BY <3>1, <3>2
  <2>2. \A f \in floating : /\ IsFlotsam(f) /\ f.id \notin FlyingIds
                            /\ f.offset >= Total(tx.outputs)
    <3> HIDE DEF all, floating
    <3> QED BY <1>5, <1>8
  <2> HIDE DEF all, floating
  <2>3. \A flying : flying = flotsam \cup {Refloated(tx, f) : f \in floating} =>
                       IsFiniteSet(flying) /\ Apart(flying)
    BY <1>2, <2>1, <2>2, FlotsamGrows
  <2> QED BY <1>1, <2>3
<1>13. /\ PlacesAreInverse'
       /\ next_number' \in Nat
       /\ DOMAIN number_to_id' = 0 .. next_number' - 1
       /\ \A n \in DOMAIN number_to_id' :
            /\ number_to_id'[n] \in DOMAIN id_to_entry'
            /\ id_to_entry'[number_to_id'[n]].number = n
       /\ DOMAIN id_to_entry' = DOMAIN id_to_satpoint'
       /\ IsFiniteSet(DOMAIN id_to_entry')
       /\ Cardinality(DOMAIN id_to_entry') = next_number'
       /\ DOMAIN id_to_satpoint' = (DOMAIN id_to_satpoint) \cup Ids(landing)
       /\ \A f \in landing : id_to_satpoint'[f.id] = To[f]
       /\ \A id \in (DOMAIN id_to_satpoint) \ Ids(landing) :
            id_to_satpoint'[id] = id_to_satpoint[id]
       /\ \A id \in DOMAIN id_to_satpoint : id_to_entry'[id] = id_to_entry[id]
  <2> HIDE DEF landing, To
  <2> QED BY <1>1, <1>6, LocateMoves
<1> HIDE DEF all, landing, floating, To, again
<1>14. \A id \in Ids(landing) : \E f \in landing : f.id = id /\ f \in all
  BY <1>8 DEF Ids
<1>15. \A f \in floating : f.id \notin Ids(landing)
  BY <1>5, <1>8, <1>9 DEF Ids, Apart
<1>16. \A id \in FlyingIds : id \notin Ids(landing)
  BY <1>5, <1>14
<1>17. ChainOK'
  <2>1. reward' = claimable'
    BY <1>1, <1>2, <1>3
  <2>2. claimable' \in Nat
    BY <1>3, <1>4
  <2>3. height' \in Nat /\ height' <= MaxHeight /\ (in_block' => height' < MaxHeight)
        /\ (~options'.sats => lost_sats' \in Nat)
    BY DEF PlacesInv, ChainOK
  <2>4. next_txid' \in Nat \ {0}
    BY <1>3, <1>7
  <2> QED BY <1>7, <2>1, <2>2, <2>3, <2>4 DEF ChainOK
<1>18. ASSUME NEW f \in flotsam', f.origin = "Old"
       PROVE  /\ f.id \in DOMAIN id_to_satpoint /\ id_to_satpoint[f.id] = f.old
              /\ f.id \notin Ids(landing)
              /\ f.old.outpoint.txid \in 1 .. next_txid - 1
              /\ f.old.outpoint \notin DOMAIN unspent'
  <2>1. CASE f \in flotsam
    <3>1. /\ f.id \in DOMAIN id_to_satpoint /\ id_to_satpoint[f.id] = f.old
          /\ f.old.outpoint.txid \in 1 .. next_txid - 1
          /\ f.old.outpoint \notin DOMAIN unspent
      BY <1>18, <2>1 DEF PlacesInv, FlotsamOK
    <3>2. f.id \notin Ids(landing)
      BY <1>16, <2>1 DEF FlyingIds
    <3>3. f.old.outpoint.txid \in 0 .. next_txid - 1
      BY <1>3, <3>1
    <3> QED BY <1>7, <3>1, <3>2, <3>3
  <2>2. CASE f \in again
    <3>1. PICK g \in floating : f.id = g.id /\ f.origin = g.origin /\ f.old = g.old
      BY <1>10, <2>2
    <3>2. /\ g.id \in DOMAIN id_to_satpoint /\ id_to_satpoint[g.id] = g.old
          /\ g.old.outpoint \in ToSet(tx.inputs)
      BY <1>5, <1>8, <1>18, <3>1
    <3>3. g.old.outpoint \in DOMAIN unspent
      BY <1>2, <3>2 DEF ToSet
    <3>4. g.old.outpoint.txid \in 1 .. next_txid - 1
      BY <3>3 DEF PlacesInv, ChainOK
    <3>5. g.old.outpoint.txid \in 0 .. next_txid - 1
      BY <1>3, <3>4
    <3>6. g.old.outpoint \notin DOMAIN unspent'
      BY <1>7, <3>2, <3>5
    <3> QED BY <1>15, <3>1, <3>2, <3>4, <3>6
  <2> QED BY <1>1, <2>1, <2>2
<1>19. FlotsamOK'
  <2>1. \A f \in flotsam' : f.origin \in {"Old", "New"}
    BY <1>1, <1>5, <1>8, <1>10 DEF PlacesInv, FlotsamOK
  <2>2. ASSUME NEW f \in flotsam', f.origin = "Old"
        PROVE  /\ f.id \in DOMAIN id_to_satpoint' /\ id_to_satpoint'[f.id] = f.old
               /\ f.old.outpoint.txid \in 1 .. next_txid' - 1
               /\ f.old.outpoint \notin DOMAIN unspent'
    <3>1. /\ f.id \in DOMAIN id_to_satpoint /\ id_to_satpoint[f.id] = f.old
          /\ f.id \notin Ids(landing)
          /\ f.old.outpoint.txid \in 1 .. next_txid - 1
          /\ f.old.outpoint \notin DOMAIN unspent'
      BY <1>18, <2>2
    <3>2. f.old.outpoint.txid \in 1 .. next_txid' - 1
      BY <1>3, <1>7, <3>1
    <3> QED BY <1>13, <3>1, <3>2
  <2> QED BY <1>12, <2>1, <2>2 DEF FlotsamOK
<1>20. TablesOK'
  <2>1. ASSUME NEW id \in DOMAIN id_to_satpoint'
        PROVE  IsSatPoint(id_to_satpoint'[id]) \/ Uncounted(id_to_satpoint'[id])
    <3>1. CASE id \in Ids(landing)
      BY <1>6, <1>13, <1>14, <3>1
    <3>2. CASE id \notin Ids(landing)
      BY <1>13, <3>2 DEF PlacesInv, TablesOK
    <3> QED BY <3>1, <3>2
  <2>2. index_inscriptions'
    BY DEF index_inscriptions
  <2> QED BY <1>13, <2>1, <2>2 DEF TablesOK, IsSatPoint, Uncounted
<1>21. NumbersAreGapless'
  <2> DEFINE fresh == {f.id : f \in {g \in flotsam : g.origin = "New"}}
             fresher == {f.id : f \in {g \in floating : g.origin = "New"}}
             c == Continued(tx)[1]
  <2>1. /\ DOMAIN id_to_entry = DOMAIN id_to_satpoint
        /\ DOMAIN id_to_txids = DOMAIN id_to_entry \cup fresh
        /\ DOMAIN id_to_entry \cap fresh = {}
    BY DEF PlacesInv, TablesAgree, NumbersAreGapless
  <2>2. {f.id : f \in {g \in flotsam' : g.origin = "New"}} = fresh \cup fresher
    BY <1>1, <1>10, <1>11
  <2>3. DOMAIN id_to_txids' =
          IF parsed = "Complete" THEN (DOMAIN id_to_txids) \cup {c} ELSE DOMAIN id_to_txids
    <3>1. MoveChains(tx, parsed)
      BY <1>1
    <3> HIDE DEF parsed
    <3> QED BY <3>1 DEF MoveChains, WithRow, With
  <2>4. fresh \subseteq FlyingIds
    BY DEF FlyingIds
  <2>5. \A id \in fresher : /\ parsed = "Complete" /\ id = c /\ id \notin DOMAIN id_to_txids
                            /\ id \notin Ids(landing)
    BY <1>5, <1>8, <1>15
  <2>6. \A id \in Ids(landing) :
          \/ id \in DOMAIN id_to_satpoint
          \/ parsed = "Complete" /\ id = c
    BY <1>5, <1>14
  <2>7. parsed = "Complete" => c \in Ids(landing) \/ c \in fresher
    <3> SUFFICES ASSUME parsed = "Complete" PROVE c \in Ids(landing) \/ c \in fresher
      OBVIOUS
    <3>1. PICK f \in all : f.origin = "New" /\ f.id = c
      BY <1>5
    <3> QED BY <1>9, <3>1 DEF Ids
  <2> HIDE DEF fresh, fresher, c, parsed
  <2>8. DOMAIN id_to_entry' = DOMAIN id_to_entry \cup Ids(landing)
    BY <1>13, <2>1
  <2>9. DOMAIN id_to_txids' = DOMAIN id_to_entry' \cup (fresh \cup fresher)
    BY <2>1, <2>3, <2>5, <2>6, <2>7, <2>8
  <2>10. DOMAIN id_to_entry' \cap (fresh \cup fresher) = {}
    BY <1>16, <2>1, <2>4, <2>5, <2>8
  <2> QED BY <1>13, <2>2, <2>9, <2>10 DEF NumbersAreGapless
<1>22. ASSUME NEW id \in (DOMAIN id_to_satpoint') \ FlyingIds'
       PROVE  LET sp == id_to_satpoint'[id]
              IN  IF IsNull(sp.outpoint) THEN Uncounted(sp) \/ sp.offset < lost_sats'
                  ELSE sp.outpoint \in DOMAIN unspent' /\ sp.offset < unspent'[sp.outpoint]
  <2>1. FlyingIds \subseteq FlyingIds'
    BY <1>1 DEF FlyingIds
  <2>2. \A f \in floating : f.id \in FlyingIds'
    BY <1>1, <1>11 DEF FlyingIds
  <2>3. CASE id \in Ids(landing)
    <3>1. PICK f \in landing : f.id = id
      BY <1>14, <2>3
    <3>2. PICK j \in DOMAIN tx.outputs :
            /\ To[f].outpoint = [txid |-> tx.txid, vout |-> j - 1]
            /\ To[f].offset < tx.outputs[j]
      BY <1>6
    <3>3. ~IsNull(To[f].outpoint)
      BY <1>2, <1>3, <3>2 DEF IsNull, NullOutPoint
    <3> QED BY <1>7, <1>13, <3>1, <3>2, <3>3
  <2>4. CASE id \notin Ids(landing)
    <3>1. /\ id \in (DOMAIN id_to_satpoint) \ FlyingIds
          /\ id_to_satpoint'[id] = id_to_satpoint[id]
      BY <1>13, <2>1, <2>4
    <3> DEFINE sp == id_to_satpoint[id]
    <3>2. IF IsNull(sp.outpoint) THEN Uncounted(sp) \/ sp.offset < lost_sats
          ELSE sp.outpoint \in DOMAIN unspent /\ sp.offset < unspent[sp.outpoint]
      BY <3>1 DEF PlacesInv, InscriptionsAreOnUnspent
    <3>3. sp.outpoint \notin ToSet(tx.inputs)
      <4> SUFFICES ASSUME sp.outpoint \in ToSet(tx.inputs) PROVE FALSE
        OBVIOUS
      <4>1. PICK f \in all : f.id = id
        BY <1>5, <3>1
      <4> QED BY <1>9, <2>2, <2>4, <4>1 DEF Ids
    <3>4. sp.outpoint \in DOMAIN unspent =>
            sp.outpoint \in DOMAIN unspent' /\ unspent'[sp.outpoint] = unspent[sp.outpoint]
      BY <1>7, <3>3
    <3> HIDE DEF sp
    <3>5. id_to_satpoint'[id] = sp
      BY <3>1 DEF sp
    <3> QED BY <3>2, <3>4, <3>5
  <2> QED BY <2>3, <2>4
<1>23. ASSUME NEW f \in flotsam' PROVE f.offset < claimable'
  <2>1. CASE f \in flotsam
    <3>1. f.offset < claimable /\ f.offset \in Nat
      BY <2>1 DEF PlacesInv, InscriptionsAreOnUnspent, FlotsamOK, Apart
    <3> QED BY <1>3, <1>4, <3>1
  <2>2. CASE f \in again
    <3>1. PICK g \in floating : f.offset = reward + g.offset - Total(tx.outputs)
      BY <1>10, <2>2
    <3>2. g.offset \in Nat /\ g.offset < InputTotal(tx)
      BY <1>5, <1>8 DEF Apart
    <3> QED BY <1>3, <1>4, <3>1, <3>2
  <2> QED BY <1>1, <2>1, <2>2
<1>24. InscriptionsAreOnUnspent'
  BY <1>22, <1>23 DEF InscriptionsAreOnUnspent, IsNull, NullOutPoint, Uncounted
<1>25. StaysUnlessSpent
  <2> SUFFICES ASSUME NEW id \in DOMAIN id_to_satpoint,
                      id_to_satpoint'[id] # id_to_satpoint[id]
               PROVE  id_to_satpoint[id].outpoint \notin DOMAIN unspent'
    BY <1>13 DEF StaysUnlessSpent
  <2>1. id \in Ids(landing)
    BY <1>13
  <2>2. PICK f \in landing : f.id = id /\ f \in all
    BY <1>14, <2>1
  <2>3. f.origin = "Old"
    <3>1. id \in DOMAIN id_to_txids
      BY DEF PlacesInv, TablesAgree, NumbersAreGapless
    <3> QED BY <1>5, <2>2, <3>1
  <2>4. id_to_satpoint[id].outpoint \in ToSet(tx.inputs)
    BY <1>5, <2>2, <2>3
  <2>5. id_to_satpoint[id].outpoint \in DOMAIN unspent
    BY <1>2, <2>4 DEF ToSet
  <2>6. id_to_satpoint[id].outpoint.txid \in 0 .. next_txid - 1
    <3>1. id_to_satpoint[id].outpoint.txid \in 1 .. next_txid - 1
      BY <2>5 DEF PlacesInv, ChainOK
    <3> QED BY <1>3, <3>1
  <2> QED BY <1>7, <2>4, <2>6
<1>26. Tellable(landing)
  BY <1>3, <1>5, <1>8 DEF PlacesInv, ToldOK, Tellable
<1>27. /\ ToldOnce(operations')
       /\ Told(operations') = Told(operations) \cup Tellings(landing, To)
  BY <1>1, <1>6, <1>26, LocateTells DEF PlacesInv
<1>28. OperationsArePaths'
  BY <1>3, <1>6, <1>13, <1>26, <1>27, PathsGrow DEF PlacesInv
<1>29. \A f \in flotsam' : f.txid = next_txid \/ (f \in flotsam /\ f.txid \in 0 .. next_txid - 1)
  <2>1. \A f \in again : f.txid = next_txid
    BY <1>5, <1>8, <1>10
  <2> QED BY <1>1, <2>1 DEF PlacesInv, ToldOK
<1>30. ASSUME NEW m \in Told(operations')
       PROVE  /\ m.txid \in 0 .. next_txid' - 1 /\ m.op.id \in DOMAIN id_to_satpoint'
              /\ \A f \in flotsam' : f.id = m.op.id => m.txid < f.txid
  <2>1. CASE m \in Told(operations)
    <3>1. /\ m.txid \in 0 .. next_txid - 1 /\ m.op.id \in DOMAIN id_to_satpoint
          /\ \A f \in flotsam : f.id = m.op.id => m.txid < f.txid
      BY <2>1 DEF PlacesInv, ToldOK
    <3> QED BY <1>3, <1>7, <1>13, <1>29, <3>1
  <2>2. CASE m \in Tellings(landing, To)
    <3>1. PICK g \in landing : m = [txid |-> g.txid, op |-> OperationOf(g, To[g])]
      BY <2>2 DEF Tellings
    <3>2. m.txid = next_txid /\ m.op.id = g.id
      BY <1>5, <1>8, <3>1 DEF OperationOf
    <3>3. m.op.id \in Ids(landing)
      BY <3>2 DEF Ids
    <3>4. \A f \in flotsam : f.id \notin Ids(landing)
      BY <1>16 DEF FlyingIds
    <3>5. \A f \in again : f.id \notin Ids(landing)
      BY <1>10, <1>15
    <3>6. \A f \in flotsam' : f.id # m.op.id
      BY <1>1, <3>3, <3>4, <3>5
    <3>7. m.txid \in 0 .. next_txid' - 1
      BY <1>3, <1>7, <3>2
    <3> QED BY <1>13, <3>3, <3>6, <3>7
  <2> QED BY <1>27, <2>1, <2>2
<1>31. ToldOK'
  <2>1. \A f \in flotsam' : f.txid \in 0 .. next_txid' - 1
    BY <1>3, <1>7, <1>29
  <2> QED BY <1>27, <1>30, <2>1 DEF ToldOK
<1> QED BY <1>13, <1>17, <1>19, <1>20, <1>21, <1>24, <1>25,
           <1>28, <1>31 DEF PlacesInv, TablesAgree

(* Where a coinbase puts the inscriptions that float.                      *)
CoinbaseTo(tx) ==
  [f \in flotsam |->
     IF f.offset < Total(tx.outputs) THEN OutputAt(tx, f.offset)
     ELSE LostSatPoint(tx, f)]

(* An inscription goes to the output that takes its sat, or behind the     *)
(* sats lost before.                                                       *)
GoesTo(tx, f, to) ==
  /\ IsSatPoint(to) \/ Uncounted(to)
  /\ f.offset < Total(tx.outputs) =>
       /\ to = OutputAt(tx, f.offset) /\ IsSatPoint(to)
       /\ \E j \in DOMAIN tx.outputs :
            /\ to.outpoint = [txid |-> tx.txid, vout |-> j - 1]
            /\ to.offset < tx.outputs[j]
            /\ f.offset = StartOf(tx.outputs, j) + to.offset
  /\ ~(f.offset < Total(tx.outputs)) =>
       /\ to.outpoint = NullOutPoint
       /\ ~options.sats =>
            /\ to.offset = lost_sats + f.offset - Total(tx.outputs)
            /\ to.offset >= lost_sats
            /\ to.offset < lost_sats + reward - Total(tx.outputs)

LEMMA CoinbaseGoes ==
  ASSUME PlacesInv, in_block, index_inscriptions,
         NEW tx, tx.txid = next_txid, tx.outputs \in Seq(Nat),
         Total(tx.outputs) <= claimable, NEW f \in flotsam
  PROVE  GoesTo(tx, f, CoinbaseTo(tx)[f])
<1> DEFINE to == CoinbaseTo(tx)[f]
<1>1. /\ Total(tx.outputs) \in Nat /\ claimable \in Nat /\ reward = claimable
      /\ ~options.sats => lost_sats \in Nat
  BY OutputsTotal DEF PlacesInv, ChainOK
<1>2. f.offset \in Nat /\ f.offset < claimable
  BY DEF PlacesInv, FlotsamOK, InscriptionsAreOnUnspent, Apart
<1>3. CASE f.offset < Total(tx.outputs)
  <2>1. to = OutputAt(tx, f.offset)
    BY <1>3 DEF CoinbaseTo
  <2>2. PICK j \in DOMAIN tx.outputs :
           /\ OutputAt(tx, f.offset).outpoint = [txid |-> tx.txid, vout |-> j - 1]
           /\ OutputAt(tx, f.offset).offset \in Nat
           /\ OutputAt(tx, f.offset).offset < tx.outputs[j]
           /\ f.offset = StartOf(tx.outputs, j) + OutputAt(tx, f.offset).offset
    BY <1>2, <1>3, OutputAtIs
  <2>3. \E o, a : OutputAt(tx, f.offset) = [outpoint |-> o, offset |-> a]
    BY DEF OutputAt
  <2> HIDE DEF to
  <2>4. GoesTo(tx, f, to)
    BY <1>3, <2>1, <2>2, <2>3 DEF GoesTo, IsSatPoint
  <2> QED BY <2>4 DEF to
<1>4. CASE ~(f.offset < Total(tx.outputs))
  <2>1. to = [outpoint |-> NullOutPoint,
              offset |-> lost_sats + f.offset - Total(tx.outputs)]
    BY <1>4 DEF CoinbaseTo, LostSatPoint
  <2> HIDE DEF to
  <2>2. /\ to.outpoint = NullOutPoint
        /\ to.offset = lost_sats + f.offset - Total(tx.outputs)
        /\ to = [outpoint |-> to.outpoint, offset |-> to.offset]
    BY <2>1
  <2>3. ~options.sats =>
          /\ to.offset \in Nat /\ to.offset >= lost_sats
          /\ to.offset < lost_sats + reward - Total(tx.outputs)
    BY <1>1, <1>2, <1>4, <2>2
  <2>4. options.sats => Uncounted(to)
    BY <2>2 DEF Uncounted, IsNull
  <2>5. GoesTo(tx, f, to)
    BY <1>4, <2>2, <2>3, <2>4 DEF GoesTo, IsSatPoint
  <2> QED BY <2>5 DEF to
<1> QED BY <1>3, <1>4

(* They go to satpoints of their own, that nothing is on.                  *)
LEMMA CoinbaseLands ==
  ASSUME PlacesInv, in_block, index_inscriptions,
         NEW tx, tx.txid = next_txid, tx.outputs \in Seq(Nat),
         Total(tx.outputs) <= claimable
  PROVE  Landable(flotsam, CoinbaseTo(tx))
<1> DEFINE To == CoinbaseTo(tx)
           outs == tx.outputs
<1>1. tx.txid = next_txid /\ tx.outputs = outs
  OBVIOUS
<1>2. /\ Total(outs) \in Nat /\ next_txid \in Nat \ {0}
      /\ ~options.sats => lost_sats \in Nat
  BY OutputsTotal DEF PlacesInv, ChainOK
<1>3. /\ IsFiniteSet(flotsam) /\ Apart(flotsam)
      /\ \A f \in flotsam :
           /\ f.offset \in Nat /\ f.offset < claimable
           /\ f.origin \in {"Old", "New"}
           /\ f.origin = "Old" =>
                /\ f.id \in DOMAIN id_to_satpoint /\ id_to_satpoint[f.id] = f.old
                /\ f.old.outpoint.txid \in 1 .. next_txid - 1
                /\ f.old.outpoint \notin DOMAIN unspent
           /\ f.origin = "New" => f.id \notin DOMAIN id_to_satpoint
  <2>1. \A f \in flotsam : f.origin = "New" => f.id \notin DOMAIN id_to_satpoint
    BY DEF PlacesInv, TablesAgree, NumbersAreGapless
  <2> QED BY <2>1 DEF PlacesInv, FlotsamOK, InscriptionsAreOnUnspent, Apart
<1>4. ASSUME NEW f \in flotsam, f.offset < Total(outs)
      PROVE  /\ To[f] = OutputAt(tx, f.offset)
             /\ \E j \in DOMAIN tx.outputs : To[f].outpoint = [txid |-> tx.txid, vout |-> j - 1]
  BY <1>4, CoinbaseGoes DEF GoesTo
<1>5. ASSUME NEW f \in flotsam, ~(f.offset < Total(outs))
      PROVE  /\ To[f].outpoint = NullOutPoint
             /\ ~options.sats => /\ To[f].offset = lost_sats + f.offset - Total(outs)
                                 /\ To[f].offset >= lost_sats
             /\ options.sats => Uncounted(To[f])
  BY <1>5, CoinbaseGoes DEF GoesTo, Uncounted, IsNull
<1> HIDE DEF To, outs
<1>6. ASSUME NEW f \in flotsam PROVE To[f] \notin DOMAIN satpoint_to_id \/ Uncounted(To[f])
  <2>1. CASE f.offset < Total(outs)
    <3>1. PICK j \in DOMAIN tx.outputs :
            To[f].outpoint = [txid |-> tx.txid, vout |-> j - 1]
      BY <1>4, <2>1
    <3>2. To[f].outpoint.txid = next_txid
      BY <1>1, <3>1
    <3> QED BY <1>2, <3>2, SatPointsAreKnown
  <2>2. CASE ~(f.offset < Total(outs))
    <3> SUFFICES ASSUME To[f] \in DOMAIN satpoint_to_id, ~options.sats PROVE FALSE
      BY <1>5, <2>2
    <3>1. IsNull(To[f].outpoint) /\ To[f].offset >= lost_sats
          /\ To[f].offset = lost_sats + f.offset - Total(outs)
      BY <1>5, <2>2 DEF IsNull
    <3>2. To[f].offset < lost_sats
      BY <3>1, SatPointsAreKnown DEF Uncounted
    <3>3. f.offset \in Nat
      BY <1>3
    <3> QED BY <1>2, <3>1, <3>2, <3>3
  <2> QED BY <2>1, <2>2
<1>7. ASSUME NEW f \in flotsam, NEW g \in flotsam, f # g
      PROVE  To[f] # To[g] \/ Uncounted(To[f])
  <2>1. f.offset \in Nat /\ g.offset \in Nat /\ f.offset # g.offset
    BY <1>3, <1>7 DEF Apart
  <2>2. CASE f.offset < Total(outs) /\ g.offset < Total(outs)
    BY <1>1, <1>4, <2>1, <2>2, OutputAtInjective
  <2>3. ASSUME NEW h \in flotsam, NEW k \in flotsam,
               h.offset < Total(outs), ~(k.offset < Total(outs))
        PROVE  To[h] # To[k]
    <3>1. PICK j \in DOMAIN tx.outputs :
            To[h].outpoint = [txid |-> tx.txid, vout |-> j - 1]
      BY <1>4, <2>3
    <3>2. To[h].outpoint.txid = next_txid
      BY <1>1, <3>1
    <3>3. To[k].outpoint = NullOutPoint
      BY <1>5, <2>3
    <3> QED BY <1>2, <3>2, <3>3 DEF NullOutPoint
  <2>4. CASE ~(f.offset < Total(outs)) /\ ~(g.offset < Total(outs))
    <3> SUFFICES ASSUME ~options.sats PROVE To[f] # To[g]
      BY <1>5, <2>4
    <3>1. /\ To[f].offset = lost_sats + f.offset - Total(outs)
          /\ To[g].offset = lost_sats + g.offset - Total(outs)
      BY <1>5, <2>4
    <3>2. lost_sats \in Nat /\ Total(outs) \in Nat
      BY <1>2
    <3>3. To[f].offset # To[g].offset
      BY <2>1, <3>1, <3>2
    <3> QED BY <3>3
  <2> QED BY <2>2, <2>3, <2>4
<1>8. ASSUME NEW f \in flotsam, f.origin = "Old" PROVE ~Uncounted(f.old)
  BY <1>3, <1>8 DEF Uncounted, IsNull, NullOutPoint
<1>9. Landable(flotsam, To)
  BY <1>3, <1>6, <1>7, <1>8 DEF Landable
<1> QED BY <1>9 DEF To

(* A coinbase moves all of the flotsam, to its outputs or the lost sats.   *)
LEMMA CoinbaseKeepsPlaces ==
  ASSUME PlacesInv, in_block, index_inscriptions,
         NEW outs \in Seq(Nat), NEW tx,
         tx = [txid |-> next_txid, inputs |-> <<NullOutPoint>>, outputs |-> outs],
         NEW ranges, Total(outs) <= claimable, Extend(tx), claimable' = 0,
         IndexCoinbaseInscriptions(tx, ranges),
         height' = height + 1, in_block' = FALSE, options' = options,
         ~options.sats => lost_sats' = lost_sats + reward - Total(outs)
  PROVE  PlacesInv' /\ StaysUnlessSpent
<1> DEFINE To == CoinbaseTo(tx)
<1>1. /\ Locate(flotsam, To, ranges)
      /\ flotsam' = {} /\ reward' = 0 /\ UNCHANGED chains
  BY DEF IndexCoinbaseInscriptions, CoinbaseTo
<1>2. tx.txid = next_txid /\ tx.outputs = outs /\ tx.inputs = <<NullOutPoint>>
  OBVIOUS
<1>3. /\ Total(outs) \in Nat /\ claimable \in Nat /\ reward = claimable
      /\ next_txid \in Nat \ {0} /\ (~options.sats => lost_sats \in Nat)
      /\ height \in Nat /\ height < MaxHeight /\ MaxHeight \in Nat
  BY OutputsTotal, IndexAssumption DEF PlacesInv, ChainOK
<1>4. ToSet(tx.inputs) = {NullOutPoint}
  BY <1>2 DEF ToSet
<1>5. /\ next_txid' = next_txid + 1
      /\ \A o \in DOMAIN unspent' :
           unspent'[o] \in Nat /\ o.txid \in 1 .. next_txid' - 1
      /\ \A o \in DOMAIN unspent : o \notin ToSet(tx.inputs) =>
           o \in DOMAIN unspent' /\ unspent'[o] = unspent[o]
      /\ \A o : o.txid \in 0 .. next_txid - 1 /\ o \in DOMAIN unspent' =>
           o \in DOMAIN unspent /\ o \notin ToSet(tx.inputs)
      /\ \A j \in DOMAIN tx.outputs :
           LET o == [txid |-> tx.txid, vout |-> j - 1]
           IN  o \in DOMAIN unspent' /\ unspent'[o] = tx.outputs[j]
  BY <1>2, ExtendIs DEF PlacesInv
<1>6. /\ IsFiniteSet(flotsam) /\ Apart(flotsam)
      /\ \A f \in flotsam :
           /\ f.offset \in Nat /\ f.offset < claimable
           /\ f.origin \in {"Old", "New"}
           /\ f.origin = "Old" =>
                /\ f.id \in DOMAIN id_to_satpoint /\ id_to_satpoint[f.id] = f.old
                /\ f.old.outpoint.txid \in 1 .. next_txid - 1
                /\ f.old.outpoint \notin DOMAIN unspent
           /\ f.origin = "New" => f.id \notin DOMAIN id_to_satpoint
  <2>1. \A f \in flotsam : f.origin = "New" => f.id \notin DOMAIN id_to_satpoint
    BY DEF PlacesInv, TablesAgree, NumbersAreGapless
  <2> QED BY <2>1 DEF PlacesInv, FlotsamOK, InscriptionsAreOnUnspent, Apart
<1>7. ASSUME NEW f \in flotsam, f.offset < Total(outs)
      PROVE  /\ To[f] = OutputAt(tx, f.offset) /\ IsSatPoint(To[f])
             /\ \E j \in DOMAIN tx.outputs :
                  /\ To[f].outpoint = [txid |-> tx.txid, vout |-> j - 1]
                  /\ To[f].offset < tx.outputs[j]
  BY <1>2, <1>7, CoinbaseGoes DEF GoesTo
<1>8. ASSUME NEW f \in flotsam, ~(f.offset < Total(outs))
      PROVE  /\ To[f].outpoint = NullOutPoint
             /\ Uncounted(To[f]) \/ (To[f].offset < lost_sats' /\ IsSatPoint(To[f]))
  BY <1>2, <1>8, CoinbaseGoes DEF GoesTo, Uncounted, IsNull
<1>9. Landable(flotsam, To)
  BY <1>2, CoinbaseLands
<1> HIDE DEF To
<1>10. /\ PlacesAreInverse'
       /\ next_number' \in Nat
       /\ DOMAIN number_to_id' = 0 .. next_number' - 1
       /\ \A n \in DOMAIN number_to_id' :
            /\ number_to_id'[n] \in DOMAIN id_to_entry'
            /\ id_to_entry'[number_to_id'[n]].number = n
       /\ DOMAIN id_to_entry' = DOMAIN id_to_satpoint'
       /\ IsFiniteSet(DOMAIN id_to_entry')
       /\ Cardinality(DOMAIN id_to_entry') = next_number'
       /\ DOMAIN id_to_satpoint' = (DOMAIN id_to_satpoint) \cup Ids(flotsam)
       /\ \A f \in flotsam : id_to_satpoint'[f.id] = To[f]
       /\ \A id \in (DOMAIN id_to_satpoint) \ Ids(flotsam) :
            id_to_satpoint'[id] = id_to_satpoint[id]
       /\ \A id \in DOMAIN id_to_satpoint : id_to_entry'[id] = id_to_entry[id]
  BY <1>1, <1>9, LocateMoves
<1>11. ChainOK'
  <2>1. height' \in Nat /\ height' <= MaxHeight
    BY <1>3
  <2>2. ~options'.sats => lost_sats' \in Nat
    BY <1>3
  <2>3. next_txid' \in Nat \ {0}
    BY <1>3, <1>5
  <2> QED BY <1>5, <2>1, <2>2, <2>3 DEF ChainOK
<1>12. FlotsamOK'
  BY <1>1, FS_EmptySet DEF FlotsamOK, Apart
<1>13. \A id \in Ids(flotsam) : \E f \in flotsam : f.id = id
  BY DEF Ids
<1>14. TablesOK'
  <2>1. ASSUME NEW id \in DOMAIN id_to_satpoint'
        PROVE  IsSatPoint(id_to_satpoint'[id]) \/ Uncounted(id_to_satpoint'[id])
    <3>1. CASE id \in Ids(flotsam)
      <4>1. PICK f \in flotsam : f.id = id
        BY <1>13, <3>1
      <4>2. IsSatPoint(To[f]) \/ Uncounted(To[f])
        BY <1>7, <1>8
      <4> QED BY <1>10, <4>1, <4>2
    <3>2. CASE id \notin Ids(flotsam)
      BY <1>10, <3>2 DEF PlacesInv, TablesOK
    <3> QED BY <3>1, <3>2
  <2>2. index_inscriptions'
    BY <1>3, IndexAssumption DEF index_inscriptions
  <2> QED BY <1>10, <2>1, <2>2 DEF TablesOK, IsSatPoint, Uncounted
<1>15. NumbersAreGapless'
  <2> DEFINE fresh == {f.id : f \in {g \in flotsam : g.origin = "New"}}
  <2>1. /\ DOMAIN id_to_entry = DOMAIN id_to_satpoint
        /\ DOMAIN id_to_txids = DOMAIN id_to_entry \cup fresh
    BY DEF PlacesInv, TablesAgree, NumbersAreGapless
  <2>2. Ids(flotsam) \subseteq (DOMAIN id_to_satpoint) \cup fresh /\ fresh \subseteq Ids(flotsam)
    BY <1>6 DEF Ids
  <2>3. id_to_txids' = id_to_txids
    BY <1>1 DEF chains
  <2>4. {f.id : f \in {g \in flotsam' : g.origin = "New"}} = {}
    BY <1>1
  <2> HIDE DEF fresh
  <2>5. DOMAIN id_to_txids' = DOMAIN id_to_entry'
    BY <1>10, <2>1, <2>2, <2>3
  <2> QED BY <1>10, <2>4, <2>5 DEF NumbersAreGapless
<1>16. ASSUME NEW id \in DOMAIN id_to_satpoint'
       PROVE  LET sp == id_to_satpoint'[id]
              IN  IF IsNull(sp.outpoint) THEN Uncounted(sp) \/ sp.offset < lost_sats'
                  ELSE sp.outpoint \in DOMAIN unspent' /\ sp.offset < unspent'[sp.outpoint]
  <2>1. CASE id \in Ids(flotsam)
    <3>1. PICK f \in flotsam : f.id = id
      BY <1>13, <2>1
    <3>2. id_to_satpoint'[id] = To[f]
      BY <1>10, <3>1
    <3>3. CASE f.offset < Total(outs)
      <4>1. PICK j \in DOMAIN tx.outputs :
              /\ To[f].outpoint = [txid |-> tx.txid, vout |-> j - 1]
              /\ To[f].offset < tx.outputs[j]
        BY <1>7, <3>3
      <4>2. ~IsNull(To[f].outpoint)
        BY <1>2, <1>3, <4>1 DEF IsNull, NullOutPoint
      <4>3. To[f].outpoint \in DOMAIN unspent' /\ unspent'[To[f].outpoint] = tx.outputs[j]
        BY <1>5, <4>1
      <4> QED BY <3>2, <4>1, <4>2, <4>3
    <3>4. CASE ~(f.offset < Total(outs))
      BY <1>8, <3>2, <3>4 DEF IsNull
    <3> QED BY <3>3, <3>4
  <2>2. CASE id \notin Ids(flotsam)
    <3> DEFINE sp == id_to_satpoint[id]
    <3>1. id \in DOMAIN id_to_satpoint /\ id_to_satpoint'[id] = sp /\ id \notin FlyingIds
      BY <1>10, <2>2 DEF Ids, FlyingIds
    <3>2. IF IsNull(sp.outpoint) THEN Uncounted(sp) \/ sp.offset < lost_sats
          ELSE sp.outpoint \in DOMAIN unspent /\ sp.offset < unspent[sp.outpoint]
      BY <3>1 DEF PlacesInv, InscriptionsAreOnUnspent
    <3>3. sp.offset \in Nat \/ Uncounted(sp)
      BY <3>1 DEF PlacesInv, TablesOK, IsSatPoint
    <3> HIDE DEF sp
    <3>4. CASE IsNull(sp.outpoint)
      <4>1. Uncounted(sp) \/ sp.offset < lost_sats'
        BY <1>3, <3>2, <3>3, <3>4 DEF Uncounted
      <4> QED BY <3>1, <3>4, <4>1
    <3>5. CASE ~IsNull(sp.outpoint)
      <4>1. sp.outpoint \notin ToSet(tx.inputs)
        BY <1>4, <3>5 DEF IsNull
      <4> QED BY <1>5, <3>1, <3>2, <3>5, <4>1
    <3> QED BY <3>4, <3>5
  <2> QED BY <2>1, <2>2
<1>17. InscriptionsAreOnUnspent'
  BY <1>1, <1>16 DEF InscriptionsAreOnUnspent, IsNull, NullOutPoint, Uncounted
<1>18. StaysUnlessSpent
  <2> SUFFICES ASSUME NEW id \in DOMAIN id_to_satpoint,
                      id_to_satpoint'[id] # id_to_satpoint[id]
               PROVE  id_to_satpoint[id].outpoint \notin DOMAIN unspent'
    BY <1>10 DEF StaysUnlessSpent
  <2>1. PICK f \in flotsam : f.id = id
    BY <1>10, <1>13
  <2>2. id_to_satpoint[id] = f.old /\ f.old.outpoint.txid \in 1 .. next_txid - 1
        /\ f.old.outpoint \notin DOMAIN unspent
    BY <1>6, <2>1
  <2>3. f.old.outpoint.txid \in 0 .. next_txid - 1
    <3> DEFINE t == f.old.outpoint.txid
    <3>1. t \in 1 .. next_txid - 1 /\ next_txid \in Nat
      BY <1>3, <2>2
    <3> HIDE DEF t
    <3>2. t \in 0 .. next_txid - 1
      BY <3>1
    <3> QED BY <3>2 DEF t
  <2> QED BY <1>5, <2>2, <2>3
<1>19. Tellable(flotsam)
  BY DEF PlacesInv, ToldOK, Tellable
<1>20. /\ ToldOnce(operations')
       /\ Told(operations') = Told(operations) \cup Tellings(flotsam, To)
  BY <1>1, <1>9, <1>19, LocateTells DEF PlacesInv
<1>21. OperationsArePaths'
  BY <1>3, <1>9, <1>10, <1>19, <1>20, PathsGrow DEF PlacesInv
<1>22. ASSUME NEW m \in Told(operations')
       PROVE  m.txid \in 0 .. next_txid' - 1 /\ m.op.id \in DOMAIN id_to_satpoint'
  <2>1. 0 .. next_txid - 1 \subseteq 0 .. next_txid' - 1
    <3>1. next_txid \in Nat /\ next_txid' = next_txid + 1
      BY <1>3, <1>5
    <3> QED BY <3>1
  <2>2. DOMAIN id_to_satpoint' = (DOMAIN id_to_satpoint) \cup Ids(flotsam)
    BY <1>10
  <2>3. CASE m \in Told(operations)
    <3>1. m.txid \in 0 .. next_txid - 1 /\ m.op.id \in DOMAIN id_to_satpoint
      BY <2>3 DEF PlacesInv, ToldOK
    <3> QED BY <2>1, <2>2, <3>1
  <2>4. CASE m \in Tellings(flotsam, To)
    <3>1. PICK f \in flotsam : m = [txid |-> f.txid, op |-> OperationOf(f, To[f])]
      BY <2>4 DEF Tellings
    <3>2. m.txid = f.txid /\ m.op.id = f.id
      BY <3>1 DEF OperationOf
    <3>3. f.txid \in 0 .. next_txid - 1
      BY DEF PlacesInv, ToldOK
    <3>4. f.id \in Ids(flotsam)
      BY DEF Ids
    <3> QED BY <2>1, <2>2, <3>2, <3>3, <3>4
  <2> QED BY <1>20, <2>3, <2>4
<1>23. ToldOK'
  BY <1>1, <1>20, <1>22 DEF ToldOK
<1> QED
  BY <1>10, <1>11, <1>12, <1>14, <1>15, <1>17, <1>18, <1>21, <1>23 DEF PlacesInv, TablesAgree

(* Below the first height of inscriptions the tables stay empty.           *)
LEMMA NoPlacesYet ==
  ASSUME PlacesInv, ~index_inscriptions, UNCHANGED <<located, chains, flotsam>>,
         ChainOK'
  PROVE  PlacesInv' /\ StaysUnlessSpent
<1>1. /\ satpoint_to_id' = satpoint_to_id /\ id_to_satpoint' = id_to_satpoint
      /\ number_to_id' = number_to_id /\ id_to_entry' = id_to_entry
      /\ next_number' = next_number /\ id_to_txids' = id_to_txids /\ flotsam' = flotsam
      /\ operations' = operations
  BY DEF located, chains
<1>2. DOMAIN id_to_satpoint = {} /\ flotsam = {}
  BY DEF PlacesInv, TablesOK
<1>3. FlotsamOK'
  BY <1>1, <1>2 DEF PlacesInv, FlotsamOK, Apart
<1>4. TablesOK'
  BY <1>1, <1>2 DEF PlacesInv, TablesOK, IsSatPoint, Uncounted
<1>5. PlacesAreInverse'
  BY <1>1, <1>2 DEF PlacesInv, TablesAgree, PlacesAreInverse
<1>6. NumbersAreGapless'
  BY <1>1 DEF PlacesInv, TablesAgree, NumbersAreGapless
<1>7. InscriptionsAreOnUnspent'
  BY <1>1, <1>2 DEF InscriptionsAreOnUnspent
<1>8. StaysUnlessSpent
  BY <1>2 DEF StaysUnlessSpent
<1>9. Told(operations) = {} /\ ToldOnce(operations)
  BY <1>2 DEF PlacesInv, ToldOK
<1>10. ToldOK' /\ OperationsArePaths'
  BY <1>1, <1>2, <1>9 DEF ToldOK, ToldOnce, OperationsArePaths
<1> QED
  BY <1>3, <1>4, <1>5, <1>6, <1>7, <1>8, <1>10 DEF PlacesInv, TablesAgree

(* A step that moves neither the chain nor the tables.                     *)
LEMMA SamePlaces ==
  ASSUME PlacesInv, UNCHANGED <<options, chain, lost_sats, chains, flotsam>>,
         UNCHANGED <<reward, height, in_block>>,
         satpoint_to_id' = satpoint_to_id, id_to_satpoint' = id_to_satpoint,
         number_to_id' = number_to_id, id_to_entry' = id_to_entry,
         next_number' = next_number, operations' = operations
  PROVE  PlacesInv' /\ StaysUnlessSpent
<1>1. /\ unspent' = unspent /\ next_txid' = next_txid /\ claimable' = claimable
      /\ lost_sats' = lost_sats /\ id_to_txids' = id_to_txids /\ flotsam' = flotsam
      /\ reward' = reward /\ height' = height /\ in_block' = in_block
      /\ options' = options
  BY DEF chain, chains
<1>2. ChainOK'
  BY <1>1 DEF PlacesInv, ChainOK, index_inscriptions
<1>3. FlotsamOK'
  BY <1>1 DEF PlacesInv, FlotsamOK, Apart
<1>4. TablesOK'
  BY <1>1 DEF PlacesInv, TablesOK, IsSatPoint, Uncounted, index_inscriptions
<1>5. PlacesAreInverse'
  BY <1>1 DEF PlacesInv, TablesAgree, PlacesAreInverse, Uncounted
<1>6. NumbersAreGapless'
  BY <1>1 DEF PlacesInv, TablesAgree, NumbersAreGapless
<1>7. InscriptionsAreOnUnspent'
  BY <1>1 DEF PlacesInv, InscriptionsAreOnUnspent, FlyingIds, Uncounted
<1>8. StaysUnlessSpent
  BY DEF StaysUnlessSpent
<1>9. ToldOK'
  BY <1>1 DEF PlacesInv, ToldOK, ToldOnce
<1>10. OperationsArePaths'
  BY DEF PlacesInv, OperationsArePaths, After
<1> QED
  BY <1>2, <1>3, <1>4, <1>5, <1>6, <1>7, <1>8, <1>9, <1>10 DEF PlacesInv, TablesAgree

(* The number after the last is that of the numbers so far.                *)
LEMMA NextNumberIs ==
  ASSUME next_number \in Nat, DOMAIN number_to_id = 0 .. next_number - 1
  PROVE  NextNumber = next_number
<1> DEFINE S == {n + 1 : n \in DOMAIN number_to_id} \cup {0}
<1>1. next_number \in S
  <2>1. CASE next_number = 0
    BY <2>1
  <2>2. CASE next_number # 0
    <3>1. next_number - 1 \in DOMAIN number_to_id /\ next_number - 1 + 1 = next_number
      BY <2>2
    <3> QED BY <3>1
  <2> QED BY <2>1, <2>2
<1>2. \A m \in S : m \in Nat /\ m <= next_number
  OBVIOUS
<1>3. NextNumber = Max(S)
  BY DEF NextNumber
<1> HIDE DEF S
<1>4. Max(S) \in S /\ \A m \in S : Max(S) >= m
  BY <1>1, <1>2 DEF Max
<1> DEFINE m0 == Max(S)
<1>5. m0 \in S /\ m0 >= next_number
  BY <1>1, <1>4
<1> HIDE DEF m0
<1>6. m0 \in Nat /\ m0 <= next_number
  BY <1>2, <1>5
<1>7. m0 = next_number
  BY <1>5, <1>6
<1> QED BY <1>3, <1>7 DEF m0

(* A block begins with its subsidy and with nothing on its way.            *)
LEMMA BeginKeepsPlaces ==
  ASSUME PlacesInv, BeginBlock
  PROVE  PlacesInv' /\ StaysUnlessSpent
<1>1. /\ ~in_block /\ height < MaxHeight /\ in_block' = TRUE
      /\ claimable' = Subsidy(height) /\ reward' = Subsidy(height)
      /\ next_number' = NextNumber
      /\ height' = height /\ lost_sats' = lost_sats /\ unspent' = unspent
      /\ next_txid' = next_txid /\ flotsam' = flotsam
      /\ satpoint_to_id' = satpoint_to_id /\ id_to_satpoint' = id_to_satpoint
      /\ number_to_id' = number_to_id /\ id_to_entry' = id_to_entry
      /\ id_to_txids' = id_to_txids /\ operations' = << >> /\ options' = options
  BY DEF BeginBlock, chains
<1>2. next_number' = next_number
  BY <1>1, NextNumberIs DEF PlacesInv, TablesOK, TablesAgree, NumbersAreGapless
<1>3. flotsam = {}
  BY <1>1 DEF PlacesInv, FlotsamOK
<1>4. ChainOK'
  <2>1. Subsidy(height) \in Nat
    BY SubsidyIsNat DEF PlacesInv, ChainOK
  <2> QED BY <1>1, <2>1 DEF PlacesInv, ChainOK
<1>5. FlotsamOK'
  BY <1>1, <1>3 DEF PlacesInv, FlotsamOK, Apart
<1>6. TablesOK'
  BY <1>1, <1>2 DEF PlacesInv, TablesOK, IsSatPoint, Uncounted, index_inscriptions
<1>7. PlacesAreInverse'
  BY <1>1 DEF PlacesInv, TablesAgree, PlacesAreInverse, Uncounted
<1>8. NumbersAreGapless'
  BY <1>1, <1>2 DEF PlacesInv, TablesAgree, NumbersAreGapless
<1>9. InscriptionsAreOnUnspent'
  BY <1>1, <1>3 DEF PlacesInv, InscriptionsAreOnUnspent, FlyingIds, Uncounted
<1>10. StaysUnlessSpent
  BY <1>1 DEF StaysUnlessSpent
<1>11. ToldOK' /\ OperationsArePaths'
  <2>1. DOMAIN operations' = {}
    BY <1>1
  <2>2. Told(operations') = {} /\ ToldOnce(operations')
    BY <2>1, NothingTold
  <2>3. flotsam' = {}
    BY <1>1, <1>3
  <2> QED BY <2>1, <2>2, <2>3 DEF ToldOK, OperationsArePaths
<1> QED
  BY <1>4, <1>5, <1>6, <1>7, <1>8, <1>9, <1>10, <1>11 DEF PlacesInv, TablesAgree
(* Each step keeps what is known of the chain: a coinbase adds to the lost *)
(* sats what it leaves of the fees and the subsidy.                        *)
LEMMA StepKeepsChain ==
  ASSUME ValuesInv, ChainOK, Next
  PROVE  ChainOK'
<1>1. CASE BeginBlock
  <2>1. /\ ~in_block /\ height < MaxHeight /\ claimable' = Subsidy(height)
        /\ reward' = Subsidy(height) /\ height' = height /\ lost_sats' = lost_sats
        /\ unspent' = unspent /\ next_txid' = next_txid /\ options' = options
    BY <1>1 DEF BeginBlock
  <2>2. Subsidy(height) \in Nat
    BY SubsidyIsNat DEF ChainOK
  <2> QED BY <2>1, <2>2 DEF ChainOK
<1>2. ASSUME More, NEW tx \in Spends, IndexTransaction(tx) PROVE ChainOK'
  <2>1. /\ in_block /\ Total(tx.outputs) <= InputTotal(tx) /\ Extend(tx)
        /\ claimable' = claimable + InputTotal(tx) - Total(tx.outputs)
        /\ height' = height /\ in_block' = in_block /\ lost_sats' = lost_sats
        /\ options' = options
    BY <1>2 DEF More, IndexTransaction, Valid
  <2>2. tx.txid = next_txid /\ tx.outputs \in Seq(Nat)
        /\ Total(InputValues(tx)) = InputTotal(tx)
    BY InputsOfSpend
  <2>3. InputTotal(tx) \in Nat
    <3>1. PICK n \in Nat \ {0} : DOMAIN tx.inputs = 1 .. n /\ Len(InputValues(tx)) = n
      BY InputsOfSpend
    <3>2. \A i \in 1 .. n : InputValues(tx)[i] \in Nat
      BY <3>1, InputsOfSpend
    <3> QED BY <2>2, <3>1, <3>2, WithinTotal
  <2>4. Total(tx.outputs) \in Nat
    BY <2>2, OutputsTotal
  <2>5. next_txid' = next_txid + 1
        /\ \A o \in DOMAIN unspent' :
             unspent'[o] \in Nat /\ o.txid \in 1 .. next_txid' - 1
    BY <2>1, <2>2, ExtendIs
  <2>6. claimable \in Nat /\ next_txid \in Nat \ {0}
    BY DEF ChainOK
  <2>7. claimable' \in Nat /\ next_txid' \in Nat \ {0}
    BY <2>1, <2>3, <2>4, <2>5, <2>6
  <2>8. index_inscriptions' => reward' = claimable'
    <3>1. SUFFICES ASSUME index_inscriptions PROVE reward' = claimable'
      BY <2>1 DEF index_inscriptions
    <3>2. reward' = reward + Total(InputValues(tx)) - Total(tx.outputs)
      BY <1>2, <3>1 DEF IndexTransaction, IndexInscriptions
    <3>3. reward = claimable
      BY <2>1, <3>1 DEF ChainOK
    <3> QED BY <2>1, <2>2, <3>2, <3>3
  <2> QED BY <2>1, <2>5, <2>7, <2>8 DEF ChainOK
<1>3. ASSUME NEW outs \in CoinbaseOutputs[height], IndexCoinbase(outs) PROVE ChainOK'
  <2> DEFINE tx == [txid |-> next_txid, inputs |-> <<NullOutPoint>>, outputs |-> outs]
  <2>1. /\ in_block /\ Total(outs) <= claimable /\ Extend(tx) /\ claimable' = 0
        /\ in_block' = FALSE /\ height' = height + 1 /\ options' = options
    BY <1>3 DEF IndexCoinbase, CoinbaseOf, Claims
  <2>2. height \in Nat /\ height < MaxHeight /\ MaxHeight \in Nat
        /\ next_txid \in Nat \ {0} /\ claimable \in Nat
        /\ (~options.sats => lost_sats \in Nat)
    BY <2>1, IndexAssumption DEF ChainOK
  <2>3. outs \in Seq(Nat) /\ Total(outs) \in Nat
    <3>1. height \in 0 .. MaxHeight
      BY <2>2
    <3> QED BY <3>1, IndexAssumption, OutputsTotal
  <2>4. ~options'.sats => lost_sats' \in Nat
    <3>1. CASE ~options.sats /\ index_inscriptions
      <4>1. lost_sats' = lost_sats + reward - Total(outs) /\ reward = claimable
        BY <1>3, <2>1, <3>1 DEF IndexCoinbase, CoinbaseOf, Claims, ChainOK
      <4> QED BY <2>1, <2>2, <2>3, <3>1, <4>1
    <3>2. CASE ~options.sats /\ ~index_inscriptions
      <4>1. lost_sats' = lost_sats
        BY <1>3, <3>2 DEF IndexCoinbase, CoinbaseOf, Claims
      <4> QED BY <2>2, <3>2, <4>1
    <3> QED BY <2>1, <3>1, <3>2
  <2>5. tx.txid = next_txid /\ tx.outputs \in Seq(Nat)
    BY <2>3
  <2> HIDE DEF tx
  <2>6. next_txid' = next_txid + 1
        /\ \A o \in DOMAIN unspent' :
             unspent'[o] \in Nat /\ o.txid \in 1 .. next_txid' - 1
    BY <2>1, <2>5, ExtendIs
  <2>7. next_txid' \in Nat \ {0} /\ height' \in Nat /\ height' <= MaxHeight
    BY <2>1, <2>2, <2>6
  <2> QED BY <2>1, <2>4, <2>6, <2>7 DEF ChainOK
<1>4. CASE Commit
  BY <1>4 DEF Commit, ChainOK, chain, index_inscriptions
<1>5. ASSUME NEW tx, Stop(tx) PROVE ChainOK'
  BY <1>5 DEF Stop, ChainOK, chain, index_inscriptions
<1> QED BY <1>1, <1>2, <1>3, <1>4, <1>5 DEF Next

(* Without transactions that spend nothing, each step keeps inscriptions   *)
(* in place.                                                               *)
LEMMA StepKeepsPlaces ==
  ASSUME ~Valueless, ChainsInv, ValuesInv, PlacesInv, Next
  PROVE  PlacesInv' /\ StaysUnlessSpent
<1>0. ChainOK'
  BY StepKeepsChain DEF PlacesInv
<1>1. CASE BeginBlock
  BY <1>1, BeginKeepsPlaces
<1>2. ASSUME More, NEW tx \in Spends, IndexTransaction(tx)
      PROVE  PlacesInv' /\ StaysUnlessSpent
  <2>1. /\ in_block /\ InputTotal(tx) > 0 /\ Total(tx.outputs) <= InputTotal(tx)
        /\ Extend(tx)
        /\ claimable' = claimable + InputTotal(tx) - Total(tx.outputs)
        /\ height' = height /\ in_block' = in_block /\ lost_sats' = lost_sats
        /\ options' = options
    BY <1>2 DEF More, IndexTransaction, Valid
  <2>2. CASE index_inscriptions
    <3>1. PICK ranges : IndexInscriptions(tx, ranges)
      BY <1>2, <2>2 DEF IndexTransaction
    <3> QED BY <2>1, <2>2, <3>1, SpendKeepsPlaces
  <2>3. CASE ~index_inscriptions
    <3>1. UNCHANGED <<located, chains, flotsam>>
      BY <1>2, <2>3 DEF IndexTransaction
    <3> QED BY <1>0, <2>3, <3>1, NoPlacesYet
  <2> QED BY <2>2, <2>3
<1>3. ASSUME NEW outs \in CoinbaseOutputs[height], IndexCoinbase(outs)
      PROVE  PlacesInv' /\ StaysUnlessSpent
  <2> DEFINE tx == [txid |-> next_txid, inputs |-> <<NullOutPoint>>, outputs |-> outs]
  <2>1. /\ in_block /\ Total(outs) <= claimable /\ Extend(tx) /\ claimable' = 0
        /\ in_block' = FALSE /\ height' = height + 1 /\ options' = options
    BY <1>3 DEF IndexCoinbase, CoinbaseOf, Claims
  <2>2. CASE index_inscriptions
    <3>1. outs \in Seq(Nat)
      <4>1. height \in 0 .. MaxHeight
        BY <2>1, IndexAssumption DEF PlacesInv, ChainOK
      <4> QED BY <4>1, IndexAssumption
    <3>2. IndexCoinbaseInscriptions(tx, coinbase_inputs)
      BY <1>3, <2>2 DEF IndexCoinbase, CoinbaseOf, Claims
    <3>3. ~options.sats => lost_sats' = lost_sats + reward - Total(outs)
      BY <1>3, <2>2 DEF IndexCoinbase, CoinbaseOf, Claims
    <3> HIDE DEF tx
    <3>4. tx = [txid |-> next_txid, inputs |-> <<NullOutPoint>>, outputs |-> outs]
      BY DEF tx
    <3> QED BY <2>1, <2>2, <3>1, <3>2, <3>3, <3>4, CoinbaseKeepsPlaces
  <2>3. CASE ~index_inscriptions
    <3>1. UNCHANGED <<located, chains, flotsam>>
      BY <1>3, <2>3 DEF IndexCoinbase, CoinbaseOf, Claims
    <3> QED BY <1>0, <2>3, <3>1, NoPlacesYet
  <2> QED BY <2>2, <2>3
<1>4. CASE Commit
  BY <1>4, SamePlaces DEF Commit, located
<1>5. ASSUME NEW tx, Stop(tx) PROVE PlacesInv' /\ StaysUnlessSpent
  BY <1>5, SamePlaces DEF Stop, located
<1> QED BY <1>1, <1>2, <1>3, <1>4, <1>5 DEF Next


LEMMA StartOfChain ==
  ASSUME Init
  PROVE  ChainOK
<1>1. DOMAIN << >> = {}
  OBVIOUS
<1>2. ~in_block /\ height = 0 /\ MaxHeight \in Nat
  BY IndexAssumption DEF Init
<1> QED BY <1>1, <1>2 DEF Init, ChainOK


(* The invariant of inscriptions, with those of chains and values.         *)
AllInv == ChainsInv /\ ValuesInv /\ PlacesInv

(* An empty index has no inscription to place.                             *)
LEMMA StartsInPlace ==
  ASSUME Init
  PROVE  PlacesInv
<1>1. DOMAIN << >> = {}
  OBVIOUS
<1>2. ChainOK
  BY StartOfChain
<1>3. FlotsamOK
  BY FS_EmptySet DEF Init, FlotsamOK, Apart
<1>4. TablesOK
  BY <1>1, FS_EmptySet DEF Init, TablesOK
<1>5. PlacesAreInverse
  BY <1>1 DEF Init, PlacesAreInverse
<1>6. NumbersAreGapless
  BY <1>1, FS_EmptySet DEF Init, NumbersAreGapless
<1>7. InscriptionsAreOnUnspent
  BY <1>1 DEF Init, InscriptionsAreOnUnspent
<1>8. ToldOK /\ OperationsArePaths
  <2>1. DOMAIN operations = {} /\ flotsam = {}
    BY <1>1 DEF Init
  <2>2. Told(operations) = {} /\ ToldOnce(operations)
    BY <2>1, NothingTold
  <2> QED BY <2>1, <2>2 DEF ToldOK, OperationsArePaths
<1> QED
  BY <1>2, <1>3, <1>4, <1>5, <1>6, <1>7, <1>8 DEF PlacesInv, TablesAgree

(* What holds along every behaviour.                                       *)
LEMMA PlacesInvariant ==
  ASSUME ~Valueless
  PROVE  Spec => []AllInv /\ [][StaysUnlessSpent]_vars
<1>1. Init => AllInv
  BY StartsInPlace, ChainsBegin, ValuesBegin DEF AllInv
<1>2. AllInv /\ [Next]_vars => AllInv' /\ [StaysUnlessSpent]_vars
  <2> SUFFICES ASSUME AllInv, [Next]_vars PROVE AllInv' /\ [StaysUnlessSpent]_vars
    OBVIOUS
  <2>1. ChainsInv' /\ ValuesInv'
    BY ChainsStep, ValuesStep DEF AllInv
  <2>2. PlacesInv' /\ StaysUnlessSpent
    <3>1. CASE Next
      BY <3>1, StepKeepsPlaces DEF AllInv
    <3>2. CASE UNCHANGED vars
      BY <3>2, SamePlaces DEF AllInv, vars, located
    <3> QED BY <3>1, <3>2
  <2> QED BY <2>1, <2>2 DEF AllInv
<1> QED BY <1>1, <1>2, PTL DEF Spec

(* On a chain whose transactions spend some value, whatever inscriptions   *)
(* come and move, the tables by satpoint and by inscription are inverses,  *)
(* and numbers are given without a gap.                                    *)
THEOREM TablesAlwaysAgree ==
  ASSUME ~Valueless
  PROVE  Spec => []TablesAgree
<1>1. AllInv => TablesAgree
  BY DEF AllInv, PlacesInv
<1> QED BY <1>1, PlacesInvariant, PTL

(* And an inscription is within an unspent output or the lost sats, or it  *)
(* is on its way to the coinbase, within what that claims.                 *)
THEOREM InscriptionsStayOnUnspent ==
  ASSUME ~Valueless
  PROVE  Spec => []InscriptionsAreOnUnspent
<1>1. AllInv => InscriptionsAreOnUnspent
  BY DEF AllInv, PlacesInv
<1> QED BY <1>1, PlacesInvariant, PTL

(* And an inscription moves only when the output that it is on is spent.   *)
THEOREM InscriptionsMoveWithTheirCoin ==
  ASSUME ~Valueless
  PROVE  Spec => MovesOnlyWithItsCoin
BY PlacesInvariant DEF MovesOnlyWithItsCoin, StaysUnlessSpent

(* And what CRC20 is told of a block moves each inscription along a path   *)
(* that ends where it is, by one operation of each transaction.            *)
THEOREM OperationsStayPaths ==
  ASSUME ~Valueless
  PROVE  Spec => []OperationsArePaths
<1>1. AllInv => OperationsArePaths
  BY DEF AllInv, PlacesInv
<1> QED BY <1>1, PlacesInvariant, PTL

-----------------------------------------------------------------------------
(* Rows of ranges                                                          *)

(* Outputs are those of transactions the node has brought, and there is a  *)
(* row for the lost sats.                                                  *)
RowsInv ==
  /\ next_txid \in Nat \ {0}
  /\ \A o \in DOMAIN unspent : o.txid \in 1 .. next_txid - 1
  /\ options.sats => NullOutPoint \in DOMAIN outpoint_to_sat_ranges
  /\ OutputsHaveRanges

(* The outputs of a transaction take the place of its inputs in the chain, *)
(* and their rows that of those of its inputs in the cache and the table.  *)
LEMMA RowsMove ==
  ASSUME RowsInv, options.sats, options' = options,
         NEW tx, tx.txid = next_txid, Extend(tx),
         ToSet(tx.inputs) \subseteq DOMAIN unspent \/ ToSet(tx.inputs) = {NullOutPoint},
         NEW ranges, CacheOutputs(tx, ranges),
         DOMAIN outpoint_to_sat_ranges' =
           ((DOMAIN outpoint_to_sat_ranges) \ (ToSet(tx.inputs) \ DOMAIN range_cache))
             \cup {NullOutPoint}
  PROVE  RowsInv'
<1> DEFINE outs == ToSet(OutPointsOf(tx))
           ins == ToSet(tx.inputs)
<1>1. \A o \in outs : o.txid = next_txid
  BY OutputsOfTx
<1>2. DOMAIN unspent' = ((DOMAIN unspent) \ ins) \cup outs /\ next_txid' = next_txid + 1
  BY DEF Extend, With, Without
<1>3. DOMAIN range_cache' = ((DOMAIN range_cache) \ ins) \cup outs
  BY DEF CacheOutputs, With, Without
<1> HIDE DEF outs, ins
<1>4. /\ next_txid \in Nat \ {0}
      /\ \A o \in DOMAIN unspent : o.txid \in 1 .. next_txid - 1
      /\ NullOutPoint \in DOMAIN outpoint_to_sat_ranges
      /\ (DOMAIN range_cache) \cap (DOMAIN outpoint_to_sat_ranges) = {}
      /\ (DOMAIN range_cache) \cup (DOMAIN outpoint_to_sat_ranges)
           = (DOMAIN unspent) \cup {NullOutPoint}
  BY DEF RowsInv, OutputsHaveRanges
<1>5. NullOutPoint \notin DOMAIN unspent
  BY <1>4 DEF NullOutPoint
<1>6. \A o \in outs : o \notin (DOMAIN unspent) \cup {NullOutPoint}
  <2>1. NullOutPoint.txid = 0
    BY DEF NullOutPoint
  <2> QED BY <1>1, <1>4, <2>1
<1>7. \A o \in DOMAIN unspent' : o.txid \in 1 .. next_txid' - 1
  BY <1>1, <1>2, <1>4
<1>8. OutputsHaveRanges'
  BY <1>2, <1>3, <1>4, <1>5, <1>6 DEF OutputsHaveRanges, ins
<1> QED BY <1>2, <1>4, <1>7, <1>8 DEF RowsInv

(* Each step keeps a row for each unspent output.                          *)
LEMMA RowsStep == RowsInv /\ [Next]_vars => RowsInv'
<1> SUFFICES ASSUME RowsInv, [Next]_vars PROVE RowsInv'
  OBVIOUS
<1>1. ASSUME options' = options, unspent' = unspent, next_txid' = next_txid,
             range_cache' = range_cache, outpoint_to_sat_ranges' = outpoint_to_sat_ranges
      PROVE  RowsInv'
  BY <1>1 DEF RowsInv, OutputsHaveRanges
<1>2. ASSUME NEW tx, tx.txid = next_txid, Extend(tx), options' = options, ~options.sats
      PROVE  RowsInv'
  <2>1. \A o \in ToSet(OutPointsOf(tx)) : o.txid = next_txid
    BY <1>2, OutputsOfTx
  <2>2. /\ DOMAIN unspent' \subseteq (DOMAIN unspent) \cup ToSet(OutPointsOf(tx))
        /\ next_txid' = next_txid + 1
    BY <1>2 DEF Extend, With, Without
  <2>3. \A o \in DOMAIN unspent' : o.txid \in 1 .. next_txid' - 1
    BY <2>1, <2>2 DEF RowsInv
  <2> QED BY <1>2, <2>2, <2>3 DEF RowsInv, OutputsHaveRanges
<1>3. CASE BeginBlock
  BY <1>1, <1>3 DEF BeginBlock, StartSats, sats
<1>4. ASSUME NEW tx \in Spends, IndexTransaction(tx) PROVE RowsInv'
  <2>1. /\ tx.txid = next_txid /\ Extend(tx) /\ options' = options
        /\ ToSet(tx.inputs) \subseteq DOMAIN unspent
    BY <1>4 DEF Spends, InputLists, Spendable, IndexTransaction, ToSet
  <2>2. CASE options.sats
    <3>1. IndexSats(tx)
      BY <1>4, <2>2 DEF IndexTransaction
    <3>2. PICK ranges : CacheOutputs(tx, ranges)
      BY <3>1 DEF IndexSats
    <3>3. DOMAIN outpoint_to_sat_ranges' =
            (DOMAIN outpoint_to_sat_ranges) \ (ToSet(tx.inputs) \ DOMAIN range_cache)
      BY <3>1 DEF IndexSats, Without
    <3>4. NullOutPoint \in DOMAIN outpoint_to_sat_ranges'
      <4>1. NullOutPoint \notin ToSet(tx.inputs)
        BY <2>1 DEF RowsInv, NullOutPoint
      <4> QED BY <2>2, <3>3, <4>1 DEF RowsInv
    <3> QED BY <2>1, <2>2, <3>2, <3>3, <3>4, RowsMove
  <2> QED BY <1>2, <2>1, <2>2
<1>5. ASSUME NEW outs, IndexCoinbase(outs) PROVE RowsInv'
  <2> DEFINE tx == CoinbaseOf(outs)
  <2>1. /\ tx.txid = next_txid /\ Extend(tx) /\ options' = options
        /\ ToSet(tx.inputs) = {NullOutPoint}
        /\ options.sats => IndexCoinbaseSats(tx)
    BY <1>5 DEF IndexCoinbase, CoinbaseOf, ToSet
  <2> HIDE DEF tx
  <2>2. CASE options.sats
    <3>1. CacheOutputs(tx, coinbase_inputs)
      BY <2>1, <2>2 DEF IndexCoinbaseSats
    <3>2. /\ NullOutPoint \in DOMAIN outpoint_to_sat_ranges
          /\ NullOutPoint \notin DOMAIN range_cache
      BY <2>2 DEF RowsInv, OutputsHaveRanges
    <3>3. DOMAIN outpoint_to_sat_ranges' =
            ((DOMAIN outpoint_to_sat_ranges) \ (ToSet(tx.inputs) \ DOMAIN range_cache))
              \cup {NullOutPoint}
      BY <2>1, <2>2, <3>2 DEF IndexCoinbaseSats, WithRow, With
    <3> QED BY <2>1, <2>2, <3>1, <3>3, RowsMove
  <2> QED BY <1>2, <2>1, <2>2
<1>6. CASE Commit
  <2>1. options' = options /\ unspent' = unspent /\ next_txid' = next_txid
    BY <1>6 DEF Commit, chain
  <2>2. CASE options.sats
    <3>1. /\ DOMAIN range_cache' = {}
          /\ DOMAIN outpoint_to_sat_ranges'
               = (DOMAIN outpoint_to_sat_ranges) \cup DOMAIN range_cache
      BY <1>6, <2>2 DEF Commit, FlushSats, With
    <3> QED BY <2>1, <2>2, <3>1 DEF RowsInv, OutputsHaveRanges
  <2>3. CASE ~options.sats
    BY <1>1, <1>6, <2>1, <2>3 DEF Commit, sats
  <2> QED BY <2>2, <2>3
<1>7. ASSUME NEW tx, Stop(tx) PROVE RowsInv'
  BY <1>1, <1>7 DEF Stop, chain, sats
<1>8. CASE UNCHANGED vars
  BY <1>1, <1>8 DEF vars, chain, sats
<1> QED BY <1>3, <1>4, <1>5, <1>6, <1>7, <1>8 DEF Next

(* Whatever is spent, flushed and lost, and whatever a stored range loses, *)
(* the ranges of an unspent output have their row, and one only.           *)
THEOREM OutputsAlwaysHaveRanges == Spec => []OutputsHaveRanges
<1>1. Init => RowsInv
  BY DEF Init, SatsInit, RowsInv, OutputsHaveRanges
<1>2. RowsInv => OutputsHaveRanges
  BY DEF RowsInv
<1> QED BY <1>1, <1>2, RowsStep, PTL DEF Spec
===============================================================================
