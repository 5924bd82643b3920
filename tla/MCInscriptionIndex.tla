-------------------------- MODULE MCInscriptionIndex --------------------------
(* The inscription and sat indexes on a short chain, and what they promise *)
(* of each other and of the chain.  As in the code, the size that a stored *)
(* range can have is less than any subsidy, and the start that it can have *)
(* less than what is mined in the first blocks.                            *)
EXTENDS InscriptionIndex

(* An epoch of two blocks of 3 sats, and then blocks of 2.                 *)
EpochHeights == <<0, 2>>
EpochSubsidies == <<3, 2>>
EpochSats == <<0, 6>>

Txids == 1 .. 6

SatsOnly == [sats |-> TRUE, transactions |-> FALSE]
TransactionsOnly == [sats |-> FALSE, transactions |-> TRUE]
NoOptions == [sats |-> FALSE, transactions |-> FALSE]
SomeOptions == {SatsOnly, TransactionsOnly, NoOptions}
OnlySats == {SatsOnly}

(* Scripts: none, a whole inscription, the first of two pieces, the last.  *)
Push(protocol, pieces, numbers) ==
  [protocol |-> protocol, pieces |-> pieces, numbers |-> numbers]
Scripts3 ==
  {Push(TRUE, 1, <<0>>), Push(TRUE, 2, <<1>>), Push(FALSE, 0, <<0>>)}

FewCoinbases ==
  [h \in 0 .. 4 |->
     CASE h = 1 -> {<<1, 2>>} [] h = 2 -> {<<2>>, <<1, 2>>} [] OTHER -> {<<2>>}]
FewSpends == {<<0>>, <<0, 2>>, <<1, 1>>, <<2>>}
===============================================================================
