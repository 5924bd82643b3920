---------------------------- MODULE MCCrc20Ledger ----------------------------
(* The CRC20 ledger on small sets.                                         *)
EXTENDS Crc20Ledger, TLC

(* Indexes of cunes, and so of CRC20, with and without the transactions.   *)
WithCunes == [crc20 : {TRUE}, cunes : {TRUE}, transactions : BOOLEAN]

Symmetry == Permutations(Id) \cup Permutations(Script)

=============================================================================
