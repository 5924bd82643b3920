------------------------- MODULE MCWalletCommands -------------------------
(***************************************************************************)
(* WalletCommands on a wallet of three outputs, the third of which may     *)
(* come with a block at any moment.  The values stand around the limits    *)
(* the builder compares with: dust (294, 330, 546), a fee of one or two    *)
(* inputs (111, 169 vbytes), the target postage and the maximum postage.   *)
(* At 1.4 sats per vbyte the parts of a fee round down and the whole up:   *)
(* 266 is then exactly what an output of 300 lacks to stay above dust, and *)
(* 10756 the most a commit output keeps without giving change.             *)
(***************************************************************************)
EXTENDS WalletCommands

MCOutPoint == 1 .. 3
MCLate == {3}
MCFeeRate == {10, 14}
MCOffsets == {0, 400}
MCRecipientScripts == Script

Plain(v) == [value |-> v, inscribed |-> {}, cunes |-> FALSE]
MCCoins ==
  {Plain(v) : v \in {266, 300, 10756, 45000}} \cup
  {[value |-> 10000, inscribed |-> {0}, cunes |-> FALSE],
   [value |-> 700, inscribed |-> {300}, cunes |-> FALSE],
   [value |-> 21000, inscribed |-> {}, cunes |-> TRUE]}
=============================================================================
