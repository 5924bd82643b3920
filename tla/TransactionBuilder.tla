------------------------ MODULE TransactionBuilder ------------------------
(***************************************************************************)
(* The construction of a transaction that sends one sat                    *)
(* (src/src/subcommand/wallet/transaction_builder.rs).  The Rust type is a *)
(* chain of methods `self -> Self`, each of which changes the inputs and   *)
(* outputs the ones before it made:                                        *)
(*                                                                         *)
(*   select_outgoing -> align_outgoing -> pad_alignment_output             *)
(*     -> add_value -> strip_value -> deduct_fee -> build                  *)
(*                                                                         *)
(* Each method is an action.  build changes nothing: it asserts what the   *)
(* others were to establish, and panics when an assertion fails.           *)
(*                                                                         *)
(* A transaction has at most an alignment output, the recipient's output   *)
(* and a change output, and at most a padding input, the outgoing one and  *)
(* one that adds value, so sums are taken over three positions.  Values    *)
(* are in sats; they stay far below 2^63, so checked_add does not fail.    *)
(***************************************************************************)
EXTENDS Integers, Sequences

CONSTANTS
  OutPoint,        \* the outputs of the wallet, numbers in their order
  FeeRate          \* tenths of a sat per virtual byte

ASSUME BuilderAssumption ==
  /\ OutPoint \subseteq Nat
  /\ FeeRate \subseteq Nat

VARIABLES
  args,            \* what build_transaction_with_* is called with
  phase,           \* the method to run next
  utxos,           \* outputs of the wallet that are not yet used
  inputs,          \* outpoints, in order
  outputs,         \* [address, value], in order
  unused_change    \* change addresses that are not yet used

builder_vars == <<args, phase, utxos, inputs, outputs, unused_change>>
----------------------------------------------------------------------------
(* Addresses, their scripts, and what the bitcoin library says of them.    *)
Script == {"p2pkh", "p2wpkh", "p2tr"}
Address == {"recipient", "change0", "change1"}
DustValue == [p2pkh |-> 546, p2wpkh |-> 294, p2tr |-> 330]
TxOutSize == [p2pkh |-> 34, p2wpkh |-> 31, p2tr |-> 43]

ADDITIONAL_INPUT_VBYTES == 58
ADDITIONAL_OUTPUT_VBYTES == 43
MAX_POSTAGE == 20000
TARGET_POSTAGE == 10000

SatPoint == [outpoint : OutPoint, offset : Nat]
Target == [postage : BOOLEAN, value : Nat]

(* The arguments: the values of the wallet's outputs, the satpoints with   *)
(* an inscription, the outputs with cunes, the sat to send, ...            *)
ArgsOK ==
  /\ DOMAIN args.amounts \subseteq OutPoint
  /\ args.amounts \in [DOMAIN args.amounts -> Nat]
  /\ args.inscriptions \subseteq SatPoint
  /\ args.dunic_utxos \subseteq OutPoint
  /\ args.outgoing \in SatPoint
  /\ args.target \in Target
  /\ args.fee_rate \in FeeRate
  /\ args.script \in [Address -> Script]

Dust(a) == DustValue[args.script[a]]
----------------------------------------------------------------------------
(* Sizes and fees.  An input signs with one Schnorr signature.             *)
(* The fee is the product rounded to the nearest sat, halves upwards.      *)
Fee(vsize) == (2 * args.fee_rate * vsize + 10) \div 20

SizeOf(outs, i) ==
  IF i \in DOMAIN outs THEN TxOutSize[args.script[outs[i].address]] ELSE 0

VsizeOf(ins, outs) ==
  LET base == 10 + 41 * Len(ins)
                 + SizeOf(outs, 1) + SizeOf(outs, 2) + SizeOf(outs, 3)
  IN  (4 * base + 2 + 66 * Len(ins) + 3) \div 4

EstimateVbytes == VsizeOf(inputs, outputs)
EstimateFee == Fee(EstimateVbytes)

InputValue(i) == IF i \in DOMAIN inputs THEN args.amounts[inputs[i]] ELSE 0
OutputValue(i) == IF i \in DOMAIN outputs THEN outputs[i].value ELSE 0
TotalInput == InputValue(1) + InputValue(2) + InputValue(3)
TotalOutput == OutputValue(1) + OutputValue(2) + OutputValue(3)
InputsBefore(k) == (IF k > 1 THEN InputValue(1) ELSE 0)
                     + (IF k > 2 THEN InputValue(2) ELSE 0)
OutputsBefore(k) == (IF k > 1 THEN OutputValue(1) ELSE 0)
                     + (IF k > 2 THEN OutputValue(2) ELSE 0)

(* Where the outgoing sat is among the sats of the inputs.                 *)
OutgoingInput == CHOOSE i \in DOMAIN inputs : inputs[i] = args.outgoing.outpoint
SatOffset == InputsBefore(OutgoingInput) + args.outgoing.offset

Last == outputs[Len(outputs)]
WithLast(value) == [outputs EXCEPT ![Len(outputs)].value = value]
NextChange == unused_change[Len(unused_change)]
WithoutNextChange == SubSeq(unused_change, 1, Len(unused_change) - 1)

(* select_cardinal_utxo: the first output, in the order of outpoints, that *)
(* holds no inscription and no cune and is large enough.                   *)
CardinalOrDunic(o) == \A s \in args.inscriptions : s.outpoint # o  \* a mutant

Cardinal(o) == /\ \A s \in args.inscriptions : s.outpoint # o
               /\ o \notin args.dunic_utxos

LargeEnough(minimum) == {o \in utxos : Cardinal(o) /\ args.amounts[o] >= minimum}
SelectCardinal(minimum) ==
  CHOOSE o \in LargeEnough(minimum) : \A p \in LargeEnough(minimum) : o <= p
----------------------------------------------------------------------------
(* build_transaction_with_value refuses a value below the recipient's      *)
(* dust; both functions start from an empty transaction.                   *)
Start(a) ==
  /\ args' = a
  /\ phase' = IF ~a.target.postage /\ a.target.value < DustValue[a.script["recipient"]]
                THEN "rejected" ELSE "select_outgoing"
  /\ utxos' = DOMAIN a.amounts
  /\ inputs' = <<>>
  /\ outputs' = <<>>
  /\ unused_change' = <<"change0", "change1">>

Goto(from, to) == phase = from /\ phase' = to /\ UNCHANGED args

Reject(from) ==
  Goto(from, "rejected") /\ UNCHANGED <<utxos, inputs, outputs, unused_change>>

Panic(from) ==
  Goto(from, "panicked") /\ UNCHANGED <<utxos, inputs, outputs, unused_change>>

Sendable ==
  /\ \A s \in args.inscriptions :
       s.outpoint = args.outgoing.outpoint => s.offset = args.outgoing.offset
  /\ args.outgoing.outpoint \in DOMAIN args.amounts
  /\ args.outgoing.offset < args.amounts[args.outgoing.outpoint]

SelectOutgoing ==
  \/ /\ Goto("select_outgoing", "align_outgoing")
     /\ Sendable
     /\ utxos' = utxos \ {args.outgoing.outpoint}
     /\ inputs' = Append(inputs, args.outgoing.outpoint)
     /\ outputs' = Append(outputs, [address |-> "recipient",
                                    value |-> args.amounts[args.outgoing.outpoint]])
     /\ UNCHANGED unused_change
  \/ Reject("select_outgoing") /\ ~Sendable

(* The sats before the outgoing one go to a change output of their own.    *)
AlignOutgoing ==
  /\ Goto("align_outgoing", "pad_alignment_output")
  /\ IF SatOffset = 0
       THEN UNCHANGED <<outputs, unused_change>>
       ELSE /\ outputs' = <<[address |-> NextChange, value |-> SatOffset]>>
                             \o WithLast(Last.value - SatOffset)
            /\ unused_change' = WithoutNextChange
  /\ UNCHANGED <<utxos, inputs>>

(* An alignment output below dust gets an input of its own, before the     *)
(* others.  The limit is that of the recipient's script.                   *)
NeedsPadding == /\ outputs[1].address # "recipient"
                /\ outputs[1].value < Dust("recipient")

PadAlignmentOutput ==
  LET minimum == Dust("recipient") - outputs[1].value
      utxo == SelectCardinal(minimum)
  IN  \/ /\ Goto("pad_alignment_output", "add_value")
         /\ ~NeedsPadding
         /\ UNCHANGED <<utxos, inputs, outputs, unused_change>>
      \/ /\ Goto("pad_alignment_output", "add_value")
         /\ NeedsPadding
         /\ LargeEnough(minimum) # {}
         /\ utxos' = utxos \ {utxo}
         /\ inputs' = <<utxo>> \o inputs
         /\ outputs' = [outputs EXCEPT ![1].value = @ + args.amounts[utxo]]
         /\ UNCHANGED unused_change
      \/ /\ Reject("pad_alignment_output")
         /\ NeedsPadding
         /\ LargeEnough(minimum) = {}

(* What the recipient's output lacks to pay the fee and keep its minimum   *)
(* comes from one more input, whose own fee is counted apart.              *)
MinimumValue == IF args.target.postage THEN Dust("recipient") ELSE args.target.value
Deficit == MinimumValue + EstimateFee - Last.value
NeededForOutputs == Deficit  \* a mutant: the input does not pay for itself
Needed == Deficit + Fee(ADDITIONAL_INPUT_VBYTES)

AddValue ==
  LET utxo == SelectCardinal(Needed)
  IN  \/ /\ Goto("add_value", "strip_value")
         /\ Deficit <= 0
         /\ UNCHANGED <<utxos, inputs, outputs, unused_change>>
      \/ /\ Goto("add_value", "strip_value")
         /\ Deficit > 0
         /\ LargeEnough(Needed) # {}
         /\ utxos' = utxos \ {utxo}
         /\ inputs' = Append(inputs, utxo)
         /\ outputs' = WithLast(Last.value + args.amounts[utxo])
         /\ UNCHANGED unused_change
      \/ /\ Reject("add_value")
         /\ Deficit > 0
         /\ LargeEnough(Needed) = {}

(* What the recipient would get beyond the target goes to a change output  *)
(* when it is worth one.                                                   *)
MaxValue == IF args.target.postage THEN MAX_POSTAGE ELSE args.target.value
TargetValue == IF args.target.postage THEN TARGET_POSTAGE ELSE args.target.value

WorthChange(value) ==
  /\ value - EstimateFee > MaxValue
  /\ value - TargetValue
       > Dust(NextChange) + Fee(EstimateVbytes + ADDITIONAL_OUTPUT_VBYTES)

StripValue ==
  LET value == TotalOutput - SatOffset
  IN  /\ Goto("strip_value", "deduct_fee")
      /\ IF WorthChange(value)
           THEN /\ outputs' = Append(WithLast(TargetValue),
                                     [address |-> NextChange, value |-> value - TargetValue])
                /\ unused_change' = WithoutNextChange
           ELSE UNCHANGED <<outputs, unused_change>>
      /\ UNCHANGED <<utxos, inputs>>

CanDeductFee == /\ TotalOutput - EstimateFee > SatOffset
                /\ Last.value >= EstimateFee

DeductFee ==
  \/ /\ Goto("deduct_fee", "build")
     /\ CanDeductFee
     /\ outputs' = WithLast(Last.value - EstimateFee)
     /\ UNCHANGED <<utxos, inputs, unused_change>>
  \/ Panic("deduct_fee") /\ ~CanDeductFee
----------------------------------------------------------------------------
(* The assertions of build, by the name of what they are about.            *)
SpendsOutgoingOnce ==
  \E i \in DOMAIN inputs : /\ inputs[i] = args.outgoing.outpoint
                           /\ \A j \in DOMAIN inputs \ {i} : inputs[j] # inputs[i]

(* The first output that ends after the outgoing sat.                      *)
HoldsOutgoing(k) == /\ OutputsBefore(k) <= SatOffset
                    /\ OutputsBefore(k) + OutputValue(k) > SatOffset

SentToRecipient ==
  \E k \in DOMAIN outputs : HoldsOutgoing(k) /\ outputs[k].address = "recipient"

AddressesDiffer ==
  /\ \E k \in DOMAIN outputs : outputs[k].address = "recipient"
  /\ \A j, k \in DOMAIN outputs : outputs[j].address = outputs[k].address => j = k

SatComesFirst ==
  \A k \in DOMAIN outputs :
    outputs[k].address = "recipient" => OutputsBefore(k) = SatOffset

Slop == Fee(ADDITIONAL_OUTPUT_VBYTES)
LargestChangeDust == IF Dust("change0") > Dust("change1") THEN Dust("change0") ELSE Dust("change1")

LargestValue ==
  IF args.target.postage THEN MAX_POSTAGE ELSE args.target.value + LargestChangeDust

ValueIsOnTarget ==
  \A k \in DOMAIN outputs :
    outputs[k].address = "recipient" =>
      /\ outputs[k].value <= LargestValue + Slop
      /\ args.target.postage \/ outputs[k].value >= args.target.value

FeeIsEstimated == TotalInput - TotalOutput = EstimateFee

AboveDust == \A k \in DOMAIN outputs : outputs[k].value >= Dust(outputs[k].address)

Assertions ==
  /\ SpendsOutgoingOnce
  /\ SentToRecipient
  /\ AddressesDiffer
  /\ SatComesFirst
  /\ ValueIsOnTarget
  /\ FeeIsEstimated
  /\ AboveDust

Build ==
  \/ /\ Goto("build", "built")
     /\ Assertions
     /\ UNCHANGED <<utxos, inputs, outputs, unused_change>>
  \/ Panic("build") /\ ~Assertions

BuilderStep ==
  \/ SelectOutgoing
  \/ AlignOutgoing
  \/ PadAlignmentOutput
  \/ AddValue
  \/ StripValue
  \/ DeductFee
  \/ Build
=============================================================================
