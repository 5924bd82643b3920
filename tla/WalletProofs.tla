---------------------------- MODULE WalletProofs ----------------------------
(***************************************************************************)
(* What the wallet's commands may spend, for any wallet, any index and any *)
(* fee rates.  The steps of the builder change inputs and outputs that the *)
(* steps before them made: the invariant says, phase by phase, how many    *)
(* there are and where each input comes from.  The last part is about the  *)
(* values: that each method leaves what the assertions of build demand.    *)
(***************************************************************************)
EXTENDS WalletCommands, SequenceTheorems, WellFoundedInduction, TLAPS

Output == [address : Address, value : Nat]

(* The phases between the choice of the outgoing sat and the last message  *)
(* to the node.                                                            *)
Chosen == BuilderPhases \cup {"built", "backup", "commit", "reveal"}

(* The builder is given the whole index and the outputs that are listed.   *)
ArgsInv == phase \in Chosen =>
  /\ ArgsOK
  /\ DOMAIN args.amounts = listed
  /\ args.inscriptions = InscribedIn(indexed)
  /\ args.dunic_utxos = Dunic(listed)
  /\ listed \subseteq indexed
  /\ command.kind \in {"send_inscription", "send_satpoint", "inscribe"}
  /\ command.kind = "send_satpoint" => args.outgoing \notin InscribedIn(indexed)
  /\ command.kind = "inscribe" => /\ args.outgoing.outpoint \notin Inscribed(indexed)
                                  /\ args.target = CommitTarget

(* An input is the outgoing output, or holds nothing but its value.        *)
InputsInv == phase \in Chosen \ {"select_outgoing"} =>
  /\ Sendable
  /\ \A i \in DOMAIN inputs :
       /\ inputs[i] \in listed
       /\ inputs[i] = args.outgoing.outpoint \/ Cardinal(inputs[i])
  /\ \E i \in DOMAIN inputs : inputs[i] = args.outgoing.outpoint

(* How many inputs, outputs and addresses each method finds.               *)
ShapeInv ==
  /\ phase \in BuilderPhases => utxos \subseteq DOMAIN args.amounts
  /\ phase = "select_outgoing" =>
       inputs = << >> /\ outputs = << >> /\ Len(unused_change) = 2
  /\ phase = "align_outgoing" =>
       /\ Len(inputs) = 1 /\ Len(outputs) = 1 /\ Len(unused_change) = 2
       /\ outputs[1].value = args.amounts[args.outgoing.outpoint]
  /\ phase \in {"pad_alignment_output", "add_value", "strip_value"} =>
       Len(outputs) >= 1 /\ Len(outputs) <= 2 /\ Len(unused_change) >= 1
  /\ phase = "pad_alignment_output" => Len(inputs) = 1
  /\ phase = "add_value" => Len(inputs) <= 2
  /\ phase \in {"deduct_fee", "build"} => Len(outputs) >= 1

(* The order of a command's steps.                                         *)
OrderInv ==
  /\ phase = "idle" \/ command # << >>
  /\ phase \in Phases \ {"reveal", "done", "rejected"} => sent = {}
  /\ phase = "choose" => listed \subseteq indexed
  /\ phase \in {"backup", "commit", "reveal"} => command.kind = "inscribe"
  /\ phase = "commit" => command.no_backup \/ imported
  /\ phase = "lock_unspent" => command.kind = "etch"
  /\ phase = "fund" => command.kind \in {"send_amount", "send_cunes", "etch"}
  /\ phase = "fund" /\ command.kind = "etch" => Inscribed(indexed) \subseteq locked
  /\ command # << >> /\ command.kind \in {"send_inscription", "send_satpoint"} =>
       command.satpoint \in SatPoint

-----------------------------------------------------------------------------
(* Sets of numbers have a least element, so that the choice of the first   *)
(* output that will do is a choice among those.                            *)
LEMMA LeastElement ==
  ASSUME NEW S \in SUBSET Nat, S # {}
  PROVE  \E o \in S : \A p \in S : o <= p
<1>1. PICK o \in S : \A p \in S : ~ <<p, o>> \in OpToRel(<, Nat)
  BY WFMin, NatLessThanWellFounded
<1>2. \A p \in S : ~ (p < o)
  BY <1>1 DEF OpToRel
<1> QED BY <1>2

LEMMA SelectCardinalType ==
  ASSUME utxos \subseteq OutPoint, NEW minimum, LargeEnough(minimum) # {}
  PROVE  /\ SelectCardinal(minimum) \in utxos
         /\ Cardinal(SelectCardinal(minimum))
<1>1. LargeEnough(minimum) \in SUBSET Nat
  BY BuilderAssumption DEF LargeEnough
<1>2. \E o \in LargeEnough(minimum) : \A p \in LargeEnough(minimum) : o <= p
  BY <1>1, LeastElement
<1>3. SelectCardinal(minimum) \in LargeEnough(minimum)
  BY <1>2 DEF SelectCardinal
<1> QED BY <1>3 DEF LargeEnough

LEMMA FirstCardinalType ==
  ASSUME listed \subseteq OutPoint, Cardinals # {}
  PROVE  FirstCardinal \in OutPoint
<1>1. Cardinals \in SUBSET Nat
  BY BuilderAssumption DEF Cardinals
<1>2. \E o \in Cardinals : \A p \in Cardinals : o <= p
  BY <1>1, LeastElement
<1>3. FirstCardinal \in Cardinals
  BY <1>2 DEF FirstCardinal
<1> QED BY <1>3 DEF Cardinals

(* An inscription on an output of O.                                       *)
LEMMA InscribedInMembers ==
  ASSUME NEW O, NEW s
  PROVE  s \in InscribedIn(O) <=>
           \E o \in O : \E k \in coin[o].inscribed : s = [outpoint |-> o, offset |-> k]
BY DEF InscribedIn

LEMMA InscribedInType ==
  ASSUME coin \in [OutPoint -> Coins], NEW O \in SUBSET OutPoint
  PROVE  InscribedIn(O) \subseteq SatPoint
<1> SUFFICES ASSUME NEW s \in InscribedIn(O) PROVE s \in SatPoint
  OBVIOUS
<1>1. PICK o \in O : \E k \in coin[o].inscribed : s = [outpoint |-> o, offset |-> k]
  BY InscribedInMembers
<1>2. PICK k \in coin[o].inscribed : s = [outpoint |-> o, offset |-> k]
  BY <1>1
<1>3. coin[o].inscribed \in SUBSET Nat
  BY WalletAssumption
<1> QED BY <1>2, <1>3 DEF SatPoint

-----------------------------------------------------------------------------
(* Dust limits, sizes and fees are numbers.                                *)
LEMMA DustType ==
  /\ \A s \in Script : DustValue[s] \in Nat /\ TxOutSize[s] \in Nat
  /\ \A a \in Address : ArgsOK => args.script[a] \in Script /\ Dust(a) \in Nat
<1>1. \A s \in Script : DustValue[s] \in Nat /\ TxOutSize[s] \in Nat
  BY DEF Script, DustValue, TxOutSize
<1> QED BY <1>1 DEF Dust, ArgsOK

LEMMA FeeType ==
  ASSUME ArgsOK, NEW v \in Nat
  PROVE  Fee(v) \in Nat
<1>1. args.fee_rate \in Nat
  BY BuilderAssumption DEF ArgsOK
<1>2. 2 * args.fee_rate * v \in Nat
  BY <1>1
<1> HIDE <1>1
<1> DEFINE n == 2 * args.fee_rate * v
<1>3. \A m \in Nat : (m + 10) \div 20 \in Nat
  OBVIOUS
<1> QED BY <1>2, <1>3 DEF Fee

LEMMA SizeType ==
  ASSUME ArgsOK, outputs \in Seq(Output), inputs \in Seq(OutPoint)
  PROVE  EstimateVbytes \in Nat /\ EstimateFee \in Nat
<1>1. ASSUME NEW i PROVE SizeOf(outputs, i) \in Nat
  <2>1. CASE i \in DOMAIN outputs
    <3>1. outputs[i] \in Output
      BY <2>1
    <3>2. args.script[outputs[i].address] \in Script
      BY <3>1, DustType DEF Output
    <3> QED BY <2>1, <3>2, DustType DEF SizeOf
  <2> QED BY <2>1 DEF SizeOf
<1>2. /\ Len(inputs) \in Nat /\ SizeOf(outputs, 1) \in Nat
      /\ SizeOf(outputs, 2) \in Nat /\ SizeOf(outputs, 3) \in Nat
  BY <1>1
<1>3. EstimateVbytes \in Nat
  <2> DEFINE base == 10 + 41 * Len(inputs) + SizeOf(outputs, 1) + SizeOf(outputs, 2)
                        + SizeOf(outputs, 3)
  <2>1. base \in Nat /\ 66 * Len(inputs) \in Nat
    BY ONLY <1>2
  <2> HIDE DEF base
  <2>2. (4 * base + 2 + 66 * Len(inputs) + 3) \in Nat
    BY ONLY <2>1
  <2>3. \A n \in Nat : n \div 4 \in Nat
    OBVIOUS
  <2> QED BY ONLY <2>2, <2>3 DEF EstimateVbytes, VsizeOf, base
<1> QED BY <1>3, FeeType DEF EstimateFee

(* The value of an input and of an output is a number, and so is the place *)
(* of the outgoing sat.                                                    *)
LEMMA ValueType ==
  ASSUME ArgsOK, outputs \in Seq(Output),
         \A i \in DOMAIN inputs : inputs[i] \in DOMAIN args.amounts,
         \E i \in DOMAIN inputs : inputs[i] = args.outgoing.outpoint
  PROVE  SatOffset \in Nat /\ TotalOutput \in Nat
<1>1. \A i : InputValue(i) \in Nat
  BY DEF InputValue, ArgsOK
<1>2. \A i : OutputValue(i) \in Nat
  <2> SUFFICES ASSUME NEW i \in DOMAIN outputs PROVE outputs[i].value \in Nat
    BY DEF OutputValue
  <2>1. outputs[i] \in Output
    OBVIOUS
  <2> QED BY <2>1 DEF Output
<1>3. args.outgoing.offset \in Nat
  BY DEF ArgsOK, SatPoint
<1>4. InputsBefore(OutgoingInput) \in Nat
  <2>1. InputValue(1) \in Nat /\ InputValue(2) \in Nat
    BY <1>1
  <2> QED BY ONLY <2>1 DEF InputsBefore
<1>5. OutputValue(1) \in Nat /\ OutputValue(2) \in Nat /\ OutputValue(3) \in Nat
  BY <1>2
<1> QED BY ONLY <1>3, <1>4, <1>5 DEF SatOffset, TotalOutput

-----------------------------------------------------------------------------
(* The last output with another value.                                     *)
LEMMA WithLastType ==
  ASSUME outputs \in Seq(Output), Len(outputs) >= 1, NEW v \in Nat
  PROVE  /\ WithLast(v) \in Seq(Output) /\ Len(WithLast(v)) = Len(outputs)
         /\ Last \in Output
<1>1. Len(outputs) \in DOMAIN outputs /\ outputs[Len(outputs)] \in Output
  OBVIOUS
<1>2. [outputs[Len(outputs)] EXCEPT !.value = v] \in Output
  BY <1>1 DEF Output
<1>3. WithLast(v) = [outputs EXCEPT ![Len(outputs)] = [outputs[Len(outputs)] EXCEPT !.value = v]]
  BY DEF WithLast
<1>4. WithLast(v) \in Seq(Output) /\ Len(WithLast(v)) = Len(outputs)
  BY <1>1, <1>2, <1>3, ExceptSeq
<1> QED BY <1>1, <1>4 DEF Last

LEMMA PrefixType ==
  ASSUME NEW S, NEW s \in Seq(S), NEW n \in Nat, n <= Len(s)
  PROVE  SubSeq(s, 1, n) \in Seq(S) /\ Len(SubSeq(s, 1, n)) = n
OBVIOUS

(* The next change address, and the list without it.                       *)
LEMMA ChangeType ==
  ASSUME unused_change \in Seq(Address), Len(unused_change) >= 1
  PROVE  /\ NextChange \in Address
         /\ WithoutNextChange \in Seq(Address)
         /\ Len(WithoutNextChange) = Len(unused_change) - 1
<1>1. Len(unused_change) \in 1 .. Len(unused_change)
  OBVIOUS
<1>2. NextChange \in Address
  BY <1>1 DEF NextChange
<1>4. /\ SubSeq(unused_change, 1, Len(unused_change) - 1) \in Seq(Address)
      /\ Len(SubSeq(unused_change, 1, Len(unused_change) - 1)) = Len(unused_change) - 1
  <2>1. Len(unused_change) - 1 \in Nat /\ Len(unused_change) - 1 <= Len(unused_change)
    OBVIOUS
  <2> QED BY <2>1, PrefixType
<1> QED BY <1>2, <1>4 DEF WithoutNextChange

-----------------------------------------------------------------------------
(* The builder's own variables keep their types.                           *)
BuilderTypes ==
  /\ utxos \in SUBSET OutPoint
  /\ inputs \in Seq(OutPoint) /\ Len(inputs) <= 3
  /\ outputs \in Seq(Output) /\ Len(outputs) <= 3
  /\ unused_change \in Seq(Address) /\ Len(unused_change) <= 2

BuilderInv == BuilderTypes /\ ArgsInv /\ InputsInv /\ ShapeInv

(* The types of everything else.                                           *)
NodeTypes ==
  /\ coin \in [OutPoint -> Coins]
  /\ confirmed \in SUBSET OutPoint
  /\ spent \in SUBSET confirmed
  /\ locked \in SUBSET confirmed
  /\ indexed \in SUBSET confirmed
  /\ listed \in SUBSET confirmed
  /\ command \in Command \cup {<< >>}
  /\ imported \in BOOLEAN
  /\ sent \in SUBSET Transaction
  /\ phase \in Phases

(* What a step of the builder leaves alone.                                *)
RestKept == UNCHANGED <<chain_vars, node_vars, indexed, command_vars>>

(* What a command promises.                                                *)
Promises == UnmentionedAssetsStay /\ CommitIsRecoverable /\ RevealKeepsPostage

WalletInv == NodeTypes /\ BuilderInv /\ OrderInv /\ Promises

(* The two halves of the types are the type invariant of the module.       *)
LEMMA TypesMeet ==
  /\ NodeTypes /\ BuilderInv => TypeOK
  /\ BuilderInv /\ phase \in BuilderPhases => ArgsOK
BY DEF NodeTypes, BuilderInv, BuilderTypes, ArgsInv, Chosen, TypeOK, Output

LEMMA ArgsKept ==
  ASSUME ArgsInv, phase \in Chosen, RestKept, UNCHANGED args
  PROVE  ArgsInv'
BY DEF ArgsInv, RestKept, chain_vars, node_vars, command_vars, ArgsOK, InscribedIn,
       Inscribed, Dunic, CommitTarget, RevealFee

(* A command that ends leaves the transaction as it is.                    *)
LEMMA BuilderEnds ==
  ASSUME BuilderTypes, phase' \notin Chosen,
         UNCHANGED <<utxos, inputs, outputs, unused_change>>
  PROVE  BuilderInv'
BY DEF BuilderInv, BuilderTypes, ArgsInv, InputsInv, ShapeInv, Chosen, BuilderPhases

(* What holds in each phase of the builder.                                *)
LEMMA BuilderFacts ==
  ASSUME BuilderInv, phase \in BuilderPhases
  PROVE  /\ ArgsOK /\ DOMAIN args.amounts = listed /\ listed \subseteq OutPoint
         /\ args.amounts \in [listed -> Nat]
         /\ phase # "select_outgoing" =>
              /\ \A i \in DOMAIN inputs : inputs[i] \in DOMAIN args.amounts
              /\ \E i \in DOMAIN inputs : inputs[i] = args.outgoing.outpoint
<1>1. phase \in Chosen
  BY DEF Chosen
<1> QED BY <1>1 DEF BuilderInv, ArgsInv, InputsInv, ArgsOK

-----------------------------------------------------------------------------
(* The steps of the builder, in their order.                               *)
LEMMA SelectOutgoingStep ==
  ASSUME BuilderInv, SelectOutgoing, RestKept
  PROVE  BuilderInv'
<1>1. CASE Reject("select_outgoing")
  <2>1. phase' \notin Chosen
    BY <1>1 DEF Reject, Goto, Chosen, BuilderPhases
  <2> QED BY <1>1, <2>1, BuilderEnds DEF Reject, BuilderInv
<1>2. CASE ~ Reject("select_outgoing")
  <2> DEFINE o == args.outgoing.outpoint
  <2>1. /\ phase = "select_outgoing" /\ phase' = "align_outgoing" /\ args' = args
        /\ Sendable /\ utxos' = utxos \ {o} /\ inputs' = Append(inputs, o)
        /\ outputs' = Append(outputs, [address |-> "recipient", value |-> args.amounts[o]])
        /\ unused_change' = unused_change
    BY <1>2 DEF SelectOutgoing, Goto
  <2>2. phase \in BuilderPhases /\ phase \in Chosen
    BY <2>1 DEF BuilderPhases, Chosen
  <2>3. o \in listed /\ o \in OutPoint /\ args.amounts[o] \in Nat
    BY <2>1, <2>2, BuilderFacts DEF Sendable
  <2>4. inputs = << >> /\ outputs = << >> /\ Len(unused_change) = 2
    BY <2>1 DEF BuilderInv, ShapeInv
  <2>5. inputs' = <<o>> /\ outputs' = <<[address |-> "recipient", value |-> args.amounts[o]]>>
    BY <2>1, <2>4
  <2>6. [address |-> "recipient", value |-> args.amounts[o]] \in Output
    BY <2>3 DEF Output, Address
  <2>7. BuilderTypes'
    BY <2>1, <2>3, <2>5, <2>6 DEF BuilderInv, BuilderTypes
  <2>8. ArgsInv'
    BY <2>1, <2>2, ArgsKept DEF BuilderInv
  <2>9. InputsInv'
    <3>1. Sendable' /\ listed' = listed
      BY <2>1 DEF Sendable, RestKept, command_vars
    <3>2. DOMAIN inputs' = {1} /\ inputs'[1] = o
      BY <2>5
    <3> QED BY <3>1, <3>2, <2>1, <2>3 DEF InputsInv
  <2>10. ShapeInv'
    BY <2>1, <2>2, <2>4, <2>5 DEF BuilderInv, ShapeInv
  <2> QED BY <2>7, <2>8, <2>9, <2>10 DEF BuilderInv
<1> QED BY <1>1, <1>2

(* Inputs that stay as they are.                                           *)
LEMMA InputsKept ==
  ASSUME InputsInv, phase \in Chosen \ {"select_outgoing"}, RestKept,
         UNCHANGED <<args, inputs>>
  PROVE  InputsInv'
BY DEF InputsInv, RestKept, command_vars, Sendable, Cardinal

LEMMA AlignOutgoingStep ==
  ASSUME BuilderInv, AlignOutgoing, RestKept
  PROVE  BuilderInv'
<1>1. phase = "align_outgoing" /\ phase' = "pad_alignment_output" /\ args' = args
      /\ utxos' = utxos /\ inputs' = inputs
  BY DEF AlignOutgoing, Goto
<1>2. phase \in BuilderPhases /\ phase \in Chosen \ {"select_outgoing"}
  BY <1>1 DEF BuilderPhases, Chosen
<1>3. /\ Len(inputs) = 1 /\ Len(outputs) = 1 /\ Len(unused_change) = 2
      /\ outputs[1].value = args.amounts[args.outgoing.outpoint]
      /\ utxos \subseteq DOMAIN args.amounts
  BY <1>1, <1>2 DEF BuilderInv, ShapeInv
<1>4. ArgsInv' /\ InputsInv'
  BY <1>1, <1>2, ArgsKept, InputsKept DEF BuilderInv
<1>5. /\ outputs' \in Seq(Output) /\ 1 <= Len(outputs') /\ Len(outputs') <= 2
      /\ unused_change' \in Seq(Address)
      /\ 1 <= Len(unused_change') /\ Len(unused_change') <= 2
  <2>1. CASE SatOffset = 0
    <3>1. outputs' = outputs /\ unused_change' = unused_change
      BY <2>1 DEF AlignOutgoing
    <3>2. outputs \in Seq(Output) /\ unused_change \in Seq(Address)
      BY DEF BuilderInv, BuilderTypes
    <3>3. Len(outputs) = 1 /\ Len(unused_change) = 2
      BY <1>3
    <3>4. outputs' \in Seq(Output) /\ 1 <= Len(outputs') /\ Len(outputs') <= 2
      BY ONLY <3>1, <3>2, <3>3
    <3>5. /\ unused_change' \in Seq(Address)
          /\ 1 <= Len(unused_change') /\ Len(unused_change') <= 2
      BY ONLY <3>1, <3>2, <3>3
    <3> QED BY ONLY <3>4, <3>5
  <2>2. CASE SatOffset # 0
    <3>1. SatOffset = args.outgoing.offset
      <4>1. OutgoingInput = 1
        <5>1. DOMAIN inputs = {1} /\ \E i \in DOMAIN inputs : inputs[i] = args.outgoing.outpoint
          BY <1>2, <1>3, BuilderFacts, <1>1 DEF BuilderInv, BuilderTypes
        <5> QED BY <5>1 DEF OutgoingInput
      <4>2. args.outgoing.offset \in Nat
        BY <1>2, BuilderFacts DEF ArgsOK, SatPoint
      <4> QED BY <4>1, <4>2 DEF SatOffset, InputsBefore
    <3>2. /\ args.outgoing.offset < args.amounts[args.outgoing.outpoint]
          /\ args.amounts[args.outgoing.outpoint] \in Nat /\ args.outgoing.offset \in Nat
      BY <1>2, BuilderFacts DEF BuilderInv, InputsInv, Sendable, ArgsOK, SatPoint
    <3>3. Last.value - SatOffset \in Nat /\ SatOffset \in Nat
      BY <3>1, <3>2, <1>3 DEF Last
    <3>4. /\ WithLast(Last.value - SatOffset) \in Seq(Output)
          /\ Len(WithLast(Last.value - SatOffset)) = 1
      BY <3>3, <1>3, WithLastType DEF BuilderInv, BuilderTypes
    <3>5. /\ NextChange \in Address /\ WithoutNextChange \in Seq(Address)
          /\ Len(WithoutNextChange) = 1
      BY <1>3, ChangeType DEF BuilderInv, BuilderTypes
    <3> DEFINE first == <<[address |-> NextChange, value |-> SatOffset]>>
    <3>6. first \in Seq(Output) /\ Len(first) = 1
      BY <3>3, <3>5 DEF Output
    <3>7. outputs' = first \o WithLast(Last.value - SatOffset)
          /\ unused_change' = WithoutNextChange
      BY <2>2 DEF AlignOutgoing
    <3>8. outputs' \in Seq(Output) /\ Len(outputs') = 2
      BY <3>4, <3>6, <3>7, ConcatProperties
    <3> QED BY <3>5, <3>7, <3>8
  <2> QED BY <2>1, <2>2
<1>6. BuilderTypes'
  <2>1. utxos \in SUBSET OutPoint /\ inputs \in Seq(OutPoint) /\ Len(inputs) <= 3
    BY DEF BuilderInv, BuilderTypes
  <2>2. Len(outputs') <= 3 /\ Len(unused_change') <= 2
    BY <1>5
  <2> QED BY ONLY <2>1, <2>2, <1>1, <1>5 DEF BuilderTypes
<1>7. ShapeInv'
  <2>1. utxos' \subseteq DOMAIN (args').amounts
    BY <1>1, <1>3
  <2>2. Len(inputs') = 1
    BY <1>1, <1>3
  <2>3. Len(unused_change') >= 1
    BY <1>5
  <2>4. Len(outputs') >= 1 /\ Len(outputs') <= 2
    BY ONLY <1>5
  <2> QED BY ONLY <2>1, <2>2, <2>3, <2>4, <1>1 DEF ShapeInv
<1> QED BY <1>4, <1>6, <1>7 DEF BuilderInv

(* A cardinal output becomes one more input.                               *)
LEMMA InputsGrow ==
  ASSUME InputsInv, phase \in Chosen \ {"select_outgoing"}, RestKept, args' = args,
         NEW ins \in Seq(OutPoint), NEW utxo \in listed, Cardinal(utxo),
         inputs' = ins,
         \A i \in DOMAIN ins : ins[i] = utxo \/ \E j \in DOMAIN inputs : ins[i] = inputs[j],
         \A j \in DOMAIN inputs : \E i \in DOMAIN ins : ins[i] = inputs[j]
  PROVE  InputsInv'
<1>1. /\ Sendable
      /\ \A i \in DOMAIN inputs :
           /\ inputs[i] \in listed
           /\ inputs[i] = args.outgoing.outpoint \/ Cardinal(inputs[i])
      /\ \E i \in DOMAIN inputs : inputs[i] = args.outgoing.outpoint
  BY DEF InputsInv
<1>2. Sendable' /\ listed' = listed /\ \A o : Cardinal(o)' <=> Cardinal(o)
  BY <1>1 DEF RestKept, command_vars, Sendable, Cardinal
<1>3. \A i \in DOMAIN ins :
        /\ ins[i] \in listed
        /\ ins[i] = args.outgoing.outpoint \/ Cardinal(ins[i])
  BY <1>1
<1>4. \E i \in DOMAIN ins : ins[i] = args.outgoing.outpoint
  BY <1>1
<1> QED BY <1>2, <1>3, <1>4 DEF InputsInv

LEMMA PadAlignmentOutputStep ==
  ASSUME BuilderInv, PadAlignmentOutput, RestKept
  PROVE  BuilderInv'
<1> DEFINE minimum == Dust("recipient") - outputs[1].value
           utxo == SelectCardinal(minimum)
<1>0. phase = "pad_alignment_output"
  BY DEF PadAlignmentOutput, Reject, Goto
<1>1. phase \in BuilderPhases /\ phase \in Chosen \ {"select_outgoing"}
  BY <1>0 DEF BuilderPhases, Chosen
<1>2. /\ Len(inputs) = 1 /\ Len(outputs) >= 1 /\ Len(outputs) <= 2 /\ Len(unused_change) >= 1
      /\ utxos \subseteq DOMAIN args.amounts /\ utxos \subseteq listed
  BY <1>0, <1>1, BuilderFacts DEF BuilderInv, ShapeInv
<1>3. CASE Reject("pad_alignment_output")
  <2>1. phase' \notin Chosen
    BY <1>3 DEF Reject, Goto, Chosen, BuilderPhases
  <2> QED BY <1>3, <2>1, BuilderEnds DEF Reject, BuilderInv
<1>4. CASE /\ phase' = "add_value" /\ args' = args
           /\ UNCHANGED <<utxos, inputs, outputs, unused_change>>
  <2>1. ArgsInv' /\ InputsInv'
    BY <1>1, <1>4, ArgsKept, InputsKept DEF BuilderInv
  <2>2. BuilderTypes'
    BY <1>4 DEF BuilderInv, BuilderTypes
  <2>3. ShapeInv'
    BY <1>4, <1>2 DEF ShapeInv
  <2> QED BY <2>1, <2>2, <2>3 DEF BuilderInv
<1>5. CASE /\ phase' = "add_value" /\ args' = args /\ LargeEnough(minimum) # {}
           /\ utxos' = utxos \ {utxo} /\ inputs' = <<utxo>> \o inputs
           /\ outputs' = [outputs EXCEPT ![1].value = @ + args.amounts[utxo]]
           /\ unused_change' = unused_change
  <2>1. utxo \in utxos /\ Cardinal(utxo)
    BY <1>5, SelectCardinalType DEF BuilderInv, BuilderTypes
  <2>2. utxo \in listed /\ utxo \in OutPoint /\ args.amounts[utxo] \in Nat
    BY <2>1, <1>1, <1>2, BuilderFacts
  <2> HIDE DEF utxo, minimum
  <2> DEFINE ins == <<utxo>> \o inputs
  <2>3. inputs \in Seq(OutPoint)
    BY DEF BuilderInv, BuilderTypes
  <2>4. <<utxo>> \in Seq(OutPoint) /\ Len(<<utxo>>) = 1 /\ <<utxo>>[1] = utxo
    BY <2>2
  <2>5. /\ ins \in Seq(OutPoint) /\ Len(ins) = 2
        /\ ins[1] = utxo /\ ins[2] = inputs[1]
    <3> DEFINE one == <<utxo>>
    <3>1. one \in Seq(OutPoint) /\ Len(one) = 1 /\ one[1] = utxo
      BY <2>4
    <3> HIDE DEF one
    <3>2. /\ one \o inputs \in Seq(OutPoint)
          /\ Len(one \o inputs) = Len(one) + Len(inputs)
          /\ \A i \in 1 .. Len(one) + Len(inputs) :
               (one \o inputs)[i] = IF i <= Len(one) THEN one[i] ELSE inputs[i - Len(one)]
      BY ONLY <3>1, <2>3, ConcatProperties
    <3>3. ins = one \o inputs
      BY DEF one
    <3>4. Len(one) = 1 /\ Len(inputs) = 1
      BY <3>1, <1>2
    <3> QED BY ONLY <3>1, <3>2, <3>3, <3>4
  <2>6. inputs' = ins
    BY <1>5
  <2> HIDE DEF ins
  <2>7. DOMAIN ins = {1, 2} /\ DOMAIN inputs = {1}
    BY <2>3, <2>5, <1>2
  <2>8. InputsInv'
    BY <1>1, <1>5, <2>1, <2>2, <2>5, <2>6, <2>7, InputsGrow DEF BuilderInv
  <2>9. outputs' \in Seq(Output) /\ Len(outputs') = Len(outputs)
    <3>0. outputs \in Seq(Output)
      BY DEF BuilderInv, BuilderTypes
    <3>1. outputs \in Seq(Output) /\ 1 \in 1 .. Len(outputs)
      BY ONLY <3>0, <1>2
    <3>2. outputs[1] \in Output
      BY <3>1
    <3> DEFINE new == [outputs[1] EXCEPT !.value = @ + args.amounts[utxo]]
    <3>3. new \in Output
      BY <3>2, <2>2 DEF Output
    <3>4. outputs' = [outputs EXCEPT ![1] = new]
      BY <1>5
    <3> HIDE DEF new
    <3> QED BY <3>1, <3>3, <3>4, ExceptSeq
  <2>10. BuilderTypes'
    BY <1>2, <1>5, <2>5, <2>6, <2>9 DEF BuilderInv, BuilderTypes
  <2>11. ShapeInv'
    <3>1. utxos' \subseteq DOMAIN args'.amounts
      BY <1>2, <1>5
    <3> QED BY <3>1, <1>2, <1>5, <2>5, <2>6, <2>9 DEF ShapeInv
  <2>12. ArgsInv'
    BY <1>1, <1>5, ArgsKept DEF BuilderInv
  <2> QED BY <2>8, <2>10, <2>11, <2>12 DEF BuilderInv
<1> QED BY <1>3, <1>4, <1>5 DEF PadAlignmentOutput, Goto

LEMMA AddValueStep ==
  ASSUME BuilderInv, AddValue, RestKept
  PROVE  BuilderInv'
<1> DEFINE utxo == SelectCardinal(Needed)
<1>0. phase = "add_value"
  BY DEF AddValue, Reject, Goto
<1>1. phase \in BuilderPhases /\ phase \in Chosen \ {"select_outgoing"}
  BY <1>0 DEF BuilderPhases, Chosen
<1>2. /\ inputs \in Seq(OutPoint) /\ Len(inputs) <= 2
      /\ outputs \in Seq(Output) /\ Len(outputs) >= 1 /\ Len(outputs) <= 2 /\ Len(unused_change) >= 1
      /\ utxos \subseteq DOMAIN args.amounts /\ utxos \subseteq listed
  BY <1>0, <1>1, BuilderFacts DEF BuilderInv, BuilderTypes, ShapeInv
<1>3. CASE Reject("add_value")
  <2>1. phase' \notin Chosen
    BY <1>3 DEF Reject, Goto, Chosen, BuilderPhases
  <2> QED BY <1>3, <2>1, BuilderEnds DEF Reject, BuilderInv
<1>4. CASE /\ phase' = "strip_value" /\ args' = args
           /\ UNCHANGED <<utxos, inputs, outputs, unused_change>>
  <2>1. ArgsInv' /\ InputsInv'
    BY <1>1, <1>4, ArgsKept, InputsKept DEF BuilderInv
  <2>2. BuilderTypes'
    BY <1>4 DEF BuilderInv, BuilderTypes
  <2>3. ShapeInv'
    BY <1>4, <1>2 DEF ShapeInv
  <2> QED BY <2>1, <2>2, <2>3 DEF BuilderInv
<1>5. CASE /\ phase' = "strip_value" /\ args' = args /\ LargeEnough(Needed) # {}
           /\ utxos' = utxos \ {utxo} /\ inputs' = Append(inputs, utxo)
           /\ outputs' = WithLast(Last.value + args.amounts[utxo])
           /\ unused_change' = unused_change
  <2>1. utxo \in utxos /\ Cardinal(utxo)
    BY <1>5, SelectCardinalType DEF BuilderInv, BuilderTypes
  <2>2. utxo \in listed /\ utxo \in OutPoint /\ args.amounts[utxo] \in Nat
    BY <2>1, <1>1, <1>2, BuilderFacts
  <2> HIDE DEF utxo
  <2> DEFINE ins == Append(inputs, utxo)
  <2>3. /\ ins \in Seq(OutPoint) /\ Len(ins) = Len(inputs) + 1
        /\ \A i \in 1 .. Len(inputs) : ins[i] = inputs[i]
        /\ ins[Len(inputs) + 1] = utxo
    BY ONLY <1>2, <2>2, AppendProperties
  <2>4. inputs' = ins
    BY <1>5
  <2> HIDE DEF ins
  <2>5. DOMAIN ins = 1 .. Len(inputs) + 1 /\ DOMAIN inputs = 1 .. Len(inputs)
        /\ Len(inputs) \in Nat
    BY ONLY <2>3, <1>2
  <2>6. \A i \in DOMAIN ins : ins[i] = utxo \/ \E j \in DOMAIN inputs : ins[i] = inputs[j]
    <3>1. \A i \in DOMAIN ins : i \in 1 .. Len(inputs) \/ i = Len(inputs) + 1
      BY ONLY <2>5
    <3> QED BY ONLY <3>1, <2>3, <2>5
  <2>7. \A j \in DOMAIN inputs : \E i \in DOMAIN ins : ins[i] = inputs[j]
    <3>1. \A j \in DOMAIN inputs : j \in DOMAIN ins /\ ins[j] = inputs[j]
      BY ONLY <2>3, <2>5
    <3> QED BY ONLY <3>1
  <2>8. InputsInv'
    BY <1>1, <1>5, <2>1, <2>2, <2>3, <2>4, <2>6, <2>7, InputsGrow DEF BuilderInv
  <2>9. outputs' \in Seq(Output) /\ Len(outputs') = Len(outputs)
    <3>1. Len(outputs) >= 1 /\ Last \in Output
      BY <1>2, WithLastType
    <3>2. Last.value + args.amounts[utxo] \in Nat
      BY <3>1, <2>2 DEF Output
    <3> QED BY <1>2, <1>5, <3>1, <3>2, WithLastType
  <2>10. BuilderTypes'
    <3>1. utxos' \in SUBSET OutPoint /\ unused_change' \in Seq(Address) /\ Len(unused_change') <= 2
      BY <1>5 DEF BuilderInv, BuilderTypes
    <3>2. inputs' \in Seq(OutPoint) /\ Len(inputs') <= 3
      BY ONLY <2>3, <2>4, <2>5, <1>2
    <3>3. Len(outputs') <= 3
      BY ONLY <2>9, <1>2
    <3> QED BY ONLY <3>1, <3>2, <3>3, <2>9 DEF BuilderTypes
  <2>11. ShapeInv'
    <3>1. utxos' \subseteq DOMAIN args'.amounts
      BY <1>2, <1>5
    <3> QED BY ONLY <3>1, <1>2, <1>5, <2>9 DEF ShapeInv
  <2>12. ArgsInv'
    BY <1>1, <1>5, ArgsKept DEF BuilderInv
  <2> QED BY <2>8, <2>10, <2>11, <2>12 DEF BuilderInv
<1> QED BY <1>3, <1>4, <1>5 DEF AddValue, Goto

LEMMA StripValueStep ==
  ASSUME BuilderInv, StripValue, RestKept
  PROVE  BuilderInv'
<1> DEFINE value == TotalOutput - SatOffset
<1>1. /\ phase = "strip_value" /\ phase' = "deduct_fee" /\ args' = args
      /\ utxos' = utxos /\ inputs' = inputs
  BY DEF StripValue, Goto
<1>2. phase \in BuilderPhases /\ phase \in Chosen \ {"select_outgoing"}
  BY <1>1 DEF BuilderPhases, Chosen
<1>3. /\ inputs \in Seq(OutPoint) /\ Len(inputs) <= 3
      /\ outputs \in Seq(Output) /\ Len(outputs) >= 1 /\ Len(outputs) <= 2
      /\ unused_change \in Seq(Address) /\ Len(unused_change) >= 1 /\ Len(unused_change) <= 2
      /\ utxos \subseteq DOMAIN args.amounts /\ utxos \in SUBSET OutPoint
  BY <1>1, <1>2 DEF BuilderInv, BuilderTypes, ShapeInv
<1>4. ArgsInv' /\ InputsInv'
  BY <1>1, <1>2, ArgsKept, InputsKept DEF BuilderInv
<1>5. /\ outputs' \in Seq(Output) /\ 1 <= Len(outputs') /\ Len(outputs') <= 3
      /\ unused_change' \in Seq(Address) /\ Len(unused_change') <= 2
  <2>1. CASE ~ WorthChange(value)
    <3>1. outputs' = outputs /\ unused_change' = unused_change
      BY <2>1 DEF StripValue
    <3> QED BY ONLY <3>1, <1>3
  <2>2. CASE WorthChange(value)
    <3>1. ArgsOK /\ SatOffset \in Nat /\ TotalOutput \in Nat
      BY <1>1, <1>2, <1>3, BuilderFacts, ValueType
    <3>2. TargetValue \in Nat
      BY <3>1 DEF ArgsOK, Target, TargetValue, TARGET_POSTAGE
    <3>3. /\ NextChange \in Address /\ WithoutNextChange \in Seq(Address)
          /\ Len(WithoutNextChange) = Len(unused_change) - 1
      BY <1>3, ChangeType
    <3>4. Dust(NextChange) \in Nat /\ Fee(EstimateVbytes + ADDITIONAL_OUTPUT_VBYTES) \in Nat
      <4>1. EstimateVbytes + ADDITIONAL_OUTPUT_VBYTES \in Nat
        BY <3>1, <1>3, SizeType DEF ADDITIONAL_OUTPUT_VBYTES
      <4> QED BY <3>1, <3>3, <4>1, DustType, FeeType
    <3>5. value - TargetValue \in Nat
      <4>1. value - TargetValue
              > Dust(NextChange) + Fee(EstimateVbytes + ADDITIONAL_OUTPUT_VBYTES)
        BY <2>2 DEF WorthChange
      <4> QED BY ONLY <4>1, <3>1, <3>2, <3>4
    <3>6. /\ outputs' = Append(WithLast(TargetValue),
                               [address |-> NextChange, value |-> value - TargetValue])
          /\ unused_change' = WithoutNextChange
      BY <2>2 DEF StripValue
    <3> HIDE DEF value
    <3>7. WithLast(TargetValue) \in Seq(Output) /\ Len(WithLast(TargetValue)) = Len(outputs)
      <4>1. Len(outputs) >= 1 /\ outputs \in Seq(Output)
        BY ONLY <1>3
      <4> QED BY <3>2, <4>1, WithLastType
    <3>8. [address |-> NextChange, value |-> value - TargetValue] \in Output
      BY <3>3, <3>5 DEF Output
    <3>9. outputs' \in Seq(Output) /\ Len(outputs') = Len(outputs) + 1
      BY ONLY <3>6, <3>7, <3>8, AppendProperties
    <3> QED BY ONLY <3>3, <3>6, <3>9, <1>3
  <2> QED BY <2>1, <2>2
<1>6. BuilderTypes'
  BY ONLY <1>1, <1>3, <1>5 DEF BuilderTypes
<1>7. ShapeInv'
  BY ONLY <1>1, <1>3, <1>5 DEF ShapeInv
<1> QED BY <1>4, <1>6, <1>7 DEF BuilderInv

LEMMA DeductFeeStep ==
  ASSUME BuilderInv, DeductFee, RestKept
  PROVE  BuilderInv'
<1>0. phase = "deduct_fee"
  BY DEF DeductFee, Panic, Goto
<1>1. CASE Panic("deduct_fee")
  <2>1. phase' \notin Chosen
    BY <1>1 DEF Panic, Goto, Chosen, BuilderPhases
  <2> QED BY <1>1, <2>1, BuilderEnds DEF Panic, BuilderInv
<1>2. CASE ~ Panic("deduct_fee")
  <2>1. /\ phase' = "build" /\ args' = args /\ CanDeductFee
        /\ utxos' = utxos /\ inputs' = inputs /\ unused_change' = unused_change
        /\ outputs' = WithLast(Last.value - EstimateFee)
    BY <1>2 DEF DeductFee, Goto
  <2>2. phase \in BuilderPhases /\ phase \in Chosen \ {"select_outgoing"}
    BY <1>0 DEF BuilderPhases, Chosen
  <2>3. /\ inputs \in Seq(OutPoint) /\ Len(inputs) <= 3
        /\ outputs \in Seq(Output) /\ Len(outputs) >= 1 /\ Len(outputs) <= 3
        /\ unused_change \in Seq(Address) /\ Len(unused_change) <= 2
        /\ utxos \subseteq DOMAIN args.amounts /\ utxos \in SUBSET OutPoint
    BY <1>0, <2>2 DEF BuilderInv, BuilderTypes, ShapeInv
  <2>4. ArgsInv' /\ InputsInv'
    BY <2>1, <2>2, ArgsKept, InputsKept DEF BuilderInv
  <2>5. Last.value - EstimateFee \in Nat
    <3>1. EstimateFee \in Nat
      BY <2>2, <2>3, BuilderFacts, SizeType
    <3>2. Last \in Output
      BY <2>3, WithLastType
    <3>3. Last.value \in Nat /\ Last.value >= EstimateFee
      BY <2>1, <3>2 DEF Output, CanDeductFee
    <3> QED BY ONLY <3>1, <3>3
  <2>6. outputs' \in Seq(Output) /\ Len(outputs') = Len(outputs)
    BY <2>1, <2>3, <2>5, WithLastType
  <2>7. BuilderTypes'
    BY ONLY <2>1, <2>3, <2>6 DEF BuilderTypes
  <2>8. ShapeInv'
    BY ONLY <2>1, <2>3, <2>6 DEF ShapeInv
  <2> QED BY <2>4, <2>7, <2>8 DEF BuilderInv
<1> QED BY <1>1, <1>2

(* A fee for the reveal is a number.                                       *)
LEMMA RevealFeeType ==
  ASSUME command \in Command
  PROVE  RevealFee \in Nat /\ command.commit_fee_rate \in FeeRate /\ command.script \in Script
<1>1. /\ command.fee_rate \in FeeRate /\ command.commit_fee_rate \in FeeRate
      /\ command.script \in Script
  BY DEF Command
<1>2. command.fee_rate \in Nat /\ RevealVbytes \in Nat
  BY <1>1, BuilderAssumption, WalletAssumption
<1>3. 2 * command.fee_rate * RevealVbytes \in Nat
  BY <1>2
<1>4. \A m \in Nat : (m + 10) \div 20 \in Nat
  OBVIOUS
<1> QED BY <1>1, <1>3, <1>4 DEF RevealFee

(* The assertions of build are about the value the recipient gets, and the *)
(* value asked for a commit output is the postage and the fee.             *)
LEMMA BuildStep ==
  ASSUME BuilderInv, Build, RestKept, command \in Command
  PROVE  BuilderInv' /\ RevealKeepsPostage'
<1>0. phase = "build"
  BY DEF Build, Panic, Goto
<1>1. CASE Panic("build")
  <2>1. phase' \notin Chosen
    BY <1>1 DEF Panic, Goto, Chosen, BuilderPhases
  <2>2. phase' # "built"
    BY <1>1 DEF Panic, Goto
  <2> QED BY <1>1, <2>1, <2>2, BuilderEnds DEF Panic, BuilderInv, RevealKeepsPostage
<1>2. CASE ~ Panic("build")
  <2>1. /\ phase' = "built" /\ args' = args /\ Assertions
        /\ UNCHANGED <<utxos, inputs, outputs, unused_change>>
    BY <1>2 DEF Build, Goto
  <2>2. phase \in BuilderPhases /\ phase \in Chosen \ {"select_outgoing"}
    BY <1>0 DEF BuilderPhases, Chosen
  <2>3. ArgsInv' /\ InputsInv'
    BY <2>1, <2>2, ArgsKept, InputsKept DEF BuilderInv
  <2>4. BuilderTypes'
    BY <2>1 DEF BuilderInv, BuilderTypes
  <2>5. ShapeInv'
    BY <2>1 DEF ShapeInv, BuilderPhases
  <2>6. RevealKeepsPostage'
    <3>1. SUFFICES ASSUME command.kind = "inscribe" PROVE (RevealValue >= TARGET_POSTAGE)'
      BY DEF RevealKeepsPostage, RestKept, command_vars
    <3>2. args.target = CommitTarget
      BY <2>2, <3>1 DEF BuilderInv, ArgsInv
    <3>3. \E k \in DOMAIN outputs : outputs[k].address = "recipient"
      BY <2>1 DEF Assertions, AddressesDiffer
    <3> DEFINE k == CHOOSE k \in DOMAIN outputs : outputs[k].address = "recipient"
    <3>4. k \in DOMAIN outputs /\ outputs[k].address = "recipient"
      BY <3>3
    <3> HIDE DEF k
    <3>5. outputs[k].value >= RevealFee + TARGET_POSTAGE
      BY <2>1, <3>2, <3>4 DEF Assertions, ValueIsOnTarget, CommitTarget
    <3>6. outputs[k].value \in Nat
      <4>1. outputs[k] \in Output
        BY <3>4 DEF BuilderInv, BuilderTypes
      <4> QED BY <4>1 DEF Output
    <3>7. outputs[k].value - RevealFee >= TARGET_POSTAGE
      BY ONLY <3>5, <3>6, RevealFeeType, command \in Command DEF TARGET_POSTAGE
    <3>8. RevealValue >= TARGET_POSTAGE
      BY <3>7 DEF RevealValue, CommitValue, k
    <3> QED BY <3>8, <2>1 DEF RevealValue, CommitValue, RevealFee, RestKept, command_vars
  <2> QED BY <2>3, <2>4, <2>5, <2>6 DEF BuilderInv
<1> QED BY <1>1, <1>2

-----------------------------------------------------------------------------
(* Steps that send nothing keep what the commands promise.                 *)
LEMMA PromisesStay ==
  ASSUME Promises, sent' = sent, coin' = coin, phase' # "built",
         sent = {} \/ (args' = args /\ command' = command /\ (imported => imported'))
  PROVE  Promises'
<1>1. UnmentionedAssetsStay'
  BY DEF Promises, UnmentionedAssetsStay, InscribedIn
<1>2. CommitIsRecoverable'
  BY DEF Promises, CommitIsRecoverable
<1>3. RevealKeepsPostage'
  BY DEF RevealKeepsPostage
<1> QED BY <1>1, <1>2, <1>3 DEF Promises

LEMMA BuildTransactionStep ==
  ASSUME WalletInv, BuildTransaction
  PROVE  WalletInv'
<1>1. RestKept
  BY DEF BuildTransaction, RestKept
<1>2. phase \in BuilderPhases /\ phase' \in BuilderPhases \cup {"built", "rejected", "panicked"}
      /\ args' = args
  BY DEF BuildTransaction, BuilderStep, SelectOutgoing, AlignOutgoing, PadAlignmentOutput,
         AddValue, StripValue, DeductFee, Build, Goto, Reject, Panic, BuilderPhases
<1>3. command \in Command /\ sent = {}
  <2>1. phase # "idle" /\ phase \in Phases \ {"reveal", "done", "rejected"}
    BY <1>2 DEF BuilderPhases, Phases
  <2> QED BY <2>1 DEF WalletInv, NodeTypes, OrderInv
<1>4. BuilderInv' /\ (Build => RevealKeepsPostage')
  <2>1. BuilderInv
    BY DEF WalletInv
  <2>2. CASE Build
    BY <1>1, <1>3, <2>1, <2>2, BuildStep
  <2>3. CASE ~ Build
    BY <1>1, <2>1, <2>3, SelectOutgoingStep, AlignOutgoingStep, PadAlignmentOutputStep,
       AddValueStep, StripValueStep, DeductFeeStep DEF BuildTransaction, BuilderStep
  <2> QED BY <2>2, <2>3
<1>5. NodeTypes'
  <2>1. phase' \in Phases
    BY <1>2 DEF Phases
  <2> QED BY <1>1, <2>1 DEF WalletInv, NodeTypes, RestKept, chain_vars, node_vars, command_vars
<1>6. OrderInv'
  <2>1. /\ command' = command /\ sent' = sent
        /\ phase' \notin {"idle", "choose", "backup", "commit", "reveal", "lock_unspent", "fund"}
    BY <1>1, <1>2 DEF RestKept, command_vars, node_vars, BuilderPhases
  <2> QED BY <1>3, <2>1 DEF OrderInv, WalletInv, Command
<1>7. Promises'
  <2>1. sent' = sent /\ coin' = coin /\ command' = command
    BY <1>1 DEF RestKept, chain_vars, node_vars, command_vars
  <2>2. UnmentionedAssetsStay' /\ CommitIsRecoverable'
    BY <1>3, <2>1 DEF UnmentionedAssetsStay, CommitIsRecoverable
  <2>3. RevealKeepsPostage'
    <3>1. CASE Build
      BY <3>1, <1>4
    <3>2. CASE ~ Build
      <4>1. phase' # "built"
        BY <3>2 DEF BuildTransaction, BuilderStep, SelectOutgoing, AlignOutgoing,
             PadAlignmentOutput, AddValue, StripValue, DeductFee, Goto, Reject, Panic
      <4> QED BY <4>1 DEF RevealKeepsPostage
    <3> QED BY <3>1, <3>2
  <2> QED BY <2>2, <2>3 DEF Promises
<1> QED BY <1>4, <1>5, <1>6, <1>7 DEF WalletInv

-----------------------------------------------------------------------------
(* The arguments of a builder that starts.                                 *)
LEMMA StartStep ==
  ASSUME NodeTypes, command \in Command, listed \subseteq indexed, StayChosen,
         NEW outgoing \in SatPoint, NEW target \in Target,
         Start(BuilderArgs(outgoing, target)),
         command.kind \in {"send_inscription", "send_satpoint", "inscribe"},
         command.kind = "send_satpoint" => outgoing \notin InscribedIn(indexed),
         command.kind = "inscribe" => /\ outgoing.outpoint \notin Inscribed(indexed)
                                      /\ target = CommitTarget
  PROVE  BuilderInv' /\ phase' \in {"rejected", "select_outgoing"}
<1> DEFINE a == BuilderArgs(outgoing, target)
<1>1. /\ args' = a /\ phase' \in {"rejected", "select_outgoing"}
      /\ utxos' = DOMAIN a.amounts /\ inputs' = << >> /\ outputs' = << >>
      /\ unused_change' = <<"change0", "change1">>
  BY DEF Start
<1>2. /\ a.amounts = [o \in listed |-> coin[o].value] /\ a.inscriptions = InscribedIn(indexed)
      /\ a.dunic_utxos = Dunic(listed) /\ a.outgoing = outgoing /\ a.target = target
      /\ a.fee_rate = command.commit_fee_rate
      /\ a.script = [x \in Address |-> IF x = "recipient" THEN command.script ELSE "p2tr"]
  BY DEF BuilderArgs
<1> HIDE DEF a
<1>3. /\ coin \in [OutPoint -> Coins] /\ listed \subseteq OutPoint /\ indexed \subseteq OutPoint
      /\ coin' = coin /\ listed' = listed /\ indexed' = indexed /\ command' = command
  BY DEF NodeTypes, StayChosen, chain_vars, command_vars
<1>4. DOMAIN a.amounts = listed /\ a.amounts \in [listed -> Nat]
  <2>1. \A o \in listed : coin[o].value \in Nat
    <3>1. \A o \in listed : coin[o] \in [value : Nat \ {0}, inscribed : SUBSET Nat, cunes : BOOLEAN]
      BY <1>3, WalletAssumption
    <3> QED BY <3>1
  <2> QED BY <1>2, <2>1
<1>5. a.inscriptions \subseteq SatPoint /\ a.dunic_utxos \subseteq OutPoint
  BY <1>2, <1>3, InscribedInType DEF Dunic
<1>6. a.fee_rate \in FeeRate /\ a.script \in [Address -> Script]
  <2>1. command.commit_fee_rate \in FeeRate /\ command.script \in Script
    BY RevealFeeType
  <2> QED BY <1>2, <2>1 DEF Script
<1>7. ArgsOK'
  BY <1>1, <1>2, <1>3, <1>4, <1>5, <1>6 DEF ArgsOK
<1>8. /\ InscribedIn(indexed)' = InscribedIn(indexed) /\ Dunic(listed)' = Dunic(listed)
      /\ Inscribed(indexed)' = Inscribed(indexed) /\ CommitTarget' = CommitTarget
  BY <1>3 DEF InscribedIn, Dunic, Inscribed, CommitTarget, RevealFee
<1>9. ArgsInv'
  BY <1>1, <1>2, <1>3, <1>4, <1>7, <1>8 DEF ArgsInv
<1>10. BuilderTypes'
  BY <1>1, <1>3, <1>4 DEF BuilderTypes, Address
<1>11. InputsInv' /\ ShapeInv'
  BY <1>1, <1>4 DEF InputsInv, ShapeInv, Chosen, BuilderPhases
<1> QED BY <1>1, <1>9, <1>10, <1>11 DEF BuilderInv

LEMMA ChooseStep ==
  ASSUME WalletInv, ChooseSend \/ ChooseInscribe
  PROVE  WalletInv'
<1>1. phase = "choose" /\ StayChosen
  BY DEF ChooseSend, ChooseInscribe
<1>2. /\ NodeTypes /\ command \in Command /\ listed \subseteq indexed /\ sent = {}
      /\ command.kind \in {"send_inscription", "send_satpoint"} => command.satpoint \in SatPoint
  BY <1>1 DEF WalletInv, NodeTypes, OrderInv, Phases
<1>3. BuilderInv' /\ phase' \in {"rejected", "select_outgoing"}
  <2>1. CASE ChooseSend
    <3>1. /\ command.kind \in {"send_inscription", "send_satpoint"}
          /\ command.kind = "send_satpoint" => command.satpoint \notin InscribedIn(indexed)
          /\ Start(BuilderArgs(command.satpoint, Postage))
      BY <2>1 DEF ChooseSend
    <3>2. Postage \in Target
      BY DEF Postage, Target
    <3> QED BY <1>1, <1>2, <3>1, <3>2, StartStep
  <2>2. CASE ChooseInscribe
    <3>1. /\ command.kind = "inscribe"
          /\ command.satpoint # << >> \/ Cardinals # {}
          /\ Shibescribed.outpoint \notin Inscribed(indexed)
          /\ Start(BuilderArgs(Shibescribed, CommitTarget))
      BY <2>2 DEF ChooseInscribe
    <3>2. Shibescribed \in SatPoint
      <4>1. CASE command.satpoint # << >>
        BY <4>1, <1>2 DEF Shibescribed, Command
      <4>2. CASE command.satpoint = << >>
        <5>1. FirstCardinal \in OutPoint
          BY <3>1, <4>2, <1>2, FirstCardinalType DEF NodeTypes
        <5> QED BY <4>2, <5>1 DEF Shibescribed, SatPoint
      <4> QED BY <4>1, <4>2
    <3>3. CommitTarget \in Target
      BY <1>2, RevealFeeType DEF CommitTarget, Target, TARGET_POSTAGE
    <3>4. /\ command.kind \in {"send_inscription", "send_satpoint", "inscribe"}
          /\ command.kind # "send_satpoint"
      BY ONLY <3>1
    <3> QED BY ONLY <1>1, <1>2, <3>1, <3>2, <3>3, <3>4, StartStep
  <2> QED BY <2>1, <2>2
<1>4. NodeTypes'
  BY <1>1, <1>2, <1>3 DEF NodeTypes, StayChosen, chain_vars, node_vars, command_vars, Phases,
     BuilderPhases
<1>5. sent' = sent /\ coin' = coin /\ command' = command
  BY <1>1 DEF StayChosen, chain_vars, node_vars, command_vars
<1>6. OrderInv'
  <2>1. command' # << >>
    BY <1>2, <1>5 DEF Command
  <2>2. phase' \notin {"idle", "choose", "backup", "commit", "reveal", "lock_unspent", "fund"}
    BY ONLY <1>3
  <2> QED BY ONLY <1>2, <1>5, <2>1, <2>2 DEF OrderInv
<1>7. Promises'
  BY <1>2, <1>3, <1>5, PromisesStay DEF WalletInv
<1> QED BY <1>3, <1>4, <1>6, <1>7 DEF WalletInv

-----------------------------------------------------------------------------
(* The steps of a command that build no transaction, and the blocks.       *)
LEMMA StartCommandStep ==
  ASSUME WalletInv, NEW kind \in Kinds, StartCommand(kind)
  PROVE  WalletInv'
<1>1. /\ phase = "idle" /\ phase' \in {"lock_unspent", "list_unspent"}
      /\ phase' = "lock_unspent" => kind = "etch"
      /\ indexed' = confirmed /\ listed' = listed
      /\ UNCHANGED <<args, utxos, inputs, outputs, unused_change, chain_vars, node_vars>>
  BY DEF StartCommand, Continue
<1>2. NodeTypes /\ sent = {}
  BY <1>1 DEF WalletInv, OrderInv, Phases
<1>3. PICK satpoint \in Named(kind), rate \in FeeRate, commit_rate \in FeeRate,
           script \in IF kind = "inscribe" THEN {"p2tr"} ELSE RecipientScripts,
           no_backup \in IF kind = "inscribe" THEN BOOLEAN ELSE {FALSE},
           dry_run \in IF kind = "inscribe" THEN BOOLEAN ELSE {FALSE} :
        command' = [kind |-> kind, satpoint |-> satpoint, no_backup |-> no_backup,
                    dry_run |-> dry_run, fee_rate |-> rate,
                    commit_fee_rate |-> commit_rate, script |-> script]
  BY DEF StartCommand
<1>4. /\ satpoint \in SatPoint \cup {<< >>}
      /\ kind \in {"send_inscription", "send_satpoint"} => satpoint \in SatPoint
  <2>1. InscribedIn(confirmed) \subseteq SatPoint
    BY <1>2, InscribedInType DEF NodeTypes
  <2>2. [outpoint : OutPoint, offset : Offsets] \subseteq SatPoint
    BY WalletAssumption DEF SatPoint
  <2> QED BY <1>3, <2>1, <2>2 DEF Named
<1>5. command' \in Command /\ command'.kind = kind /\ command'.satpoint = satpoint
  <2>1. kind \in CommandKind /\ script \in Script /\ no_backup \in BOOLEAN /\ dry_run \in BOOLEAN
    BY <1>3, WalletAssumption DEF Script
  <2>2. satpoint \in SatPoint \cup {<< >>} /\ rate \in FeeRate
        /\ commit_rate \in FeeRate
    BY <1>3, <1>4
  <2>3. [kind |-> kind, satpoint |-> satpoint, no_backup |-> no_backup,
         dry_run |-> dry_run, fee_rate |-> rate,
         commit_fee_rate |-> commit_rate, script |-> script] \in Command
    BY ONLY <2>1, <2>2 DEF Command
  <2> QED BY ONLY <2>3, <1>3
<1>6. BuilderInv'
  <2>1. phase' \notin Chosen
    BY <1>1 DEF Chosen, BuilderPhases
  <2> QED BY <1>1, <2>1, BuilderEnds DEF WalletInv, BuilderInv
<1>7. NodeTypes'
  BY <1>1, <1>2, <1>5 DEF NodeTypes, chain_vars, node_vars, Phases
<1>8. OrderInv'
  <2>1. command' # << >>
    <3>1. "kind" \in DOMAIN command' /\ DOMAIN << >> = {}
      BY <1>3
    <3> QED BY <3>1
  <2>2. /\ phase' \notin {"idle", "choose", "backup", "commit", "reveal", "fund"}
        /\ phase' = "lock_unspent" => kind = "etch"
    BY ONLY <1>1
  <2>3. sent' = {}
    BY <1>1, <1>2 DEF node_vars
  <2>4. command'.kind \in {"send_inscription", "send_satpoint"} =>
          command'.satpoint \in SatPoint
    BY ONLY <1>4, <1>5
  <2>5. phase' = "lock_unspent" => command'.kind = "etch"
    BY ONLY <2>2, <1>5
  <2> QED BY ONLY <2>1, <2>2, <2>3, <2>4, <2>5 DEF OrderInv
<1>9. Promises'
  BY <1>1, <1>2, PromisesStay DEF WalletInv, node_vars, chain_vars
<1> QED BY <1>6, <1>7, <1>8, <1>9 DEF WalletInv

LEMMA ListUnspentStep ==
  ASSUME WalletInv, ListUnspent
  PROVE  WalletInv'
<1>1. /\ phase = "list_unspent" /\ listed' = Unspent
      /\ phase' \in {"rejected", "fund", "choose"}
      /\ phase' # "rejected" => listed' \subseteq indexed
      /\ phase' = "fund" => command.kind \in {"send_amount", "send_cunes"}
      /\ UNCHANGED <<args, utxos, inputs, outputs, unused_change, chain_vars, node_vars,
                     indexed, command>>
  BY DEF ListUnspent, Continue
<1>2. NodeTypes /\ sent = {} /\ command # << >>
  BY <1>1 DEF WalletInv, OrderInv, Phases
<1>3. BuilderInv'
  <2>1. phase' \notin Chosen
    BY <1>1 DEF Chosen, BuilderPhases
  <2> QED BY <1>1, <2>1, BuilderEnds DEF WalletInv, BuilderInv
<1>4. NodeTypes'
  BY <1>1, <1>2 DEF NodeTypes, chain_vars, node_vars, Phases, Unspent
<1>5. OrderInv'
  <2>1. /\ phase' \notin {"idle", "backup", "commit", "reveal", "lock_unspent"}
        /\ phase' = "fund" => command.kind # "etch"
    BY <1>1
  <2>2. sent' = {} /\ command' = command /\ indexed' = indexed
    BY <1>1, <1>2 DEF node_vars
  <2>3. command.kind \in {"send_inscription", "send_satpoint"} => command.satpoint \in SatPoint
    BY <1>2 DEF WalletInv, OrderInv
  <2> QED BY ONLY <2>1, <2>2, <2>3, <1>1, <1>2 DEF OrderInv
<1>6. Promises'
  BY <1>1, <1>2, PromisesStay DEF WalletInv, node_vars, chain_vars
<1> QED BY <1>3, <1>4, <1>5, <1>6 DEF WalletInv

(* Any step may be the last: the choice fails, or the node refuses.        *)
LEMMA EndStep ==
  ASSUME WalletInv, ChooseFails \/ RpcFails
  PROVE  WalletInv'
<1>1. /\ phase # "idle" /\ phase' = "rejected"
      /\ UNCHANGED <<args, utxos, inputs, outputs, unused_change, chain_vars, node_vars,
                     indexed, command_vars>>
  BY DEF ChooseFails, RpcFails, Continue
<1>2. BuilderInv'
  <2>1. phase' \notin Chosen
    BY <1>1 DEF Chosen, BuilderPhases
  <2> QED BY <1>1, <2>1, BuilderEnds DEF WalletInv, BuilderInv
<1>3. NodeTypes'
  BY <1>1 DEF WalletInv, NodeTypes, chain_vars, node_vars, command_vars, Phases
<1>4. OrderInv'
  BY <1>1 DEF WalletInv, OrderInv, command_vars
<1>5. Promises'
  BY <1>1, PromisesStay DEF WalletInv, node_vars, chain_vars, command_vars
<1> QED BY <1>2, <1>3, <1>4, <1>5 DEF WalletInv

LEMMA LockUnspentStep ==
  ASSUME WalletInv, LockUnspent
  PROVE  WalletInv'
<1>1. /\ phase = "lock_unspent" /\ phase' = "fund"
      /\ Inscribed(indexed) \subseteq Unspent /\ locked' = locked \cup Inscribed(indexed)
      /\ UNCHANGED <<args, utxos, inputs, outputs, unused_change, chain_vars, spent,
                     imported, sent, indexed, command_vars>>
  BY DEF LockUnspent, Continue
<1>2. /\ NodeTypes /\ sent = {} /\ command # << >> /\ command.kind = "etch"
  BY <1>1 DEF WalletInv, OrderInv, Phases
<1>3. BuilderInv'
  <2>1. phase' \notin Chosen
    BY <1>1 DEF Chosen, BuilderPhases
  <2> QED BY <1>1, <2>1, BuilderEnds DEF WalletInv, BuilderInv
<1>4. NodeTypes'
  BY <1>1, <1>2 DEF NodeTypes, chain_vars, command_vars, Phases, Unspent
<1>5. OrderInv'
  <2>1. Inscribed(indexed)' = Inscribed(indexed) /\ command' = command
    BY <1>1 DEF Inscribed, chain_vars, command_vars
  <2>2. Inscribed(indexed)' \subseteq locked'
    BY <1>1, <2>1
  <2> QED BY ONLY <1>1, <1>2, <2>1, <2>2 DEF OrderInv
<1>6. Promises'
  BY <1>1, <1>2, PromisesStay DEF WalletInv, chain_vars
<1> QED BY <1>3, <1>4, <1>5, <1>6 DEF WalletInv

LEMMA MineStep ==
  ASSUME WalletInv, NEW o \in Late, Mine(o)
  PROVE  WalletInv'
<1>1. /\ confirmed' = confirmed \cup {o} /\ o \in OutPoint
      /\ UNCHANGED <<builder_vars, coin, node_vars, indexed, command_vars>>
  BY WalletAssumption DEF Mine
<1>2. BuilderInv'
  BY <1>1 DEF WalletInv, BuilderInv, BuilderTypes, ArgsInv, InputsInv, ShapeInv, builder_vars,
     command_vars, ArgsOK, InscribedIn, Inscribed, Dunic, CommitTarget, RevealFee, Sendable,
     Cardinal
<1>3. NodeTypes'
  BY <1>1 DEF WalletInv, NodeTypes, node_vars, command_vars, builder_vars
<1>4. OrderInv'
  BY <1>1 DEF WalletInv, OrderInv, node_vars, command_vars, builder_vars, Inscribed
<1>5. Promises'
  BY <1>1 DEF WalletInv, Promises, UnmentionedAssetsStay, CommitIsRecoverable,
     RevealKeepsPostage, InscribedIn, RevealValue, CommitValue, RevealFee, builder_vars,
     node_vars, command_vars
<1> QED BY <1>2, <1>3, <1>4, <1>5 DEF WalletInv

-----------------------------------------------------------------------------
(* What the builder put into a transaction: of an inscription, only the    *)
(* one that is sent, and of cunes, only those of its output.               *)
LEMMA InputsAreSafe ==
  ASSUME WalletInv, phase \in {"built", "commit"}, NEW i \in DOMAIN inputs
  PROVE  /\ inputs[i] \in listed
         /\ coin[inputs[i]].inscribed # {} =>
              /\ command.kind = "send_inscription"
              /\ InscribedIn({inputs[i]}) = {args.outgoing}
         /\ coin[inputs[i]].cunes => inputs[i] = args.outgoing.outpoint
<1> DEFINE o == inputs[i]
<1>1. phase \in Chosen /\ phase \in Chosen \ {"select_outgoing"}
  BY DEF Chosen
<1>2. /\ ArgsOK /\ args.inscriptions = InscribedIn(indexed)
      /\ args.dunic_utxos = Dunic(listed) /\ listed \subseteq indexed
      /\ command.kind \in {"send_inscription", "send_satpoint", "inscribe"}
      /\ command.kind = "send_satpoint" => args.outgoing \notin InscribedIn(indexed)
      /\ command.kind = "inscribe" => args.outgoing.outpoint \notin Inscribed(indexed)
  BY <1>1 DEF WalletInv, BuilderInv, ArgsInv
<1>3. /\ Sendable /\ o \in listed /\ (o = args.outgoing.outpoint \/ Cardinal(o))
  BY <1>1 DEF WalletInv, BuilderInv, InputsInv
<1> HIDE DEF o
<1>4. coin[o].cunes => o = args.outgoing.outpoint
  BY <1>2, <1>3 DEF Cardinal, Dunic
<1>5. ASSUME coin[o].inscribed # {}
      PROVE  command.kind = "send_inscription" /\ InscribedIn({o}) = {args.outgoing}
  <2>1. PICK k0 \in coin[o].inscribed : TRUE
    BY <1>5
  <2>2. \A k \in coin[o].inscribed : [outpoint |-> o, offset |-> k] \in args.inscriptions
    BY <1>2, <1>3, InscribedInMembers
  <2>3. o = args.outgoing.outpoint
    <3>1. [outpoint |-> o, offset |-> k0].outpoint = o
      OBVIOUS
    <3> QED BY <1>3, <2>1, <2>2, <3>1 DEF Cardinal
  <2>4. \A k \in coin[o].inscribed : k = args.outgoing.offset
    <3> SUFFICES ASSUME NEW k \in coin[o].inscribed PROVE k = args.outgoing.offset
      OBVIOUS
    <3>1. /\ [outpoint |-> o, offset |-> k] \in args.inscriptions
          /\ [outpoint |-> o, offset |-> k].outpoint = args.outgoing.outpoint
          /\ [outpoint |-> o, offset |-> k].offset = k
      BY <2>2, <2>3
    <3> QED BY <1>3, <3>1 DEF Sendable
  <2>5. args.outgoing = [outpoint |-> o, offset |-> args.outgoing.offset]
    BY <1>2, <2>3 DEF ArgsOK, SatPoint
  <2>6. coin[o].inscribed = {args.outgoing.offset}
    BY <2>1, <2>4
  <2>7. InscribedIn({o}) = {args.outgoing}
    <3>1. \A s : s \in InscribedIn({o}) <=> s = [outpoint |-> o, offset |-> args.outgoing.offset]
      BY <2>6, InscribedInMembers
    <3> QED BY <3>1, <2>5
  <2>8. args.outgoing \in InscribedIn(indexed)
    BY <1>2, <2>2, <2>5, <2>6
  <2>9. args.outgoing.outpoint \in Inscribed(indexed)
    BY <1>2, <1>3, <1>5, <2>3 DEF Inscribed
  <2> QED BY <1>2, <2>7, <2>8, <2>9
<1> QED BY <1>3, <1>4, <1>5 DEF o

(* A transaction the wallet built, when the node has accepted it.          *)
LEMMA BroadcastBuilt ==
  ASSUME WalletInv, phase \in {"built", "commit"},
         Broadcast(command.kind, args.outgoing, InputSet),
         UNCHANGED <<chain_vars, args, indexed, command_vars>>
  PROVE  /\ sent' \in SUBSET Transaction
         /\ spent' \in SUBSET confirmed
         /\ UnmentionedAssetsStay'
<1> DEFINE t == [kind |-> command.kind, outgoing |-> args.outgoing,
                 inputs |-> InputSet, known |-> indexed]
<1>1. sent' = sent \cup {t} /\ spent' = spent \cup InputSet
  BY DEF Broadcast
<1>2. /\ t.kind = command.kind /\ t.outgoing = args.outgoing /\ t.inputs = InputSet
      /\ t.known = indexed
  OBVIOUS
<1>3. phase \in Chosen /\ phase # "idle"
  BY DEF Chosen
<1>4. /\ args.outgoing \in SatPoint
      /\ command.kind \in {"send_inscription", "send_satpoint", "inscribe"}
  BY <1>3 DEF WalletInv, BuilderInv, ArgsInv, ArgsOK
<1>5. InputSet \subseteq listed /\ listed \subseteq confirmed /\ confirmed \subseteq OutPoint
      /\ indexed \subseteq OutPoint /\ spent \subseteq confirmed /\ sent \subseteq Transaction
  BY InputsAreSafe DEF InputSet, WalletInv, NodeTypes
<1>6. t \in Transaction
  BY <1>4, <1>5 DEF Transaction, CommandKind
<1>7. \A o \in t.inputs :
        /\ coin[o].inscribed # {} => /\ t.kind = "send_inscription"
                                     /\ InscribedIn({o}) = {t.outgoing}
        /\ coin[o].cunes => o = t.outgoing.outpoint
  BY <1>2, InputsAreSafe DEF InputSet
<1>8. t.kind # "etch"
  BY <1>2, <1>4
<1> HIDE DEF t
<1>9. UnmentionedAssetsStay'
  <2>1. coin' = coin
    BY DEF chain_vars
  <2>2. UnmentionedAssetsStay
    BY DEF WalletInv, Promises
  <2>3. \A O : InscribedIn(O)' = InscribedIn(O)
    BY <2>1 DEF InscribedIn
  <2> QED BY ONLY <1>1, <1>7, <1>8, <2>1, <2>2, <2>3 DEF UnmentionedAssetsStay, InscribedIn
<1> QED BY <1>1, <1>5, <1>6, <1>9

(* The transaction of the builder stays for the steps that follow.         *)
LEMMA TransactionStays ==
  ASSUME WalletInv, phase \in {"built", "backup", "commit", "reveal"},
         phase' \in {"backup", "commit", "reveal", "done", "rejected"},
         UNCHANGED <<args, utxos, inputs, outputs, unused_change, coin, indexed, command_vars>>
  PROVE  BuilderInv'
<1>1. phase \in Chosen \ {"select_outgoing"} /\ phase' \notin BuilderPhases
  BY DEF Chosen, BuilderPhases
<1>2. BuilderTypes' /\ ShapeInv'
  BY <1>1 DEF WalletInv, BuilderInv, BuilderTypes, ShapeInv, BuilderPhases
<1>3. ArgsInv'
  BY <1>1 DEF WalletInv, BuilderInv, ArgsInv, command_vars, ArgsOK, InscribedIn, Inscribed,
     Dunic, CommitTarget, RevealFee
<1>4. InputsInv'
  BY <1>1 DEF WalletInv, BuilderInv, InputsInv, command_vars, Sendable, Cardinal
<1> QED BY <1>2, <1>3, <1>4 DEF BuilderInv

LEMMA SendTransactionStep ==
  ASSUME WalletInv, SendTransaction
  PROVE  WalletInv'
<1>1. /\ phase = "built" /\ phase' = "done"
      /\ command.kind \in {"send_inscription", "send_satpoint"}
      /\ Broadcast(command.kind, args.outgoing, InputSet)
      /\ UNCHANGED <<args, utxos, inputs, outputs, unused_change, chain_vars, locked,
                     imported, indexed, command_vars>>
  BY DEF SendTransaction, Continue
<1>2. /\ sent' \in SUBSET Transaction /\ spent' \in SUBSET confirmed
      /\ UnmentionedAssetsStay'
  BY <1>1, BroadcastBuilt
<1>3. BuilderInv'
  BY <1>1, TransactionStays DEF chain_vars
<1>4. NodeTypes'
  BY <1>1, <1>2 DEF WalletInv, NodeTypes, chain_vars, command_vars, Phases
<1>5. OrderInv'
  BY <1>1 DEF WalletInv, OrderInv, command_vars
<1>6. CommitIsRecoverable' /\ RevealKeepsPostage'
  BY <1>1 DEF CommitIsRecoverable, RevealKeepsPostage, command_vars
<1> QED BY <1>2, <1>3, <1>4, <1>5, <1>6 DEF WalletInv, Promises

LEMMA BuildRevealStep ==
  ASSUME WalletInv, BuildReveal
  PROVE  WalletInv'
<1>1. /\ phase = "built" /\ command.kind = "inscribe"
      /\ phase' \in {"rejected", "done", "commit", "backup"}
      /\ phase' = "commit" => command.no_backup
      /\ UNCHANGED <<args, utxos, inputs, outputs, unused_change, chain_vars, node_vars,
                     indexed, command_vars>>
  BY DEF BuildReveal, Continue
<1>2. sent = {} /\ command # << >>
  BY <1>1 DEF WalletInv, OrderInv, Phases
<1>3. BuilderInv'
  BY <1>1, TransactionStays DEF chain_vars
<1>4. NodeTypes'
  BY <1>1 DEF WalletInv, NodeTypes, chain_vars, node_vars, command_vars, Phases
<1>5. OrderInv'
  BY <1>1, <1>2 DEF OrderInv, command_vars, node_vars
<1>6. Promises'
  BY <1>1, <1>2, PromisesStay DEF WalletInv, node_vars, chain_vars
<1> QED BY <1>3, <1>4, <1>5, <1>6 DEF WalletInv

LEMMA BackupRecoveryKeyStep ==
  ASSUME WalletInv, BackupRecoveryKey
  PROVE  WalletInv'
<1>1. /\ phase = "backup" /\ phase' = "commit" /\ imported' = TRUE
      /\ UNCHANGED <<args, utxos, inputs, outputs, unused_change, chain_vars, spent, locked,
                     sent, indexed, command_vars>>
  BY DEF BackupRecoveryKey, Continue
<1>2. sent = {} /\ command # << >> /\ command.kind = "inscribe"
  BY <1>1 DEF WalletInv, OrderInv, Phases
<1>3. BuilderInv'
  BY <1>1, TransactionStays DEF chain_vars
<1>4. NodeTypes'
  BY <1>1 DEF WalletInv, NodeTypes, chain_vars, command_vars, Phases
<1>5. OrderInv'
  BY <1>1, <1>2 DEF OrderInv, command_vars
<1>6. Promises'
  BY <1>1, <1>2, PromisesStay DEF WalletInv, chain_vars
<1> QED BY <1>3, <1>4, <1>5, <1>6 DEF WalletInv

LEMMA SendCommitStep ==
  ASSUME WalletInv, SendCommit
  PROVE  WalletInv'
<1>1. /\ phase = "commit" /\ phase' = "reveal"
      /\ Broadcast("inscribe", args.outgoing, InputSet)
      /\ UNCHANGED <<args, utxos, inputs, outputs, unused_change, chain_vars, locked,
                     imported, indexed, command_vars>>
  BY DEF SendCommit, Continue
<1>2. /\ command # << >> /\ command.kind = "inscribe" /\ (command.no_backup \/ imported)
  BY <1>1 DEF WalletInv, OrderInv
<1>3. /\ sent' \in SUBSET Transaction /\ spent' \in SUBSET confirmed
      /\ UnmentionedAssetsStay'
  BY <1>1, <1>2, BroadcastBuilt
<1>4. BuilderInv'
  BY <1>1, TransactionStays DEF chain_vars
<1>5. NodeTypes'
  BY <1>1, <1>3 DEF WalletInv, NodeTypes, chain_vars, command_vars, Phases
<1>6. OrderInv'
  BY <1>1, <1>2 DEF WalletInv, OrderInv, command_vars
<1>7. CommitIsRecoverable' /\ RevealKeepsPostage'
  BY <1>1, <1>2 DEF CommitIsRecoverable, RevealKeepsPostage, command_vars
<1> QED BY <1>3, <1>4, <1>5, <1>6, <1>7 DEF WalletInv, Promises

LEMMA SendRevealStep ==
  ASSUME WalletInv, SendReveal
  PROVE  WalletInv'
<1> DEFINE t == [kind |-> "reveal", outgoing |-> << >>, inputs |-> {}, known |-> indexed]
<1>1. /\ phase = "reveal" /\ phase' = "done" /\ sent' = sent \cup {t} /\ spent' = spent
      /\ UNCHANGED <<args, utxos, inputs, outputs, unused_change, chain_vars, locked,
                     imported, indexed, command_vars>>
  BY DEF SendReveal, Continue, Broadcast
<1>2. t \in Transaction /\ t.kind = "reveal" /\ t.inputs = {}
  BY DEF Transaction, WalletInv, NodeTypes
<1> HIDE DEF t
<1>3. BuilderInv'
  BY <1>1, TransactionStays DEF chain_vars
<1>4. NodeTypes'
  BY <1>1, <1>2 DEF WalletInv, NodeTypes, chain_vars, command_vars, Phases
<1>5. OrderInv'
  BY <1>1 DEF WalletInv, OrderInv, command_vars
<1>6. UnmentionedAssetsStay'
  BY <1>1, <1>2 DEF WalletInv, Promises, UnmentionedAssetsStay, InscribedIn, chain_vars
<1>7. CommitIsRecoverable' /\ RevealKeepsPostage'
  BY <1>1, <1>2 DEF WalletInv, Promises, CommitIsRecoverable, RevealKeepsPostage, command_vars
<1> QED BY <1>3, <1>4, <1>5, <1>6, <1>7 DEF WalletInv, Promises

LEMMA FundStep ==
  ASSUME WalletInv, Fund
  PROVE  WalletInv'
<1>1. PICK ins \in SUBSET (Unspent \ locked),
           cunes \in SUBSET (Dunic(listed) \ Inscribed(indexed)) :
        /\ command.kind # "send_cunes" => cunes = {}
        /\ cunes \subseteq Unspent
        /\ Broadcast(command.kind, << >>, ins \cup cunes)
  BY DEF Fund
<1>2. /\ phase = "fund" /\ phase' = "done"
      /\ UNCHANGED <<args, utxos, inputs, outputs, unused_change, chain_vars, locked,
                     imported, indexed, command_vars>>
  BY DEF Fund, Continue
<1> DEFINE t == [kind |-> command.kind, outgoing |-> << >>, inputs |-> ins \cup cunes,
                 known |-> indexed]
<1>3. sent' = sent \cup {t} /\ spent' = spent \cup ins \cup cunes
  BY <1>1 DEF Broadcast
<1>4. /\ command.kind \in {"send_amount", "send_cunes", "etch"}
      /\ command.kind = "etch" => Inscribed(indexed) \subseteq locked
  BY <1>2 DEF WalletInv, OrderInv
<1>5. ins \cup cunes \subseteq confirmed /\ confirmed \subseteq OutPoint /\ indexed \subseteq OutPoint
  BY <1>1 DEF Unspent, WalletInv, NodeTypes
<1>6. t \in Transaction
  BY <1>4, <1>5 DEF Transaction, CommandKind
<1>7. /\ t.kind \in {"send_amount", "send_cunes", "etch"}
      /\ t.kind = "etch" => \A o \in t.inputs : o \in t.known => coin[o].inscribed = {}
  <2>1. ASSUME command.kind = "etch", NEW o \in ins \cup cunes, o \in indexed
        PROVE  coin[o].inscribed = {}
    BY <2>1, <1>1, <1>4 DEF Inscribed
  <2> QED BY <1>4, <2>1
<1> HIDE DEF t
<1>8. BuilderInv'
  <2>1. phase' \notin Chosen
    BY <1>2 DEF Chosen, BuilderPhases
  <2> QED BY <1>2, <2>1, BuilderEnds DEF WalletInv, BuilderInv
<1>9. NodeTypes'
  BY <1>2, <1>3, <1>5, <1>6 DEF WalletInv, NodeTypes, chain_vars, command_vars, Phases
<1>10. OrderInv'
  BY <1>2 DEF WalletInv, OrderInv, command_vars
<1>11. UnmentionedAssetsStay'
  BY <1>2, <1>3, <1>7 DEF WalletInv, Promises, UnmentionedAssetsStay, InscribedIn, chain_vars
<1>12. CommitIsRecoverable' /\ RevealKeepsPostage'
  BY <1>2, <1>4 DEF CommitIsRecoverable, RevealKeepsPostage, command_vars
<1> QED BY <1>8, <1>9, <1>10, <1>11, <1>12 DEF WalletInv, Promises

-----------------------------------------------------------------------------
LEMMA WalletInit ==
  ASSUME Init
  PROVE  WalletInv
<1>1. NodeTypes
  BY DEF Init, NodeTypes, Inscribed, Phases
<1>2. BuilderInv
  BY DEF Init, BuilderInv, BuilderTypes, ArgsInv, InputsInv, ShapeInv, Chosen, BuilderPhases
<1>3. OrderInv
  BY DEF Init, OrderInv
<1>4. Promises
  BY DEF Init, Promises, UnmentionedAssetsStay, CommitIsRecoverable, RevealKeepsPostage
<1> QED BY <1>1, <1>2, <1>3, <1>4 DEF WalletInv

LEMMA WalletStep ==
  ASSUME WalletInv, [Next]_vars
  PROVE  WalletInv'
<1>1. CASE CommandStep
  BY <1>1, ListUnspentStep, ChooseStep, EndStep, BuildTransactionStep, SendTransactionStep,
     BuildRevealStep, BackupRecoveryKeyStep, SendCommitStep, SendRevealStep, LockUnspentStep,
     FundStep DEF CommandStep
<1>2. CASE \E kind \in Kinds : StartCommand(kind)
  BY <1>2, StartCommandStep
<1>3. CASE \E o \in Late : Mine(o)
  BY <1>3, MineStep
<1>4. CASE UNCHANGED vars
  <2>1. UNCHANGED <<builder_vars, chain_vars, node_vars, indexed, command_vars>>
    BY <1>4 DEF vars
  <2>2. BuilderTypes' /\ InputsInv' /\ ShapeInv'
    BY <2>1 DEF WalletInv, BuilderInv, BuilderTypes, InputsInv, ShapeInv, Sendable, Cardinal,
       builder_vars, command_vars
  <2>3. ArgsInv'
    BY <2>1 DEF WalletInv, BuilderInv, ArgsInv, ArgsOK, InscribedIn, Inscribed, Dunic,
       CommitTarget, RevealFee, builder_vars, chain_vars, command_vars
  <2>4. NodeTypes' /\ OrderInv'
    BY <2>1 DEF WalletInv, NodeTypes, OrderInv, Inscribed, builder_vars, chain_vars, node_vars,
       command_vars
  <2>5. Promises'
    BY <2>1 DEF WalletInv, Promises, UnmentionedAssetsStay, CommitIsRecoverable,
       RevealKeepsPostage, InscribedIn, RevealValue, CommitValue, RevealFee, builder_vars,
       chain_vars, node_vars, command_vars
  <2> QED BY <2>2, <2>3, <2>4, <2>5 DEF WalletInv, BuilderInv
<1> QED BY <1>1, <1>2, <1>3, <1>4 DEF Next

THEOREM WalletInvariant == Spec => []WalletInv
BY WalletInit, WalletStep, PTL DEF Spec

(* Every variable has its type: in particular, no method of the builder    *)
(* makes an amount negative, whatever the values, limits and fee rates.    *)
THEOREM WalletTypeCorrect == Spec => []TypeOK
<1>1. WalletInv => TypeOK
  BY TypesMeet DEF WalletInv
<1> QED BY <1>1, WalletInvariant, PTL

(* No transaction of the wallet moves an inscription or cunes that the     *)
(* user did not name, for any wallet and any number of outputs.            *)
THEOREM OnlyNamedAssetsMove == Spec => []UnmentionedAssetsStay
<1>1. WalletInv => UnmentionedAssetsStay
  BY DEF WalletInv, Promises
<1> QED BY <1>1, WalletInvariant, PTL

(* The value of a commit output can be recovered from the moment the node  *)
(* has the transaction.                                                    *)
THEOREM CommitsAreRecoverable == Spec => []CommitIsRecoverable
<1>1. WalletInv => CommitIsRecoverable
  BY DEF WalletInv, Promises
<1> QED BY <1>1, WalletInvariant, PTL

(* A commit output that build lets pass pays for the reveal transaction    *)
(* and the postage, at any fee rate.                                       *)
THEOREM RevealPaysPostage == Spec => []RevealKeepsPostage
<1>1. WalletInv => RevealKeepsPostage
  BY DEF WalletInv, Promises
<1> QED BY <1>1, WalletInvariant, PTL

-----------------------------------------------------------------------------
To(address, value) == [address |-> address, value |-> value]

(* The outputs before and after the change is taken off, x of them the     *)
(* recipient's: with an alignment output or without one.                   *)
Whole(x) ==
  \/ SatOffset = 0 /\ outputs = <<To("recipient", x)>>
  \/ SatOffset > 0 /\ outputs = <<To("change1", SatOffset), To("recipient", x)>>

Stripped(x, y) ==
  \/ SatOffset = 0 /\ outputs = <<To("recipient", x), To("change1", y)>>
  \/ /\ SatOffset > 0
     /\ outputs = <<To("change1", SatOffset), To("recipient", x), To("change0", y)>>

ChangeLeft ==
  unused_change = IF SatOffset = 0 THEN <<"change0", "change1">> ELSE <<"change0">>

Balanced == TotalInput = TotalOutput

AlignmentPaid == SatOffset > 0 => SatOffset >= Dust("recipient")

(* What is left with the recipient after the fee is not worth a change.    *)
KeepsChange(x) ==
  \/ x - EstimateFee <= MaxValue
  \/ x - TargetValue <= 330 + Fee(EstimateVbytes + ADDITIONAL_OUTPUT_VBYTES)

(* The outgoing output is one input, and is not there to be chosen again.  *)
OutgoingOnce ==
  /\ args.outgoing.outpoint \notin utxos
  /\ \A i, j \in DOMAIN inputs :
       inputs[i] = args.outgoing.outpoint /\ inputs[j] = args.outgoing.outpoint => i = j

(* What the builder is asked for can be an output.                         *)
Payable ==
  /\ args.script["change0"] = "p2tr" /\ args.script["change1"] = "p2tr"
  /\ args.target.postage \/ args.target.value >= Dust("recipient")

(* What a transaction is built to, and what each method has made sure of.  *)
NearlyAsserted ==
  /\ SpendsOutgoingOnce
  /\ SentToRecipient
  /\ AddressesDiffer
  /\ SatComesFirst
  /\ FeeIsEstimated
  /\ \A k \in DOMAIN outputs :
       IF outputs[k].address = "recipient"
         THEN /\ outputs[k].value >= MinimumValue - 1
              /\ outputs[k].value <= LargestValue + Slop + 1
         ELSE outputs[k].value >= Dust(IF k = 1 THEN "recipient" ELSE outputs[k].address)

AssertionsInv ==
  /\ phase \in BuilderPhases => Payable
  /\ phase \in BuilderPhases \ {"select_outgoing"} => OutgoingOnce
  /\ phase \in {"select_outgoing", "align_outgoing"} =>
       unused_change = <<"change0", "change1">>
  /\ phase = "align_outgoing" =>
       /\ inputs = <<args.outgoing.outpoint>>
       /\ outputs = <<To("recipient", args.amounts[args.outgoing.outpoint])>>
  /\ phase = "pad_alignment_output" =>
       /\ inputs = <<args.outgoing.outpoint>> /\ ChangeLeft /\ Balanced
       /\ Whole(Last.value) /\ Last.value > 0
  /\ phase = "add_value" =>
       /\ ChangeLeft /\ Balanced /\ AlignmentPaid
       /\ Whole(Last.value) /\ Last.value > 0
  /\ phase = "strip_value" =>
       /\ ChangeLeft /\ Balanced /\ AlignmentPaid
       /\ Whole(Last.value) /\ Last.value >= MinimumValue + EstimateFee - 1
  /\ phase = "deduct_fee" =>
       /\ Balanced /\ AlignmentPaid
       /\ \/ /\ Whole(Last.value) /\ Last.value >= MinimumValue + EstimateFee - 1
             /\ KeepsChange(Last.value)
          \/ Stripped(TargetValue, Last.value) /\ Last.value >= 330 + EstimateFee
  /\ phase \in {"build", "built", "panicked"} => NearlyAsserted

-----------------------------------------------------------------------------
(* Fees of sizes that are added, and of sizes that grow.                   *)
LEMMA FeeAdds ==
  ASSUME ArgsOK, NEW v \in Nat, NEW n \in Nat
  PROVE  Fee(v + n) <= Fee(v) + Fee(n) + 1
<1> DEFINE a == args.fee_rate * v
           b == args.fee_rate * n
<1>1. args.fee_rate \in Nat
  BY BuilderAssumption DEF ArgsOK
<1>2. a \in Nat /\ b \in Nat /\ args.fee_rate * (v + n) = a + b
  BY <1>1
<1>3. /\ 2 * args.fee_rate * v = 2 * a /\ 2 * args.fee_rate * n = 2 * b
      /\ 2 * args.fee_rate * (v + n) = 2 * (a + b)
  BY <1>1
<1> HIDE DEF a, b
<1>4. (2 * (a + b) + 10) \div 20 <= (2 * a + 10) \div 20 + (2 * b + 10) \div 20 + 1
  BY ONLY <1>2
<1> QED BY ONLY <1>3, <1>4 DEF Fee

LEMMA FeeGrows ==
  ASSUME ArgsOK, NEW v \in Nat, NEW w \in Nat, v <= w
  PROVE  Fee(v) <= Fee(w)
<1> DEFINE a == args.fee_rate * v
           b == args.fee_rate * (w - v)
<1>1. args.fee_rate \in Nat
  BY BuilderAssumption DEF ArgsOK
<1>2. a \in Nat /\ b \in Nat
  BY <1>1
<1>3. 2 * args.fee_rate * v = 2 * a /\ 2 * args.fee_rate * w = 2 * (a + b)
  BY <1>1
<1> HIDE DEF a, b
<1>4. (2 * a + 10) \div 20 <= (2 * (a + b) + 10) \div 20
  BY ONLY <1>2
<1> QED BY ONLY <1>3, <1>4 DEF Fee

(* The size of a transaction, from the sizes of its outputs.               *)
SizesOf(outs) == SizeOf(outs, 1) + SizeOf(outs, 2) + SizeOf(outs, 3)

LEMMA VsizeIs ==
  ASSUME NEW ins, NEW outs, Len(ins) \in Nat, SizesOf(outs) \in Nat,
         SizeOf(outs, 1) \in Nat, SizeOf(outs, 2) \in Nat, SizeOf(outs, 3) \in Nat
  PROVE  VsizeOf(ins, outs) = 10 + 41 * Len(ins) + SizesOf(outs) + (66 * Len(ins) + 5) \div 4
<1> DEFINE n == Len(ins)
           a == SizeOf(outs, 1)
           b == SizeOf(outs, 2)
           c == SizeOf(outs, 3)
<1>1. n \in Nat /\ a \in Nat /\ b \in Nat /\ c \in Nat
  OBVIOUS
<1> HIDE DEF n, a, b, c
<1>2. (4 * (10 + 41 * n + a + b + c) + 2 + 66 * n + 3) \div 4
        = 10 + 41 * n + (a + b + c) + (66 * n + 5) \div 4
  BY ONLY <1>1
<1> QED BY ONLY <1>2 DEF VsizeOf, SizesOf, n, a, b, c

(* The size for n inputs and k outputs beside the recipient's.             *)
VsizeFor(n, k) ==
  10 + 41 * n + TxOutSize[args.script["recipient"]] + 43 * k + (66 * n + 5) \div 4

LEMMA VsizeForType ==
  ASSUME ArgsOK, NEW n \in Nat, NEW k \in Nat
  PROVE  /\ VsizeFor(n, k) \in Nat
         /\ VsizeFor(n + 1, k) <= VsizeFor(n, k) + ADDITIONAL_INPUT_VBYTES
         /\ VsizeFor(n, k + 1) = VsizeFor(n, k) + ADDITIONAL_OUTPUT_VBYTES
<1> DEFINE r == TxOutSize[args.script["recipient"]]
<1>1. r \in Nat
  BY DustType DEF ArgsOK, Address
<1> HIDE DEF r
<1>2. /\ 10 + 41 * n + r + 43 * k + (66 * n + 5) \div 4 \in Nat
      /\ 10 + 41 * (n + 1) + r + 43 * k + (66 * (n + 1) + 5) \div 4
           <= 10 + 41 * n + r + 43 * k + (66 * n + 5) \div 4 + 58
      /\ 10 + 41 * n + r + 43 * (k + 1) + (66 * n + 5) \div 4
           = 10 + 41 * n + r + 43 * k + (66 * n + 5) \div 4 + 43
  <2>1. (66 * (n + 1) + 5) \div 4 <= (66 * n + 5) \div 4 + 17 /\ (66 * n + 5) \div 4 \in Nat
    OBVIOUS
  <2> QED BY ONLY <1>1, <2>1, n \in Nat, k \in Nat
<1> QED BY ONLY <1>2 DEF VsizeFor, ADDITIONAL_INPUT_VBYTES, ADDITIONAL_OUTPUT_VBYTES, r

LEMMA VsizeOfShapes ==
  ASSUME ArgsOK, Payable, NEW ins, Len(ins) \in Nat
  PROVE  /\ \A x : VsizeOf(ins, <<To("recipient", x)>>) = VsizeFor(Len(ins), 0)
         /\ \A x, z : VsizeOf(ins, <<To("change1", z), To("recipient", x)>>)
                       = VsizeFor(Len(ins), 1)
         /\ \A x, y : VsizeOf(ins, <<To("recipient", x), To("change1", y)>>)
                       = VsizeFor(Len(ins), 1)
         /\ \A x, y, z :
              VsizeOf(ins, <<To("change1", z), To("recipient", x), To("change0", y)>>)
                = VsizeFor(Len(ins), 2)
<1> SUFFICES ASSUME NEW x, NEW y, NEW z
             PROVE  /\ VsizeOf(ins, <<To("recipient", x)>>) = VsizeFor(Len(ins), 0)
                    /\ VsizeOf(ins, <<To("change1", z), To("recipient", x)>>) = VsizeFor(Len(ins), 1)
                    /\ VsizeOf(ins, <<To("recipient", x), To("change1", y)>>) = VsizeFor(Len(ins), 1)
                    /\ VsizeOf(ins, <<To("change1", z), To("recipient", x), To("change0", y)>>)
                         = VsizeFor(Len(ins), 2)
  OBVIOUS
<1> DEFINE r == TxOutSize[args.script["recipient"]]
<1>1. r \in Nat
  BY DustType DEF ArgsOK, Address
<1>2. TxOutSize[args.script["change0"]] = 43 /\ TxOutSize[args.script["change1"]] = 43
  BY DEF Payable, TxOutSize
<1> HIDE DEF r
<1>3. \A o : /\ SizeOf(<<o>>, 1) = TxOutSize[args.script[o.address]]
            /\ SizeOf(<<o>>, 2) = 0 /\ SizeOf(<<o>>, 3) = 0
  BY DEF SizeOf
<1>4. \A o, p : /\ SizeOf(<<o, p>>, 1) = TxOutSize[args.script[o.address]]
                /\ SizeOf(<<o, p>>, 2) = TxOutSize[args.script[p.address]]
                /\ SizeOf(<<o, p>>, 3) = 0
  BY DEF SizeOf
<1>5. \A o, p, q : /\ SizeOf(<<o, p, q>>, 1) = TxOutSize[args.script[o.address]]
                   /\ SizeOf(<<o, p, q>>, 2) = TxOutSize[args.script[p.address]]
                   /\ SizeOf(<<o, p, q>>, 3) = TxOutSize[args.script[q.address]]
  BY DEF SizeOf
<1>6. /\ To("recipient", x).address = "recipient" /\ To("change1", y).address = "change1"
      /\ To("change1", z).address = "change1" /\ To("change0", y).address = "change0"
  BY DEF To
<1>7. /\ SizeOf(<<To("recipient", x)>>, 1) = r
      /\ SizeOf(<<To("recipient", x)>>, 2) = 0 /\ SizeOf(<<To("recipient", x)>>, 3) = 0
  BY <1>3, <1>6 DEF r
<1>8. LET outs == <<To("change1", z), To("recipient", x)>>
      IN  SizeOf(outs, 1) = 43 /\ SizeOf(outs, 2) = r /\ SizeOf(outs, 3) = 0
  BY <1>2, <1>4, <1>6 DEF r
<1>9. LET outs == <<To("recipient", x), To("change1", y)>>
      IN  SizeOf(outs, 1) = r /\ SizeOf(outs, 2) = 43 /\ SizeOf(outs, 3) = 0
  BY <1>2, <1>4, <1>6 DEF r
<1>10. LET outs == <<To("change1", z), To("recipient", x), To("change0", y)>>
      IN  SizeOf(outs, 1) = 43 /\ SizeOf(outs, 2) = r /\ SizeOf(outs, 3) = 43
  BY <1>2, <1>5, <1>6 DEF r
<1>11. ASSUME NEW outs, NEW k \in Nat,
             SizeOf(outs, 1) \in Nat, SizeOf(outs, 2) \in Nat, SizeOf(outs, 3) \in Nat,
             SizeOf(outs, 1) + SizeOf(outs, 2) + SizeOf(outs, 3) = r + 43 * k
      PROVE  VsizeOf(ins, outs) = VsizeFor(Len(ins), k)
  <2>1. SizesOf(outs) = r + 43 * k
    BY <1>11 DEF SizesOf
  <2>2. VsizeOf(ins, outs) = 10 + 41 * Len(ins) + (r + 43 * k) + (66 * Len(ins) + 5) \div 4
    BY <1>1, <1>11, <2>1, VsizeIs
  <2>3. (66 * Len(ins) + 5) \div 4 \in Int
    OBVIOUS
  <2> QED BY ONLY <2>2, <2>3, <1>1, Len(ins) \in Nat, k \in Nat DEF VsizeFor, r
<1>12. VsizeOf(ins, <<To("recipient", x)>>) = VsizeFor(Len(ins), 0)
  BY <1>1, <1>7, <1>11
<1>13. VsizeOf(ins, <<To("change1", z), To("recipient", x)>>) = VsizeFor(Len(ins), 1)
  BY <1>1, <1>8, <1>11
<1>14. VsizeOf(ins, <<To("recipient", x), To("change1", y)>>) = VsizeFor(Len(ins), 1)
  <2> DEFINE outs == <<To("recipient", x), To("change1", y)>>
  <2>1. /\ SizeOf(outs, 1) \in Nat /\ SizeOf(outs, 2) \in Nat /\ SizeOf(outs, 3) \in Nat
        /\ SizeOf(outs, 1) + SizeOf(outs, 2) + SizeOf(outs, 3) = r + 43 * 1
    BY <1>1, <1>9
  <2> HIDE DEF outs
  <2>2. VsizeOf(ins, outs) = VsizeFor(Len(ins), 1)
    BY <1>11, <2>1
  <2> QED BY <2>2 DEF outs
<1>15. VsizeOf(ins, <<To("change1", z), To("recipient", x), To("change0", y)>>)
         = VsizeFor(Len(ins), 2)
  BY <1>1, <1>10, <1>11
<1> QED BY <1>12, <1>13, <1>14, <1>15

(* What the outputs come to, and which is the last.                        *)
ShapeFacts ==
  /\ \A x \in Nat : Whole(x) /\ SatOffset \in Nat =>
       /\ TotalOutput = SatOffset + x /\ Last.value = x
       /\ \A v : WithLast(v) = IF SatOffset = 0 THEN <<To("recipient", v)>>
                               ELSE <<To("change1", SatOffset), To("recipient", v)>>
  /\ \A x, y \in Nat : Stripped(x, y) /\ SatOffset \in Nat =>
       /\ TotalOutput = SatOffset + x + y /\ Last.value = y
       /\ \A v : WithLast(v) =
                   IF SatOffset = 0 THEN <<To("recipient", x), To("change1", v)>>
                   ELSE <<To("change1", SatOffset), To("recipient", x), To("change0", v)>>

LEMMA ShapeFactsHold == ShapeFacts
<1>0. \A a, v, w : To(a, v).value = v /\ To(a, v).address = a
                     /\ [To(a, v) EXCEPT !.value = w] = To(a, w)
  BY DEF To
<1>1. ASSUME NEW x \in Nat, Whole(x), SatOffset \in Nat
      PROVE  /\ TotalOutput = SatOffset + x /\ Last.value = x
             /\ \A v : WithLast(v) = IF SatOffset = 0 THEN <<To("recipient", v)>>
                                     ELSE <<To("change1", SatOffset), To("recipient", v)>>
  <2>1. CASE SatOffset = 0
    <3>1. outputs = <<To("recipient", x)>>
      BY <1>1, <2>1 DEF Whole
    <3>2. OutputValue(1) = x /\ OutputValue(2) = 0 /\ OutputValue(3) = 0
      BY <1>0, <3>1 DEF OutputValue
    <3>3. Last.value = x
      BY <1>0, <3>1 DEF Last
    <3>4. \A v : WithLast(v) = <<To("recipient", v)>>
      <4>1. Len(outputs) = 1 /\ DOMAIN outputs = {1} /\ outputs[1] = To("recipient", x)
        BY <3>1
      <4> QED BY <1>0, <3>1, <4>1 DEF WithLast
    <3> QED BY ONLY <2>1, <3>2, <3>3, <3>4, x \in Nat DEF TotalOutput
  <2>2. CASE SatOffset > 0
    <3>1. outputs = <<To("change1", SatOffset), To("recipient", x)>>
      BY <1>1, <2>2 DEF Whole
    <3>2. OutputValue(1) = SatOffset /\ OutputValue(2) = x /\ OutputValue(3) = 0
      BY <1>0, <3>1 DEF OutputValue
    <3>3. Last.value = x
      BY <1>0, <3>1 DEF Last
    <3>4. \A v : WithLast(v) = <<To("change1", SatOffset), To("recipient", v)>>
      <4>1. /\ Len(outputs) = 2 /\ DOMAIN outputs = {1, 2}
            /\ outputs[1] = To("change1", SatOffset) /\ outputs[2] = To("recipient", x)
        BY <3>1
      <4> QED BY <1>0, <3>1, <4>1 DEF WithLast
    <3> QED BY ONLY <1>1, <2>2, <3>2, <3>3, <3>4, x \in Nat DEF TotalOutput
  <2> QED BY ONLY <1>1, <2>1, <2>2
<1>2. ASSUME NEW x \in Nat, NEW y \in Nat, Stripped(x, y), SatOffset \in Nat
      PROVE  /\ TotalOutput = SatOffset + x + y /\ Last.value = y
             /\ \A v : WithLast(v) =
                   IF SatOffset = 0 THEN <<To("recipient", x), To("change1", v)>>
                   ELSE <<To("change1", SatOffset), To("recipient", x), To("change0", v)>>
  <2>1. CASE SatOffset = 0
    <3>1. outputs = <<To("recipient", x), To("change1", y)>>
      BY <1>2, <2>1 DEF Stripped
    <3>2. OutputValue(1) = x /\ OutputValue(2) = y /\ OutputValue(3) = 0
      BY <1>0, <3>1 DEF OutputValue
    <3>3. Last.value = y
      BY <1>0, <3>1 DEF Last
    <3>4. \A v : WithLast(v) = <<To("recipient", x), To("change1", v)>>
      <4>1. /\ Len(outputs) = 2 /\ DOMAIN outputs = {1, 2}
            /\ outputs[1] = To("recipient", x) /\ outputs[2] = To("change1", y)
        BY <3>1
      <4> QED BY <1>0, <3>1, <4>1 DEF WithLast
    <3> QED BY ONLY <2>1, <3>2, <3>3, <3>4, x \in Nat, y \in Nat DEF TotalOutput
  <2>2. CASE SatOffset > 0
    <3>1. outputs = <<To("change1", SatOffset), To("recipient", x), To("change0", y)>>
      BY <1>2, <2>2 DEF Stripped
    <3>2. OutputValue(1) = SatOffset /\ OutputValue(2) = x /\ OutputValue(3) = y
      BY <1>0, <3>1 DEF OutputValue
    <3>3. Last.value = y
      BY <1>0, <3>1 DEF Last
    <3>4. \A v : WithLast(v) =
                   <<To("change1", SatOffset), To("recipient", x), To("change0", v)>>
      <4>1. /\ Len(outputs) = 3 /\ DOMAIN outputs = {1, 2, 3}
            /\ outputs[1] = To("change1", SatOffset) /\ outputs[2] = To("recipient", x)
            /\ outputs[3] = To("change0", y)
        BY <3>1
      <4> QED BY <1>0, <3>1, <4>1 DEF WithLast
    <3> QED BY ONLY <1>2, <2>2, <3>2, <3>3, <3>4, x \in Nat, y \in Nat DEF TotalOutput
  <2> QED BY ONLY <1>2, <2>1, <2>2
<1> QED BY <1>1, <1>2 DEF ShapeFacts

(* One input, the outgoing one.                                            *)
LEMMA OneInput ==
  ASSUME ArgsOK, Sendable, inputs = <<args.outgoing.outpoint>>
  PROVE  /\ SatOffset = args.outgoing.offset /\ SatOffset \in Nat
         /\ TotalInput = args.amounts[args.outgoing.outpoint]
         /\ args.amounts[args.outgoing.outpoint] \in Nat
         /\ SatOffset < args.amounts[args.outgoing.outpoint]
<1> DEFINE o == args.outgoing.outpoint
<1>1. DOMAIN inputs = {1} /\ inputs[1] = o
  OBVIOUS
<1>2. args.outgoing.offset \in Nat /\ args.amounts[o] \in Nat
      /\ args.outgoing.offset < args.amounts[o]
  BY DEF ArgsOK, SatPoint, Sendable
<1>3. OutgoingInput = 1
  BY <1>1 DEF OutgoingInput
<1>4. SatOffset = args.outgoing.offset
  BY <1>2, <1>3 DEF SatOffset, InputsBefore
<1>5. InputValue(1) = args.amounts[o] /\ InputValue(2) = 0 /\ InputValue(3) = 0
  BY <1>1 DEF InputValue
<1>6. TotalInput = args.amounts[o]
  BY ONLY <1>2, <1>5 DEF TotalInput
<1> QED BY <1>2, <1>4, <1>6

(* What a step of the builder keeps of the assertions' invariant.          *)
LEMMA ArgumentsStay ==
  ASSUME AssertionsInv, args' = args, phase \in BuilderPhases
  PROVE  Payable'
BY DEF AssertionsInv, Payable, Dust

LEMMA SatStays ==
  ASSUME args' = args, inputs' = inputs
  PROVE  /\ SatOffset' = SatOffset /\ TotalInput' = TotalInput
         /\ MinimumValue' = MinimumValue /\ MaxValue' = MaxValue
         /\ TargetValue' = TargetValue /\ Dust("recipient")' = Dust("recipient")
BY DEF SatOffset, OutgoingInput, InputsBefore, InputValue, TotalInput, MinimumValue, MaxValue,
       TargetValue, Dust

(* A step that leaves the builder before the transaction is complete.      *)
LEMMA RejectAsserts ==
  ASSUME AssertionsInv, phase' \notin BuilderPhases \cup {"built", "panicked"}
  PROVE  AssertionsInv'
BY DEF AssertionsInv, BuilderPhases

LEMMA SelectOutgoingAsserts ==
  ASSUME BuilderInv, AssertionsInv, SelectOutgoing
  PROVE  AssertionsInv'
<1>1. CASE Reject("select_outgoing")
  <2>1. phase' = "rejected"
    BY <1>1 DEF Reject, Goto
  <2> QED BY <2>1, RejectAsserts DEF BuilderPhases
<1>2. CASE ~ Reject("select_outgoing")
  <2> DEFINE o == args.outgoing.outpoint
  <2>1. /\ phase = "select_outgoing" /\ phase' = "align_outgoing" /\ args' = args
        /\ utxos' = utxos \ {o} /\ inputs' = Append(inputs, o)
        /\ outputs' = Append(outputs, [address |-> "recipient", value |-> args.amounts[o]])
        /\ unused_change' = unused_change
    BY <1>2 DEF SelectOutgoing, Goto
  <2>2. phase \in BuilderPhases
    BY <2>1 DEF BuilderPhases
  <2>3. inputs = << >> /\ outputs = << >>
    BY <2>1 DEF BuilderInv, ShapeInv
  <2>4. inputs' = <<o>> /\ outputs' = <<To("recipient", args.amounts[o])>>
    BY <2>1, <2>3 DEF To
  <2>5. OutgoingOnce'
    BY <2>1, <2>4 DEF OutgoingOnce
  <2>6. Payable'
    BY <2>1, <2>2, ArgumentsStay
  <2> QED BY <2>1, <2>4, <2>5, <2>6 DEF AssertionsInv
<1> QED BY <1>1, <1>2

LEMMA AlignOutgoingAsserts ==
  ASSUME BuilderInv, AssertionsInv, AlignOutgoing
  PROVE  AssertionsInv'
<1> DEFINE o == args.outgoing.outpoint
           a == args.amounts[o]
<1>1. /\ phase = "align_outgoing" /\ phase' = "pad_alignment_output" /\ args' = args
      /\ utxos' = utxos /\ inputs' = inputs
  BY DEF AlignOutgoing, Goto
<1>2. phase \in BuilderPhases /\ phase \in Chosen \ {"select_outgoing"}
  BY <1>1 DEF BuilderPhases, Chosen
<1>3. /\ inputs = <<o>> /\ outputs = <<To("recipient", a)>>
      /\ unused_change = <<"change0", "change1">> /\ OutgoingOnce
  BY <1>1, <1>2 DEF AssertionsInv
<1>4. ArgsOK /\ Sendable
  BY <1>2 DEF BuilderInv, ArgsInv, InputsInv
<1>5. SatOffset \in Nat /\ a \in Nat /\ SatOffset < a /\ TotalInput = a
  BY <1>3, <1>4, OneInput
<1>6. SatOffset' = SatOffset /\ TotalInput' = TotalInput
  BY <1>1, SatStays
<1>7. /\ outputs' = IF SatOffset = 0 THEN <<To("recipient", a)>>
                    ELSE <<To("change1", SatOffset), To("recipient", a - SatOffset)>>
      /\ unused_change' = IF SatOffset = 0 THEN <<"change0", "change1">> ELSE <<"change0">>
  <2>1. Last = To("recipient", a) /\ Last.value = a
    BY <1>3 DEF Last, To
  <2>2. WithLast(a - SatOffset) = <<To("recipient", a - SatOffset)>>
    <3>1. Len(outputs) = 1 /\ DOMAIN outputs = {1} /\ outputs[1] = To("recipient", a)
      BY <1>3
    <3>2. [To("recipient", a) EXCEPT !.value = a - SatOffset] = To("recipient", a - SatOffset)
      BY DEF To
    <3> QED BY <1>3, <3>1, <3>2 DEF WithLast
  <2>3. NextChange = "change1" /\ WithoutNextChange = <<"change0">>
    <3>1. Len(unused_change) = 2 /\ unused_change[2] = "change1"
      BY <1>3
    <3>2. SubSeq(unused_change, 1, 1) = <<"change0">>
      <4> DEFINE c == SubSeq(unused_change, 1, 1)
      <4>1. c \in Seq(Address) /\ Len(c) = 1 /\ c[1] = "change0"
        BY <1>3 DEF Address
      <4> HIDE DEF c
      <4>2. c = <<"change0">>
        BY <4>1
      <4> QED BY <4>2 DEF c
    <3> QED BY <3>1, <3>2 DEF NextChange, WithoutNextChange
  <2>4. SatOffset # 0 => outputs' = <<To("change1", SatOffset)>> \o <<To("recipient", a - SatOffset)>>
    BY <2>1, <2>2, <2>3 DEF AlignOutgoing, To
  <2>5. SatOffset # 0 => unused_change' = <<"change0">>
    BY <2>3 DEF AlignOutgoing
  <2>6. SatOffset = 0 => outputs' = outputs /\ unused_change' = unused_change
    BY DEF AlignOutgoing
  <2> QED BY <1>3, <2>4, <2>5, <2>6
<1>8. ChangeLeft'
  BY <1>6, <1>7 DEF ChangeLeft
<1>9. PICK x \in Nat : x = a - SatOffset /\ x > 0
  BY <1>5
<1>10. Whole(x)' /\ Last.value' = x /\ TotalOutput' = a
  <2>1. ShapeFacts'
    BY ShapeFactsHold, PTL
  <2>2. (SatOffset \in Nat)' /\ Whole(x)'
    BY <1>5, <1>6, <1>7, <1>9 DEF Whole
  <2>3. TotalOutput' = SatOffset' + x /\ Last.value' = x
    BY <2>1, <2>2 DEF ShapeFacts
  <2> QED BY <2>2, <2>3, <1>5, <1>6, <1>9
<1>11. OutgoingOnce'
  BY <1>1, <1>3 DEF OutgoingOnce
<1>12. Payable'
  BY <1>1, <1>2, ArgumentsStay
<1>13. Balanced' /\ (Whole(Last.value) /\ Last.value > 0)'
  BY <1>5, <1>6, <1>9, <1>10 DEF Balanced, Whole
<1> QED BY <1>1, <1>3, <1>8, <1>11, <1>12, <1>13 DEF AssertionsInv

-----------------------------------------------------------------------------
(* What the assertions of build need of the outputs.                       *)
ReadyToBuild ==
  /\ ArgsOK /\ Payable /\ SatOffset \in Nat /\ AlignmentPaid /\ OutgoingOnce
  /\ \E i \in DOMAIN inputs : inputs[i] = args.outgoing.outpoint
  /\ TotalInput - TotalOutput = EstimateFee

WholeBuilds ==
  \A x \in Nat :
    /\ ReadyToBuild /\ Whole(x) /\ x >= MinimumValue - 1
    /\ x <= MaxValue \/ x - TargetValue <= 330 + Slop + 1
    => NearlyAsserted

StrippedBuilds ==
  \A y \in Nat : ReadyToBuild /\ Stripped(TargetValue, y) /\ y >= 330 => NearlyAsserted

(* The values asked for, in the order of their sizes.                      *)
LEMMA TargetsAre ==
  ASSUME ArgsOK, Payable
  PROVE  /\ Dust("recipient") \in Nat /\ Dust("change0") = 330 /\ Dust("change1") = 330
         /\ LargestChangeDust = 330
         /\ MinimumValue \in Nat /\ TargetValue \in Nat /\ MaxValue \in Nat
         /\ MinimumValue >= Dust("recipient") /\ TargetValue >= Dust("recipient")
         /\ Slop \in Nat /\ Dust("recipient") >= 294 /\ Dust("recipient") <= 546
         /\ args.target.postage =>
              TargetValue = 10000 /\ MaxValue = 20000
         /\ ~args.target.postage =>
              /\ MinimumValue = args.target.value /\ TargetValue = args.target.value
              /\ MaxValue = args.target.value
<1>1. args.script["recipient"] \in Script /\ args.target \in Target
  BY DEF ArgsOK, Address
<1>2. Dust("recipient") \in Nat /\ Dust("recipient") >= 294 /\ Dust("recipient") <= 546
  BY <1>1 DEF Dust, DustValue, Script
<1>3. Dust("change0") = 330 /\ Dust("change1") = 330 /\ LargestChangeDust = 330
  BY DEF Payable, Dust, DustValue, LargestChangeDust
<1>4. args.target.value \in Nat
  BY <1>1 DEF Target
<1>5. Slop \in Nat
  BY FeeType DEF Slop, ADDITIONAL_OUTPUT_VBYTES
<1> QED
  BY <1>2, <1>3, <1>4, <1>5
  DEF Payable, MinimumValue, TargetValue, MaxValue, TARGET_POSTAGE, MAX_POSTAGE

LEMMA OutgoingIsSpentOnce ==
  ASSUME ReadyToBuild
  PROVE  SpendsOutgoingOnce
BY DEF ReadyToBuild, OutgoingOnce, SpendsOutgoingOnce

(* The recipient's value is on target.                                     *)
OnTarget(x) == x >= MinimumValue - 1 /\ x <= LargestValue + Slop + 1

LEMMA WholeBuildsHolds == WholeBuilds
<1> DEFINE Near(k) == IF outputs[k].address = "recipient" THEN OnTarget(outputs[k].value)
                      ELSE outputs[k].value >= Dust(IF k = 1 THEN "recipient" ELSE outputs[k].address)
<1> SUFFICES ASSUME NEW x \in Nat, ReadyToBuild, Whole(x), x >= MinimumValue - 1,
                    x <= MaxValue \/ x - TargetValue <= 330 + Slop + 1
             PROVE  NearlyAsserted
  BY DEF WholeBuilds
<1>0. \A a, v : To(a, v).value = v /\ To(a, v).address = a
  BY DEF To
<1>1. ArgsOK /\ Payable /\ SatOffset \in Nat
  BY DEF ReadyToBuild
<1>2. OnTarget(x)
  BY <1>1, TargetsAre DEF OnTarget, LargestValue, MAX_POSTAGE
<1>3. x > 0
  BY <1>1, TargetsAre
<1>4. SpendsOutgoingOnce /\ FeeIsEstimated
  BY OutgoingIsSpentOnce DEF ReadyToBuild, FeeIsEstimated
<1>5. CASE SatOffset = 0
  <2>1. outputs = <<To("recipient", x)>>
    BY <1>5 DEF Whole
  <2>2. /\ DOMAIN outputs = {1} /\ outputs[1].address = "recipient" /\ outputs[1].value = x
        /\ OutputValue(1) = x /\ OutputsBefore(1) = 0
    BY <1>0, <2>1 DEF OutputValue, OutputsBefore
  <2>3. SentToRecipient
    BY <1>3, <1>5, <2>2 DEF SentToRecipient, HoldsOutgoing
  <2>4. AddressesDiffer /\ SatComesFirst
    BY <1>5, <2>2 DEF AddressesDiffer, SatComesFirst
  <2>5. \A k \in DOMAIN outputs : Near(k)
    BY <1>2, <2>2
  <2> QED BY <1>4, <2>3, <2>4, <2>5 DEF NearlyAsserted, OnTarget
<1>6. CASE SatOffset > 0
  <2>1. outputs = <<To("change1", SatOffset), To("recipient", x)>>
    BY <1>6 DEF Whole
  <2>2. /\ DOMAIN outputs = {1, 2}
        /\ outputs[1].address = "change1" /\ outputs[1].value = SatOffset
        /\ outputs[2].address = "recipient" /\ outputs[2].value = x
        /\ OutputValue(1) = SatOffset /\ OutputValue(2) = x
    BY <1>0, <2>1 DEF OutputValue
  <2>3. OutputsBefore(2) = SatOffset
    BY <1>1, <2>2 DEF OutputsBefore
  <2>4. SentToRecipient
    BY <1>1, <1>3, <2>2, <2>3 DEF SentToRecipient, HoldsOutgoing
  <2>5. AddressesDiffer /\ SatComesFirst
    BY <2>2, <2>3 DEF AddressesDiffer, SatComesFirst
  <2>6. \A k \in DOMAIN outputs : Near(k)
    <3>1. SatOffset >= Dust("recipient")
      BY <1>6 DEF ReadyToBuild, AlignmentPaid
    <3> QED BY <1>2, <2>2, <3>1
  <2> QED BY <1>4, <2>4, <2>5, <2>6 DEF NearlyAsserted, OnTarget
<1> QED BY <1>1, <1>5, <1>6

LEMMA StrippedBuildsHolds == StrippedBuilds
<1> SUFFICES ASSUME NEW y \in Nat, ReadyToBuild, Stripped(TargetValue, y), y >= 330
             PROVE  NearlyAsserted
  BY DEF StrippedBuilds
<1> DEFINE x == TargetValue
<1>0. \A a, v : To(a, v).value = v /\ To(a, v).address = a
  BY DEF To
<1>1. ArgsOK /\ Payable /\ SatOffset \in Nat
  BY DEF ReadyToBuild
<1>2. OnTarget(x)
  <2>1. x \in Nat /\ Slop \in Nat /\ LargestChangeDust = 330
    BY <1>1, TargetsAre
  <2>2. CASE args.target.postage
    <3>1. MinimumValue = Dust("recipient") /\ LargestValue = 20000 /\ x = 10000
      BY <1>1, <2>2, TargetsAre DEF MinimumValue, LargestValue, MAX_POSTAGE
    <3>2. Dust("recipient") \in Nat /\ Dust("recipient") <= 546
      BY <1>1, TargetsAre
    <3> QED BY ONLY <2>1, <3>1, <3>2 DEF OnTarget
  <2>3. CASE ~ args.target.postage
    <3>1. MinimumValue = x /\ LargestValue = x + 330
      BY <1>1, <2>1, <2>3, TargetsAre DEF LargestValue
    <3> QED BY ONLY <2>1, <3>1 DEF OnTarget
  <2> QED BY <2>2, <2>3
<1>3. x \in Nat /\ x > 0
  BY <1>1, TargetsAre
<1>4. SpendsOutgoingOnce /\ FeeIsEstimated
  BY OutgoingIsSpentOnce DEF ReadyToBuild, FeeIsEstimated
<1>5. y >= Dust("change0") /\ y >= Dust("change1")
  BY <1>1, TargetsAre
<1> DEFINE Near(k) == IF outputs[k].address = "recipient" THEN OnTarget(outputs[k].value)
                      ELSE outputs[k].value >= Dust(IF k = 1 THEN "recipient" ELSE outputs[k].address)
<1>6. Stripped(x, y)
  OBVIOUS
<1> HIDE DEF x
<1>7. CASE SatOffset = 0
  <2>1. outputs = <<To("recipient", x), To("change1", y)>>
    BY <1>6, <1>7 DEF Stripped
  <2>2. /\ DOMAIN outputs = {1, 2}
        /\ outputs[1].address = "recipient" /\ outputs[1].value = x
        /\ outputs[2].address = "change1" /\ outputs[2].value = y
        /\ OutputValue(1) = x /\ OutputsBefore(1) = 0
    BY <1>0, <2>1 DEF OutputValue, OutputsBefore
  <2>3. SentToRecipient
    BY <1>3, <1>7, <2>2 DEF SentToRecipient, HoldsOutgoing
  <2>4. AddressesDiffer /\ SatComesFirst
    BY <1>7, <2>2 DEF AddressesDiffer, SatComesFirst
  <2>5. \A k \in DOMAIN outputs : Near(k)
    BY <1>2, <1>5, <2>2
  <2> QED BY <1>4, <2>3, <2>4, <2>5 DEF NearlyAsserted, OnTarget
<1>8. CASE SatOffset > 0
  <2>1. outputs = <<To("change1", SatOffset), To("recipient", x), To("change0", y)>>
    BY <1>6, <1>8 DEF Stripped
  <2>2. /\ DOMAIN outputs = {1, 2, 3}
        /\ outputs[1].address = "change1" /\ outputs[1].value = SatOffset
        /\ outputs[2].address = "recipient" /\ outputs[2].value = x
        /\ outputs[3].address = "change0" /\ outputs[3].value = y
        /\ OutputValue(1) = SatOffset /\ OutputValue(2) = x
    BY <1>0, <2>1 DEF OutputValue
  <2>3. OutputsBefore(2) = SatOffset
    BY <1>1, <2>2 DEF OutputsBefore
  <2>4. SentToRecipient
    BY <1>1, <1>3, <2>2, <2>3 DEF SentToRecipient, HoldsOutgoing
  <2>5. AddressesDiffer /\ SatComesFirst
    BY <2>2, <2>3 DEF AddressesDiffer, SatComesFirst
  <2>6. \A k \in DOMAIN outputs : Near(k)
    <3>1. SatOffset >= Dust("recipient")
      BY <1>8 DEF ReadyToBuild, AlignmentPaid
    <3> QED BY <1>2, <1>5, <2>2, <3>1
  <2> QED BY <1>4, <2>4, <2>5, <2>6 DEF NearlyAsserted, OnTarget
<1> QED BY <1>1, <1>7, <1>8

(* The size of the transaction under way.                                  *)
Extra == IF SatOffset = 0 THEN 0 ELSE 1

SizeFacts ==
  ArgsOK /\ Payable /\ Len(inputs) \in Nat /\ SatOffset \in Nat =>
    \A x, y : /\ Whole(x) => EstimateVbytes = VsizeFor(Len(inputs), Extra)
              /\ Stripped(x, y) => EstimateVbytes = VsizeFor(Len(inputs), Extra + 1)

LEMMA SizeFactsHold == SizeFacts
<1> SUFFICES ASSUME ArgsOK, Payable, Len(inputs) \in Nat, SatOffset \in Nat, NEW x, NEW y
             PROVE  /\ Whole(x) => EstimateVbytes = VsizeFor(Len(inputs), Extra)
                    /\ Stripped(x, y) => EstimateVbytes = VsizeFor(Len(inputs), Extra + 1)
  BY DEF SizeFacts
<1>1. ASSUME Whole(x) PROVE EstimateVbytes = VsizeFor(Len(inputs), Extra)
  <2>1. CASE SatOffset = 0
    BY <1>1, <2>1, VsizeOfShapes DEF Whole, Extra, EstimateVbytes
  <2>2. CASE SatOffset > 0
    BY <1>1, <2>2, VsizeOfShapes DEF Whole, Extra, EstimateVbytes
  <2> QED BY <2>1, <2>2
<1>2. ASSUME Stripped(x, y) PROVE EstimateVbytes = VsizeFor(Len(inputs), Extra + 1)
  <2>1. CASE SatOffset = 0
    <3>1. Extra + 1 = 1
      BY <2>1 DEF Extra
    <3> QED BY <1>2, <2>1, <3>1, VsizeOfShapes DEF Stripped, EstimateVbytes
  <2>2. CASE SatOffset > 0
    <3>1. Extra + 1 = 2
      BY <2>2 DEF Extra
    <3> QED BY <1>2, <2>2, <3>1, VsizeOfShapes DEF Stripped, EstimateVbytes
  <2> QED BY <2>1, <2>2
<1> QED BY <1>1, <1>2

-----------------------------------------------------------------------------
LEMMA SelectCardinalEnough ==
  ASSUME utxos \subseteq OutPoint, NEW minimum, LargeEnough(minimum) # {}
  PROVE  /\ SelectCardinal(minimum) \in utxos
         /\ args.amounts[SelectCardinal(minimum)] >= minimum
<1>1. LargeEnough(minimum) \in SUBSET Nat
  BY BuilderAssumption DEF LargeEnough
<1>2. \E o \in LargeEnough(minimum) : \A p \in LargeEnough(minimum) : o <= p
  BY <1>1, LeastElement
<1>3. SelectCardinal(minimum) \in LargeEnough(minimum)
  BY <1>2 DEF SelectCardinal
<1> QED BY <1>3 DEF LargeEnough

LEMMA PadAlignmentOutputAsserts ==
  ASSUME BuilderInv, AssertionsInv, PadAlignmentOutput
  PROVE  AssertionsInv'
<1> DEFINE o == args.outgoing.outpoint
           d == Dust("recipient")
<1>1. /\ phase = "pad_alignment_output" /\ args' = args
      /\ phase' \in {"add_value", "rejected"}
  BY DEF PadAlignmentOutput, Goto, Reject
<1>2. phase \in BuilderPhases /\ phase \in Chosen \ {"select_outgoing"}
  BY <1>1 DEF BuilderPhases, Chosen
<1>3. /\ inputs = <<o>> /\ ChangeLeft /\ Balanced /\ OutgoingOnce /\ Payable
      /\ Whole(Last.value) /\ Last.value > 0
  BY <1>1, <1>2 DEF AssertionsInv
<1>4. ArgsOK /\ Sendable /\ utxos \subseteq OutPoint /\ utxos \subseteq DOMAIN args.amounts
  BY <1>2 DEF BuilderInv, BuilderTypes, ArgsInv, InputsInv, ShapeInv
<1>5. /\ SatOffset \in Nat /\ SatOffset = args.outgoing.offset
      /\ TotalInput = args.amounts[o] /\ args.amounts[o] \in Nat
  BY <1>3, <1>4, OneInput
<1>6. d \in Nat
  BY <1>3, <1>4, TargetsAre
<1>7. PICK x \in Nat : x = Last.value /\ Whole(x) /\ x > 0
  <2>1. Last \in Output
    BY <1>1, WithLastType DEF BuilderInv, BuilderTypes, ShapeInv
  <2> QED BY <1>3, <2>1 DEF Output
<1>8. TotalOutput = SatOffset + x
  BY <1>5, <1>7, ShapeFactsHold DEF ShapeFacts
<1>9. Payable'
  BY <1>1, <1>2, ArgumentsStay
<1>10. CASE phase' = "rejected"
  BY <1>1, <1>10, RejectAsserts DEF BuilderPhases
<1>11. CASE ~ NeedsPadding
  <2>1. UNCHANGED <<utxos, inputs, outputs, unused_change>>
    BY <1>11 DEF PadAlignmentOutput, Reject
  <2>2. /\ SatOffset' = SatOffset /\ TotalInput' = TotalInput
        /\ Dust("recipient")' = d
    BY <1>1, <2>1, SatStays
  <2>3. SatOffset > 0 => SatOffset >= d
    <3>1. SUFFICES ASSUME SatOffset > 0 PROVE SatOffset >= d
      OBVIOUS
    <3>2. outputs[1] = To("change1", SatOffset)
      BY <1>5, <1>7, <3>1 DEF Whole
    <3>3. ~ (SatOffset < d)
      BY <1>11, <3>2 DEF NeedsPadding, To
    <3> QED BY <1>5, <1>6, <3>3
  <2>4. (ChangeLeft /\ Balanced /\ AlignmentPaid /\ Whole(Last.value) /\ Last.value > 0)'
    BY <1>3, <2>1, <2>2, <2>3
    DEF ChangeLeft, Balanced, AlignmentPaid, Whole, Last, TotalOutput, OutputValue
  <2>5. OutgoingOnce'
    BY <1>1, <1>3, <2>1 DEF OutgoingOnce
  <2> QED BY <1>1, <1>3, <1>9, <2>4, <2>5, <1>10 DEF AssertionsInv
<1>12. CASE NeedsPadding /\ phase' # "rejected"
  <2> DEFINE minimum == d - outputs[1].value
             u == SelectCardinal(minimum)
             a == args.amounts[u]
  <2>1. /\ LargeEnough(minimum) # {} /\ utxos' = utxos \ {u} /\ inputs' = <<u>> \o inputs
        /\ outputs' = [outputs EXCEPT ![1].value = @ + a] /\ unused_change' = unused_change
    BY <1>12 DEF PadAlignmentOutput, Reject, Goto
  <2>2. SatOffset > 0 /\ outputs = <<To("change1", SatOffset), To("recipient", x)>>
    <3>1. SatOffset # 0
      BY <1>7, <1>12 DEF NeedsPadding, Whole, To
    <3> QED BY <1>5, <1>7, <3>1 DEF Whole
  <2>3. minimum = d - SatOffset
    BY <2>2 DEF To
  <2>4. u \in utxos /\ a >= minimum
    BY <1>4, <2>1, SelectCardinalEnough
  <2>5. a \in Nat /\ u # o /\ u \in OutPoint
    BY <1>3, <1>4, <2>4 DEF ArgsOK, OutgoingOnce
  <2> HIDE DEF u, a, minimum
  <2>6. DOMAIN inputs' = {1, 2} /\ inputs'[1] = u /\ inputs'[2] = o
    <3>1. inputs' = <<u>> \o <<o>>
      BY <1>3, <2>1
    <3>2. <<u>> \in Seq(OutPoint) /\ <<o>> \in Seq(OutPoint)
      BY <1>4, <2>5 DEF ArgsOK, SatPoint
    <3>3. /\ inputs' \in Seq(OutPoint) /\ Len(inputs') = 2
          /\ inputs'[1] = <<u>>[1] /\ inputs'[2] = <<o>>[1]
      BY ONLY <3>1, <3>2, ConcatProperties
    <3>4. DOMAIN inputs' = 1 .. 2
      BY ONLY <3>3
    <3> QED BY ONLY <3>3, <3>4
  <2>7. outputs' = <<To("change1", SatOffset + a), To("recipient", x)>>
    <3>1. DOMAIN outputs = {1, 2} /\ outputs[1] = To("change1", SatOffset)
      BY <2>2
    <3>2. [To("change1", SatOffset) EXCEPT !.value = @ + a] = To("change1", SatOffset + a)
      BY DEF To
    <3>3. outputs' = [outputs EXCEPT ![1] = To("change1", SatOffset + a)]
      BY <2>1, <3>1, <3>2
    <3> QED BY <2>2, <3>3
  <2>8. SatOffset' = SatOffset + a /\ TotalInput' = TotalInput + a
    <3>1. DOMAIN inputs' = {1, 2} /\ inputs'[1] = u /\ inputs'[2] = o
      BY <2>6
    <3>2. OutgoingInput' = 2
      BY <1>1, <2>5, <3>1 DEF OutgoingInput
    <3>3. /\ InputValue(1)' = a /\ InputValue(2)' = args.amounts[o]
          /\ InputValue(3)' = 0
      BY <1>1, <3>1 DEF InputValue, a
    <3>4. SatOffset' = SatOffset + a
      <4>1. InputsBefore(2)' = InputValue(1)' + 0
        BY DEF InputsBefore
      <4>2. SatOffset' = InputsBefore(2)' + args.outgoing.offset
        BY <1>1, <3>2 DEF SatOffset
      <4> QED BY ONLY <4>1, <4>2, <3>3, <1>5, <2>5
    <3>5. TotalInput' = TotalInput + a
      BY <1>5, <2>5, <3>3 DEF TotalInput
    <3> QED BY <3>4, <3>5
  <2>9. (SatOffset \in Nat /\ SatOffset > 0)'
    BY <1>5, <2>2, <2>5, <2>8
  <2>10. Whole(x)'
    BY <2>7, <2>8, <2>9 DEF Whole
  <2>11. Last.value' = x /\ TotalOutput' = SatOffset' + x
    <3>1. ShapeFacts'
      BY ShapeFactsHold, PTL
    <3> QED BY <2>9, <2>10, <3>1 DEF ShapeFacts
  <2>12. Balanced'
    <3>1. TotalInput = SatOffset + x
      BY <1>3, <1>8 DEF Balanced
    <3>2. TotalInput' = SatOffset + x + a /\ TotalOutput' = SatOffset + a + x
      BY <2>8, <2>11, <3>1
    <3>3. TotalInput' = TotalOutput'
      BY ONLY <3>2, <1>5, <2>5, x \in Nat
    <3> QED BY <3>3 DEF Balanced
  <2>13. AlignmentPaid'
    <3>1. Dust("recipient")' = d
      BY <1>1 DEF Dust
    <3> QED BY <1>5, <1>6, <2>3, <2>4, <2>5, <2>8, <3>1 DEF AlignmentPaid
  <2>14. ChangeLeft'
    BY <1>3, <1>5, <2>1, <2>2, <2>9 DEF ChangeLeft
  <2>15. OutgoingOnce'
    BY <1>1, <1>3, <2>1, <2>5, <2>6 DEF OutgoingOnce
  <2>16. (Whole(Last.value) /\ Last.value > 0)'
    BY <1>7, <2>10, <2>11 DEF Whole
  <2> QED BY <1>1, <1>3, <1>9, <1>12, <2>12, <2>13, <2>14, <2>15, <2>16 DEF AssertionsInv
<1> QED BY <1>10, <1>11, <1>12

LEMMA AddValueAsserts ==
  ASSUME BuilderInv, AssertionsInv, AddValue
  PROVE  AssertionsInv'
<1> DEFINE o == args.outgoing.outpoint
           u == SelectCardinal(Needed)
           a == args.amounts[u]
<1>1. /\ phase = "add_value" /\ args' = args
      /\ phase' \in {"strip_value", "rejected"}
  BY DEF AddValue, Goto, Reject
<1>2. phase \in BuilderPhases /\ phase \in Chosen \ {"select_outgoing"}
  BY <1>1 DEF BuilderPhases, Chosen
<1>3. /\ ChangeLeft /\ Balanced /\ AlignmentPaid /\ OutgoingOnce /\ Payable
      /\ Whole(Last.value) /\ Last.value > 0
  BY <1>1, <1>2 DEF AssertionsInv
<1>4. /\ ArgsOK /\ utxos \subseteq OutPoint /\ utxos \subseteq DOMAIN args.amounts
      /\ inputs \in Seq(OutPoint) /\ Len(inputs) <= 2
      /\ outputs \in Seq(Output) /\ Len(outputs) >= 1
      /\ \A i \in DOMAIN inputs : inputs[i] \in DOMAIN args.amounts
      /\ \E i \in DOMAIN inputs : inputs[i] = o
  BY <1>1, <1>2, BuilderFacts DEF BuilderInv, BuilderTypes, ShapeInv
<1>5. SatOffset \in Nat /\ EstimateFee \in Nat
  BY <1>4, ValueType, SizeType
<1>6. PICK x \in Nat : x = Last.value /\ Whole(x) /\ x > 0
  <2>1. Last \in Output
    BY <1>4, WithLastType
  <2> QED BY <1>3, <2>1 DEF Output
<1>7. TotalOutput = SatOffset + x
  BY <1>5, <1>6, ShapeFactsHold DEF ShapeFacts
<1>8. Payable' /\ MinimumValue' = MinimumValue /\ MinimumValue \in Nat
  BY <1>1, <1>2, <1>3, <1>4, ArgumentsStay, TargetsAre DEF MinimumValue, Dust
<1>9. CASE phase' = "rejected"
  BY <1>1, <1>9, RejectAsserts DEF BuilderPhases
<1>10. CASE Deficit <= 0
  <2>0. Deficit \in Int
    BY <1>5, <1>6, <1>8 DEF Deficit
  <2>1. UNCHANGED <<utxos, inputs, outputs, unused_change>>
    BY <1>10, <2>0 DEF AddValue, Reject
  <2>2. SatOffset' = SatOffset /\ TotalInput' = TotalInput /\ Dust("recipient")' = Dust("recipient")
    BY <1>1, <2>1, SatStays
  <2>3. EstimateFee' = EstimateFee
    BY <1>1, <2>1 DEF EstimateFee, EstimateVbytes, VsizeOf, SizeOf, Fee
  <2>4. (ChangeLeft /\ Balanced /\ AlignmentPaid /\ Whole(Last.value))'
    BY <1>3, <2>1, <2>2
    DEF ChangeLeft, Balanced, AlignmentPaid, Whole, Last, TotalOutput, OutputValue
  <2>5. (Last.value >= MinimumValue + EstimateFee - 1)'
    <3>1. MinimumValue + EstimateFee - x <= 0
      BY <1>6, <1>10 DEF Deficit
    <3>2. x >= MinimumValue + EstimateFee - 1
      BY ONLY <3>1, <1>5, <1>8, x \in Nat
    <3>3. Last' = Last
      BY <2>1 DEF Last
    <3>4. Last.value' = x
      BY <1>6, <3>3
    <3> QED BY ONLY <1>8, <2>3, <3>2, <3>4
  <2>6. OutgoingOnce'
    BY <1>1, <1>3, <2>1 DEF OutgoingOnce
  <2> QED BY <1>1, <1>3, <1>8, <1>9, <2>4, <2>5, <2>6 DEF AssertionsInv
<1>11. CASE ~ (Deficit <= 0) /\ phase' # "rejected"
  <2>1. /\ LargeEnough(Needed) # {} /\ utxos' = utxos \ {u} /\ inputs' = Append(inputs, u)
        /\ outputs' = WithLast(x + a) /\ unused_change' = unused_change
    BY <1>6, <1>11 DEF AddValue, Reject, Goto
  <2>2. u \in utxos /\ a >= Needed
    BY <1>4, <2>1, SelectCardinalEnough
  <2>3. a \in Nat /\ u # o /\ u \in OutPoint
    BY <1>3, <1>4, <2>2 DEF ArgsOK, OutgoingOnce
  <2> HIDE DEF u, a
  <2>4. /\ Len(inputs') = Len(inputs) + 1 /\ DOMAIN inputs = 1 .. Len(inputs)
        /\ DOMAIN inputs' = 1 .. Len(inputs) + 1 /\ Len(inputs) \in Nat
        /\ \A i \in 1 .. Len(inputs) : inputs'[i] = inputs[i]
        /\ inputs'[Len(inputs) + 1] = u
    BY <1>4, <2>1, <2>3, AppendProperties
  <2>5. PICK k \in 1 .. Len(inputs) : /\ inputs[k] = o
                                      /\ \A i \in DOMAIN inputs : inputs[i] = o => i = k
    BY <1>3, <1>4, <2>4 DEF OutgoingOnce
  <2>6. OutgoingInput = k
    BY <2>4, <2>5 DEF OutgoingInput
  <2>7. OutgoingInput' = k
    <3>1. k \in DOMAIN inputs' /\ inputs'[k] = o
      BY ONLY <2>4, <2>5
    <3>2. \A i \in DOMAIN inputs' : inputs'[i] = o => i = k
      <4>1. SUFFICES ASSUME NEW i \in 1 .. Len(inputs) + 1, inputs'[i] = o PROVE i = k
        BY <2>4
      <4>2. i # Len(inputs) + 1
        BY <2>3, <2>4, <4>1
      <4>3. i \in 1 .. Len(inputs)
        BY ONLY <2>4, <4>1, <4>2
      <4> QED BY <2>4, <2>5, <4>1, <4>3
    <3> QED BY <1>1, <3>1, <3>2 DEF OutgoingInput
  <2>8. /\ \A i : InputValue(i) \in Nat
        /\ \A i : i \in 1 .. Len(inputs) => InputValue(i)' = InputValue(i)
        /\ \A i : i = Len(inputs) + 1 => InputValue(i)' = a /\ InputValue(i) = 0
        /\ \A i \in Nat : i > Len(inputs) + 1 => InputValue(i)' = 0 /\ InputValue(i) = 0
    BY <1>1, <1>4, <2>4 DEF InputValue, ArgsOK, a
  <2>9. InputValue(1)' = InputValue(1) /\ (k = 2 => InputValue(2)' = InputValue(2))
    <3>1. 1 \in 1 .. Len(inputs)
      BY ONLY <2>4, <2>5
    <3> QED BY <2>5, <2>8, <3>1
  <2>10. SatOffset' = SatOffset
    <3>1. k \in {1, 2}
      BY ONLY <1>4, <2>4, <2>5
    <3>2. InputsBefore(k)' = InputsBefore(k)
      BY <2>9, <3>1 DEF InputsBefore
    <3> QED BY <1>1, <2>6, <2>7, <3>2 DEF SatOffset
  <2>11. TotalInput' = TotalInput + a
    <3>1. Len(inputs) \in {1, 2}
      BY ONLY <1>4, <2>4, <2>5
    <3>2. CASE Len(inputs) = 1
      <4>1. /\ InputValue(2)' = a /\ InputValue(2) = 0
            /\ InputValue(3)' = 0 /\ InputValue(3) = 0
        BY <2>8, <3>2
      <4> QED BY <2>3, <2>8, <2>9, <4>1 DEF TotalInput
    <3>3. CASE Len(inputs) = 2
      <4>1. /\ InputValue(2)' = InputValue(2)
            /\ InputValue(3)' = a /\ InputValue(3) = 0
        BY <2>8, <3>3
      <4> QED BY <2>3, <2>8, <2>9, <4>1 DEF TotalInput
    <3> QED BY <3>1, <3>2, <3>3
  <2>12. PICK y \in Nat : y = x + a
    BY <2>3
  <2>13. Whole(y)'
    BY <1>5, <1>6, <2>1, <2>10, <2>12, ShapeFactsHold DEF ShapeFacts, Whole
  <2>14. Last.value' = y /\ TotalOutput' = SatOffset' + y
    <3>1. ShapeFacts'
      BY ShapeFactsHold, PTL
    <3> QED BY <1>5, <2>10, <2>13, <3>1 DEF ShapeFacts
  <2>15. Balanced'
    <3>1. TotalInput = SatOffset + x
      BY <1>3, <1>7 DEF Balanced
    <3>2. TotalInput' = SatOffset + x + a /\ TotalOutput' = SatOffset + (x + a)
      BY <2>10, <2>11, <2>12, <2>14, <3>1
    <3>3. TotalInput' = TotalOutput'
      BY ONLY <3>2, <1>5, <2>3, x \in Nat
    <3> QED BY <3>3 DEF Balanced
  <2>16. AlignmentPaid' /\ ChangeLeft'
    BY <1>1, <1>3, <2>1, <2>10 DEF AlignmentPaid, ChangeLeft, Dust
  <2>17. OutgoingOnce'
    <3>1. \A i \in DOMAIN inputs' : inputs'[i] = o => i = k
      BY <2>3, <2>4, <2>5
    <3> QED BY <1>1, <1>3, <2>1, <3>1 DEF OutgoingOnce
  <2>18. y >= MinimumValue + EstimateFee' - 1
    <3> DEFINE n == Len(inputs)
               v == VsizeFor(n, Extra)
               w == VsizeFor(n + 1, Extra)
    <3>1. n \in Nat /\ Extra \in Nat /\ Extra' = Extra
      BY <2>4, <2>10 DEF Extra
    <3>2. EstimateFee = Fee(v)
      BY <1>3, <1>4, <1>5, <1>6, <3>1, SizeFactsHold DEF SizeFacts, EstimateFee
    <3>3. EstimateFee' = Fee(w)
      <4>1. SizeFacts'
        BY SizeFactsHold, PTL
      <4>2. ArgsOK' /\ (Len(inputs) \in Nat)' /\ (SatOffset \in Nat)'
        BY <1>1, <1>4, <1>5, <2>4, <2>10 DEF ArgsOK
      <4>3. EstimateVbytes' = VsizeFor(Len(inputs), Extra)'
        BY <1>8, <2>13, <4>1, <4>2 DEF SizeFacts
      <4>4. VsizeFor(Len(inputs), Extra)' = w
        BY <1>1, <2>4, <3>1 DEF VsizeFor
      <4> HIDE DEF w
      <4> QED BY <1>1, <4>3, <4>4 DEF EstimateFee, Fee
    <3> HIDE DEF n
    <3>4. v \in Nat /\ w \in Nat /\ w <= v + ADDITIONAL_INPUT_VBYTES
      <4>1. n + 1 \in Nat
        BY <3>1
      <4> QED BY ONLY <1>4, <3>1, <4>1, VsizeForType
    <3> HIDE DEF v, w
    <3>5. ADDITIONAL_INPUT_VBYTES \in Nat /\ v + ADDITIONAL_INPUT_VBYTES \in Nat
      BY <3>4 DEF ADDITIONAL_INPUT_VBYTES
    <3>6. Fee(w) <= Fee(v + ADDITIONAL_INPUT_VBYTES)
      BY <1>4, <3>4, <3>5, FeeGrows
    <3>7. Fee(v + ADDITIONAL_INPUT_VBYTES) <= Fee(v) + Fee(ADDITIONAL_INPUT_VBYTES) + 1
      BY <1>4, <3>4, <3>5, FeeAdds
    <3>8. /\ Fee(v) \in Nat /\ Fee(w) \in Nat /\ Fee(v + ADDITIONAL_INPUT_VBYTES) \in Nat
          /\ Fee(ADDITIONAL_INPUT_VBYTES) \in Nat
      BY <1>4, <3>4, <3>5, FeeType
    <3>9. a >= MinimumValue + Fee(v) - x + Fee(ADDITIONAL_INPUT_VBYTES)
      BY <1>6, <2>2, <3>2 DEF Needed, Deficit
    <3>10. y >= MinimumValue + Fee(w) - 1
      BY ONLY <3>6, <3>7, <3>8, <3>9, <2>3, <2>12, <1>8, x \in Nat, y \in Nat
    <3> QED BY <3>3, <3>10
  <2> QED BY <1>1, <1>3, <1>8, <1>11, <2>13, <2>14, <2>15, <2>16, <2>17, <2>18 DEF AssertionsInv
<1> QED BY <1>9, <1>10, <1>11

LEMMA AppendToPair ==
  ASSUME NEW S, NEW p \in S, NEW q \in S, NEW r \in S
  PROVE  /\ Append(<<p>>, q) = <<p, q>>
         /\ Append(<<p, q>>, r) = <<p, q, r>>
<1>1. ASSUME NEW s \in Seq(S), Len(s) = 2 PROVE s = <<s[1], s[2]>>
  BY <1>1
<1>2. ASSUME NEW s \in Seq(S), Len(s) = 3 PROVE s = <<s[1], s[2], s[3]>>
  BY <1>2
<1>3. <<p>> \in Seq(S) /\ Len(<<p>>) = 1 /\ <<p>>[1] = p
  OBVIOUS
<1>4. /\ <<p, q>> \in Seq(S) /\ Len(<<p, q>>) = 2
      /\ <<p, q>>[1] = p /\ <<p, q>>[2] = q
  OBVIOUS
<1> DEFINE s == Append(<<p>>, q)
           t == Append(<<p, q>>, r)
<1>5. s \in Seq(S) /\ Len(s) = 2 /\ s[1] = p /\ s[2] = q
  BY <1>3, AppendProperties
<1>6. t \in Seq(S) /\ Len(t) = 3 /\ t[1] = p /\ t[2] = q /\ t[3] = r
  BY <1>4, AppendProperties
<1> HIDE DEF s, t
<1>7. s = <<p, q>> /\ t = <<p, q, r>>
  BY <1>1, <1>2, <1>5, <1>6
<1> QED BY <1>7 DEF s, t

(* The change address that is left, and the outputs with a change.         *)
LEMMA ChangeOutput ==
  ASSUME ChangeLeft, SatOffset \in Nat, NEW x \in Nat, Whole(x), NEW t \in Nat, NEW y \in Nat,
         Payable
  PROVE  /\ Dust(NextChange) = 330
         /\ Append(WithLast(t), [address |-> NextChange, value |-> y])
              = IF SatOffset = 0 THEN <<To("recipient", t), To("change1", y)>>
                ELSE <<To("change1", SatOffset), To("recipient", t), To("change0", y)>>
<1>1. NextChange = IF SatOffset = 0 THEN "change1" ELSE "change0"
  <2>1. CASE SatOffset = 0
    <3>1. Len(unused_change) = 2 /\ unused_change[2] = "change1"
      BY <2>1 DEF ChangeLeft
    <3> QED BY <2>1, <3>1 DEF NextChange
  <2>2. CASE SatOffset # 0
    <3>1. Len(unused_change) = 1 /\ unused_change[1] = "change0"
      BY <2>2 DEF ChangeLeft
    <3> QED BY <2>2, <3>1 DEF NextChange
  <2> QED BY <2>1, <2>2
<1>2. Dust(NextChange) = 330
  BY <1>1 DEF Payable, Dust, DustValue
<1>3. WithLast(t) = IF SatOffset = 0 THEN <<To("recipient", t)>>
                    ELSE <<To("change1", SatOffset), To("recipient", t)>>
  BY ShapeFactsHold DEF ShapeFacts
<1>4. [address |-> NextChange, value |-> y] = To(NextChange, y)
  BY DEF To
<1>5. /\ Append(<<To("recipient", t)>>, To("change1", y))
           = <<To("recipient", t), To("change1", y)>>
      /\ Append(<<To("change1", SatOffset), To("recipient", t)>>, To("change0", y))
           = <<To("change1", SatOffset), To("recipient", t), To("change0", y)>>
  <2> DEFINE S == {To(b, v) : b \in Address, v \in Nat}
  <2>1. /\ To("recipient", t) \in S /\ To("change1", y) \in S
        /\ To("change1", SatOffset) \in S /\ To("change0", y) \in S
    BY DEF Address
  <2> HIDE DEF S
  <2> QED BY <2>1, AppendToPair
<1> QED BY <1>1, <1>2, <1>3, <1>4, <1>5

LEMMA StripValueAsserts ==
  ASSUME BuilderInv, AssertionsInv, StripValue
  PROVE  AssertionsInv'
<1> DEFINE value == TotalOutput - SatOffset
           n == Len(inputs)
<1>1. /\ phase = "strip_value" /\ phase' = "deduct_fee" /\ args' = args
      /\ utxos' = utxos /\ inputs' = inputs
  BY DEF StripValue, Goto
<1>2. phase \in BuilderPhases /\ phase \in Chosen \ {"select_outgoing"}
  BY <1>1 DEF BuilderPhases, Chosen
<1>3. /\ ChangeLeft /\ Balanced /\ AlignmentPaid /\ OutgoingOnce /\ Payable
      /\ Whole(Last.value) /\ Last.value >= MinimumValue + EstimateFee - 1
  BY <1>1, <1>2 DEF AssertionsInv
<1>4. /\ ArgsOK /\ inputs \in Seq(OutPoint)
      /\ outputs \in Seq(Output) /\ Len(outputs) >= 1
      /\ \A i \in DOMAIN inputs : inputs[i] \in DOMAIN args.amounts
      /\ \E i \in DOMAIN inputs : inputs[i] = args.outgoing.outpoint
  BY <1>1, <1>2, BuilderFacts DEF BuilderInv, BuilderTypes, ShapeInv
<1>5. SatOffset \in Nat /\ EstimateFee \in Nat /\ EstimateVbytes \in Nat /\ n \in Nat
  BY <1>4, ValueType, SizeType
<1>6. PICK x \in Nat : x = Last.value /\ Whole(x) /\ x >= MinimumValue + EstimateFee - 1
  <2>1. Last \in Output
    BY <1>4, WithLastType
  <2> QED BY <1>3, <2>1 DEF Output
<1>7. TotalOutput = SatOffset + x
  BY <1>5, <1>6, ShapeFactsHold DEF ShapeFacts
<1>8. value = x
  BY <1>5, <1>7
<1>9. /\ Payable' /\ MinimumValue' = MinimumValue /\ TargetValue' = TargetValue
      /\ MaxValue' = MaxValue /\ SatOffset' = SatOffset /\ TotalInput' = TotalInput
      /\ AlignmentPaid' /\ OutgoingOnce' /\ ArgsOK' /\ n' = n
  BY <1>1, <1>2, <1>3, <1>4, ArgumentsStay, SatStays DEF AlignmentPaid, OutgoingOnce, Dust, ArgsOK
<1>10. TargetValue \in Nat /\ TargetValue >= Dust("recipient") /\ MaxValue \in Nat
  BY <1>3, <1>4, TargetsAre
<1> DEFINE more == Fee(EstimateVbytes + ADDITIONAL_OUTPUT_VBYTES)
<1>11. more \in Nat
  <2>1. EstimateVbytes + ADDITIONAL_OUTPUT_VBYTES \in Nat
    BY <1>5 DEF ADDITIONAL_OUTPUT_VBYTES
  <2> QED BY <1>4, <2>1, FeeType
<1>12. Dust(NextChange) = 330
  BY <1>3, <1>5, <1>6, ChangeOutput
<1>13. CASE WorthChange(value)
  <2>1. x - TargetValue > 330 + more
    BY <1>8, <1>12, <1>13 DEF WorthChange
  <2>2. PICK y \in Nat : y = x - TargetValue /\ y > 330 + more
    BY <2>1, <1>10, <1>11
  <2>3. outputs' = Append(WithLast(TargetValue), [address |-> NextChange, value |-> y])
    BY <1>8, <1>13, <2>2 DEF StripValue
  <2>4. Stripped(TargetValue, y)'
    <3>1. PICK t \in Nat : t = TargetValue
      BY <1>10
    <3>2. outputs' = IF SatOffset = 0 THEN <<To("recipient", t), To("change1", y)>>
                     ELSE <<To("change1", SatOffset), To("recipient", t), To("change0", y)>>
      BY <1>3, <1>5, <1>6, <2>3, <3>1, ChangeOutput
    <3> QED BY <1>5, <1>9, <3>1, <3>2 DEF Stripped
  <2>5. TotalOutput' = SatOffset' + TargetValue' + y /\ Last.value' = y
    <3>1. ShapeFacts'
      BY ShapeFactsHold, PTL
    <3>2. (TargetValue \in Nat)' /\ (SatOffset \in Nat)'
      BY <1>5, <1>9, <1>10
    <3> QED BY <2>4, <3>1, <3>2 DEF ShapeFacts
  <2>6. Balanced'
    <3>1. TotalInput = SatOffset + x
      BY <1>3, <1>7 DEF Balanced
    <3>2. TotalInput' = SatOffset + x /\ TotalOutput' = SatOffset + TargetValue + y
      BY <1>9, <2>5, <3>1
    <3>3. TotalInput' = TotalOutput'
      BY ONLY <3>2, <1>5, <1>10, <2>2, x \in Nat
    <3> QED BY <3>3 DEF Balanced
  <2>7. EstimateFee' = more
    <3>1. Extra \in Nat /\ Extra' = Extra
      BY <1>9 DEF Extra
    <3>2. EstimateVbytes = VsizeFor(n, Extra)
      BY <1>3, <1>4, <1>5, <1>6, SizeFactsHold DEF SizeFacts
    <3>3. EstimateVbytes' = VsizeFor(n, Extra + 1)'
      <4>1. SizeFacts'
        BY SizeFactsHold, PTL
      <4>2. (Len(inputs) \in Nat)' /\ (SatOffset \in Nat)'
        BY <1>5, <1>9
      <4> QED BY <1>9, <2>4, <4>1, <4>2 DEF SizeFacts
    <3>4. VsizeFor(n, Extra + 1)' = VsizeFor(n, Extra + 1)
      BY <1>1, <1>9, <3>1 DEF VsizeFor
    <3>5. VsizeFor(n, Extra + 1) = VsizeFor(n, Extra) + ADDITIONAL_OUTPUT_VBYTES
      <4> HIDE DEF n
      <4> QED BY ONLY <1>4, <1>5, <3>1, VsizeForType
    <3>6. EstimateVbytes' = EstimateVbytes + ADDITIONAL_OUTPUT_VBYTES
      BY <3>2, <3>3, <3>4, <3>5
    <3> QED BY <1>1, <3>6 DEF EstimateFee, Fee
  <2>8. (Stripped(TargetValue, Last.value) /\ Last.value >= 330 + EstimateFee)'
    <3>1. y >= 330 + more
      BY ONLY <2>2, <1>11, y \in Nat
    <3> QED BY <2>4, <2>5, <2>7, <3>1 DEF Stripped
  <2> QED BY <1>1, <1>3, <1>9, <2>6, <2>8 DEF AssertionsInv
<1>14. CASE ~ WorthChange(value)
  <2>1. outputs' = outputs /\ unused_change' = unused_change
    BY <1>14 DEF StripValue
  <2>2. EstimateFee' = EstimateFee /\ EstimateVbytes' = EstimateVbytes
    BY <1>1, <2>1 DEF EstimateFee, EstimateVbytes, VsizeOf, SizeOf, Fee
  <2>3. KeepsChange(x)
    <3>1. \/ ~ (x - EstimateFee > MaxValue)
          \/ ~ (x - TargetValue > 330 + more)
      BY <1>8, <1>12, <1>14 DEF WorthChange
    <3>2. x - EstimateFee <= MaxValue \/ x - TargetValue <= 330 + more
      BY ONLY <3>1, <1>5, <1>10, <1>11, x \in Nat
    <3> QED BY <3>2 DEF KeepsChange
  <2>4. Last' = Last /\ TotalOutput' = TotalOutput
    BY <2>1 DEF Last, TotalOutput, OutputValue
  <2>5. Balanced' /\ Whole(x)'
    BY <1>3, <1>6, <1>9, <2>1, <2>4 DEF Balanced, Whole
  <2>6. KeepsChange(x)'
    BY <1>1, <1>9, <2>2, <2>3 DEF KeepsChange, Fee
  <2>7. (Whole(Last.value) /\ Last.value >= MinimumValue + EstimateFee - 1
          /\ KeepsChange(Last.value))'
    BY <1>3, <1>6, <1>9, <2>2, <2>4, <2>5, <2>6 DEF Whole, KeepsChange
  <2> QED BY <1>1, <1>3, <1>9, <2>5, <2>7 DEF AssertionsInv
<1> QED BY <1>13, <1>14

LEMMA DeductFeeAsserts ==
  ASSUME BuilderInv, AssertionsInv, DeductFee
  PROVE  AssertionsInv'
<1> DEFINE n == Len(inputs)
           est == EstimateFee
<1>1. phase = "deduct_fee" /\ args' = args /\ inputs' = inputs /\ utxos' = utxos
  BY DEF DeductFee, Panic, Goto
<1>2. phase \in BuilderPhases /\ phase \in Chosen \ {"select_outgoing"}
  BY <1>1 DEF BuilderPhases, Chosen
<1>3. /\ Balanced /\ AlignmentPaid /\ OutgoingOnce /\ Payable
      /\ \/ /\ Whole(Last.value) /\ Last.value >= MinimumValue + EstimateFee - 1
            /\ KeepsChange(Last.value)
         \/ Stripped(TargetValue, Last.value) /\ Last.value >= 330 + EstimateFee
  BY <1>1, <1>2 DEF AssertionsInv
<1>4. /\ ArgsOK /\ inputs \in Seq(OutPoint)
      /\ outputs \in Seq(Output) /\ Len(outputs) >= 1
      /\ \A i \in DOMAIN inputs : inputs[i] \in DOMAIN args.amounts
      /\ \E i \in DOMAIN inputs : inputs[i] = args.outgoing.outpoint
  BY <1>1, <1>2, BuilderFacts DEF BuilderInv, BuilderTypes, ShapeInv
<1>5. SatOffset \in Nat /\ est \in Nat /\ EstimateVbytes \in Nat /\ n \in Nat
  BY <1>4, ValueType, SizeType
<1>6. Last.value \in Nat
  <2>1. Last \in Output
    BY <1>4, WithLastType
  <2> QED BY <2>1 DEF Output
<1>7. /\ Payable' /\ MinimumValue' = MinimumValue /\ TargetValue' = TargetValue
      /\ MaxValue' = MaxValue /\ SatOffset' = SatOffset /\ TotalInput' = TotalInput
      /\ AlignmentPaid' /\ OutgoingOnce' /\ ArgsOK' /\ n' = n
  BY <1>1, <1>2, <1>3, <1>4, ArgumentsStay, SatStays DEF AlignmentPaid, OutgoingOnce, Dust, ArgsOK
<1>8. /\ TargetValue \in Nat /\ TargetValue >= 294 /\ MaxValue \in Nat
      /\ MinimumValue \in Nat /\ MinimumValue >= 294 /\ Slop \in Nat
  BY <1>3, <1>4, TargetsAre
<1>9. Slop' = Slop /\ Extra' = Extra /\ Extra \in Nat
      /\ \A k : VsizeFor(n, k)' = VsizeFor(n, k) /\ Fee(k)' = Fee(k)
  BY <1>1, <1>7 DEF Slop, Fee, Extra, VsizeFor
<1>10. ASSUME CanDeductFee
       PROVE  /\ phase' = "build" /\ outputs' = WithLast(Last.value - est)
  BY <1>10 DEF DeductFee, Panic, Goto
<1>11. SizeFacts' /\ ShapeFacts' /\ WholeBuilds' /\ StrippedBuilds'
  BY SizeFactsHold, ShapeFactsHold, WholeBuildsHolds, StrippedBuildsHolds, PTL
<1>12. (Len(inputs) \in Nat)' /\ (SatOffset \in Nat)' /\ (TargetValue \in Nat)'
       /\ (\E i \in DOMAIN inputs : inputs[i] = args.outgoing.outpoint)'
  BY <1>1, <1>4, <1>5, <1>7, <1>8
<1>13. CASE /\ Whole(Last.value) /\ Last.value >= MinimumValue + EstimateFee - 1
            /\ KeepsChange(Last.value)
  <2>1. PICK x \in Nat : x = Last.value /\ Whole(x) /\ x >= MinimumValue + est - 1 /\ KeepsChange(x)
    BY <1>6, <1>13
  <2>2. TotalOutput = SatOffset + x
    BY <1>5, <2>1, ShapeFactsHold DEF ShapeFacts
  <2>3. CanDeductFee
    <3>1. SatOffset + x - est > SatOffset /\ x >= est
      BY ONLY <1>5, <1>8, <2>1
    <3> HIDE DEF est
    <3>2. TotalOutput - est > SatOffset
      BY ONLY <1>5, <2>2, <3>1
    <3>3. Last.value >= est
      BY ONLY <1>5, <2>1, <3>1
    <3> QED BY <3>2, <3>3 DEF CanDeductFee, est
  <2>4. PICK z \in Nat : z = x - est /\ z >= MinimumValue - 1
    BY <1>5, <1>8, <2>1
  <2>5. phase' = "build" /\ outputs' = WithLast(z)
    BY <1>10, <2>1, <2>3, <2>4
  <2>6. Whole(z)'
    <3>1. outputs' = IF SatOffset = 0 THEN <<To("recipient", z)>>
                     ELSE <<To("change1", SatOffset), To("recipient", z)>>
      BY <1>5, <2>1, <2>5, ShapeFactsHold DEF ShapeFacts
    <3> QED BY <1>5, <1>7, <3>1 DEF Whole
  <2>7. TotalOutput' = SatOffset' + z
    BY <1>11, <1>12, <2>6 DEF ShapeFacts
  <2>8. EstimateFee' = est
    <3>1. EstimateVbytes = VsizeFor(n, Extra)
      BY <1>3, <1>4, <1>5, <2>1, SizeFactsHold DEF SizeFacts
    <3>2. EstimateVbytes' = VsizeFor(n, Extra)'
      BY <1>7, <1>11, <1>12, <2>6 DEF SizeFacts
    <3>3. VsizeFor(n, Extra)' = VsizeFor(n, Extra)
      BY <1>1, <1>7, <1>9 DEF VsizeFor
    <3> QED BY <1>1, <3>1, <3>2, <3>3 DEF EstimateFee, Fee
  <2>9. ReadyToBuild'
    <3>1. TotalInput = SatOffset + x
      BY <1>3, <2>2 DEF Balanced
    <3>2. TotalInput' = SatOffset + x /\ TotalOutput' = SatOffset + z
      BY <1>7, <2>7, <3>1
    <3>3. TotalInput' - TotalOutput' = est
      BY ONLY <3>2, <1>5, <2>4, x \in Nat, z \in Nat
    <3> QED BY <1>7, <1>12, <2>8, <3>3 DEF ReadyToBuild
  <2>10. z <= MaxValue \/ z - TargetValue <= 330 + Slop + 1
    <3> DEFINE more == Fee(EstimateVbytes + ADDITIONAL_OUTPUT_VBYTES)
    <3>1. x - est <= MaxValue \/ x - TargetValue <= 330 + more
      BY <2>1 DEF KeepsChange
    <3>2. more <= est + Slop + 1
      BY <1>4, <1>5, FeeAdds DEF EstimateFee, Slop, ADDITIONAL_OUTPUT_VBYTES
    <3>3. more \in Nat
      <4>1. EstimateVbytes + ADDITIONAL_OUTPUT_VBYTES \in Nat
        BY <1>5 DEF ADDITIONAL_OUTPUT_VBYTES
      <4> QED BY <1>4, <4>1, FeeType
    <3> HIDE DEF more, est
    <3> QED BY ONLY <3>1, <3>2, <3>3, <1>5, <1>8, <2>4, x \in Nat, z \in Nat
  <2>11. NearlyAsserted'
    <3>1. /\ (z >= MinimumValue - 1)'
          /\ (z <= MaxValue \/ z - TargetValue <= 330 + Slop + 1)'
      BY <1>7, <1>9, <2>4, <2>10
    <3> QED BY <1>11, <2>6, <2>9, <3>1 DEF WholeBuilds
  <2> QED BY <1>1, <1>3, <1>7, <2>5, <2>11 DEF AssertionsInv
<1>14. CASE Stripped(TargetValue, Last.value) /\ Last.value >= 330 + EstimateFee
  <2>1. PICK t, y \in Nat :
          t = TargetValue /\ y = Last.value /\ Stripped(t, y) /\ y >= 330 + est
    BY <1>6, <1>8, <1>14
  <2>2. TotalOutput = SatOffset + t + y
    BY <1>5, <2>1, ShapeFactsHold DEF ShapeFacts
  <2>3. CanDeductFee
    <3>1. SatOffset + t + y - est > SatOffset /\ y >= est
      BY ONLY <1>5, <2>1
    <3> HIDE DEF est
    <3>2. TotalOutput - est > SatOffset
      BY ONLY <1>5, <2>2, <3>1
    <3>3. Last.value >= est
      BY ONLY <1>5, <2>1, <3>1
    <3> QED BY <3>2, <3>3 DEF CanDeductFee, est
  <2>4. PICK z \in Nat : z = y - est /\ z >= 330
    BY <1>5, <2>1
  <2>5. phase' = "build" /\ outputs' = WithLast(z)
    BY <1>10, <2>1, <2>3, <2>4
  <2>6. Stripped(TargetValue, z)' /\ Stripped(t, z)'
    <3>1. outputs' = IF SatOffset = 0 THEN <<To("recipient", t), To("change1", z)>>
                     ELSE <<To("change1", SatOffset), To("recipient", t), To("change0", z)>>
      BY <1>5, <2>1, <2>5, ShapeFactsHold DEF ShapeFacts
    <3> QED BY <1>5, <1>7, <2>1, <3>1 DEF Stripped
  <2>7. TotalOutput' = SatOffset' + t + z
    BY <1>11, <1>12, <2>6 DEF ShapeFacts
  <2>8. EstimateFee' = est
    <3>1. EstimateVbytes = VsizeFor(n, Extra + 1)
      BY <1>3, <1>4, <1>5, <2>1, SizeFactsHold DEF SizeFacts
    <3>2. EstimateVbytes' = VsizeFor(n, Extra + 1)'
      BY <1>7, <1>11, <1>12, <2>6 DEF SizeFacts
    <3>3. VsizeFor(n, Extra + 1)' = VsizeFor(n, Extra + 1)
      BY <1>1, <1>7, <1>9 DEF VsizeFor
    <3> QED BY <1>1, <3>1, <3>2, <3>3 DEF EstimateFee, Fee
  <2>9. ReadyToBuild'
    <3>1. TotalInput = SatOffset + t + y
      BY <1>3, <2>2 DEF Balanced
    <3>2. TotalInput' = SatOffset + t + y /\ TotalOutput' = SatOffset + t + z
      BY <1>7, <2>7, <3>1
    <3>3. TotalInput' - TotalOutput' = est
      BY ONLY <3>2, <1>5, <2>4, t \in Nat, y \in Nat, z \in Nat
    <3> QED BY <1>7, <1>12, <2>8, <3>3 DEF ReadyToBuild
  <2>10. NearlyAsserted'
    BY <1>11, <2>4, <2>6, <2>9 DEF StrippedBuilds
  <2> QED BY <1>1, <1>3, <1>7, <2>5, <2>10 DEF AssertionsInv
<1> QED BY <1>3, <1>13, <1>14

(* Values are of the arguments, the inputs and the outputs alone.          *)
LEMMA AssertedStays ==
  ASSUME args' = args, inputs' = inputs, outputs' = outputs
  PROVE  NearlyAsserted' = NearlyAsserted
BY DEF NearlyAsserted, SpendsOutgoingOnce, SentToRecipient, HoldsOutgoing, AddressesDiffer,
       SatComesFirst, FeeIsEstimated, SatOffset, OutgoingInput, InputsBefore, OutputsBefore,
       InputValue, OutputValue, TotalInput, TotalOutput, EstimateFee, EstimateVbytes, VsizeOf,
       SizeOf, Fee, Slop, LargestChangeDust, LargestValue, MinimumValue, Dust

LEMMA BuildAsserts ==
  ASSUME AssertionsInv, Build
  PROVE  AssertionsInv'
<1>1. /\ phase = "build" /\ phase' \in {"built", "panicked"}
      /\ args' = args /\ inputs' = inputs /\ outputs' = outputs
  BY DEF Build, Panic, Goto
<1>2. NearlyAsserted'
  BY <1>1, AssertedStays DEF AssertionsInv
<1> QED BY <1>1, <1>2 DEF AssertionsInv, BuilderPhases

-----------------------------------------------------------------------------
(* A builder starts: its arguments are the command's.                      *)
LEMMA StartAsserts ==
  ASSUME WalletInv, AssertionsInv, ChooseSend \/ ChooseInscribe
  PROVE  AssertionsInv'
<1>1. phase = "choose" /\ command' = command
  BY DEF ChooseSend, ChooseInscribe, StayChosen, command_vars
<1>2. command # << >>
  BY <1>1 DEF WalletInv, OrderInv
<1>3. PICK outgoing, target : Start(BuilderArgs(outgoing, target))
  BY DEF ChooseSend, ChooseInscribe
<1>4. /\ args' = BuilderArgs(outgoing, target)
      /\ phase' = IF ~target.postage /\ target.value < DustValue[args'.script["recipient"]]
                    THEN "rejected" ELSE "select_outgoing"
      /\ unused_change' = <<"change0", "change1">>
  BY <1>3 DEF Start, BuilderArgs
<1>5. /\ args'.target = target
      /\ args'.script = [a \in Address |-> IF a = "recipient" THEN command.script ELSE "p2tr"]
  BY <1>4 DEF BuilderArgs
<1>6. /\ args'.script["recipient"] = command.script
      /\ args'.script["change0"] = "p2tr" /\ args'.script["change1"] = "p2tr"
  BY <1>5 DEF Address
<1>7. CASE phase' = "rejected"
  BY <1>1, <1>7, RejectAsserts DEF BuilderPhases
<1>8. CASE phase' # "rejected"
  <2>1. phase' = "select_outgoing"
        /\ (target.postage \/ ~ (target.value < DustValue[args'.script["recipient"]]))
    BY <1>4, <1>8
  <2>2. target.value \in Nat
    <3>1. (phase \in BuilderPhases => ArgsOK)'
      <4>1. WalletInv'
        BY ChooseStep
      <4> QED BY <4>1 DEF WalletInv, BuilderInv, ArgsInv, Chosen
    <3>2. args'.target \in Target
      BY <2>1, <3>1 DEF BuilderPhases, ArgsOK
    <3> QED BY <1>5, <3>2 DEF Target
  <2>3. DustValue[command.script] \in Nat
    <3>1. command \in Command
      BY <1>2 DEF WalletInv, NodeTypes
    <3> QED BY <3>1, DustType DEF Command
  <2>4. Payable'
    BY <1>2, <1>5, <1>6, <2>1, <2>2, <2>3 DEF Payable, Dust
  <2> QED BY <1>1, <1>2, <1>4, <2>1, <2>4 DEF AssertionsInv
<1> QED BY <1>7, <1>8

LEMMA AssertionsInit ==
  ASSUME Init
  PROVE  AssertionsInv
BY DEF Init, AssertionsInv, BuilderPhases

LEMMA AssertionsStep ==
  ASSUME WalletInv, AssertionsInv, [Next]_vars
  PROVE  AssertionsInv'
<1>1. CASE BuildTransaction
  <2>1. BuilderInv
    BY <1>1 DEF WalletInv
  <2> QED BY <1>1, <2>1, SelectOutgoingAsserts, AlignOutgoingAsserts, PadAlignmentOutputAsserts,
             AddValueAsserts, StripValueAsserts, DeductFeeAsserts, BuildAsserts
          DEF BuildTransaction, BuilderStep
<1>2. CASE ChooseSend \/ ChooseInscribe
  BY <1>2, StartAsserts
<1>3. CASE ListUnspent \/ ChooseFails \/ SendTransaction \/ BuildReveal \/ BackupRecoveryKey
           \/ SendCommit \/ SendReveal \/ LockUnspent \/ Fund \/ RpcFails
  <2>1. phase' \notin BuilderPhases \cup {"built", "panicked"}
    BY <1>3 DEF ListUnspent, ChooseFails, SendTransaction, BuildReveal, BackupRecoveryKey,
       SendCommit, SendReveal, LockUnspent, Fund, RpcFails, Continue, BuilderPhases
  <2> QED BY <2>1, RejectAsserts
<1>4. CASE \E kind \in Kinds : StartCommand(kind)
  <2>1. phase' \in {"lock_unspent", "list_unspent"}
    BY <1>4 DEF StartCommand, Continue
  <2> QED BY <2>1, RejectAsserts DEF BuilderPhases
<1>5. CASE (\E o \in Late : Mine(o)) \/ UNCHANGED vars
  <2>1. UNCHANGED builder_vars
    BY <1>5 DEF Mine, vars
  <2>2. /\ phase' = phase /\ inputs' = inputs /\ outputs' = outputs
        /\ args' = args /\ utxos' = utxos /\ unused_change' = unused_change
    BY <2>1 DEF builder_vars
  <2>3. /\ SatOffset' = SatOffset /\ TotalInput' = TotalInput
        /\ MinimumValue' = MinimumValue /\ MaxValue' = MaxValue
        /\ TargetValue' = TargetValue /\ Dust("recipient")' = Dust("recipient")
    BY <2>2, SatStays
  <2>4. Last' = Last /\ TotalOutput' = TotalOutput
    BY <2>2 DEF Last, TotalOutput, OutputValue
  <2>5. EstimateFee' = EstimateFee /\ EstimateVbytes' = EstimateVbytes
    BY <2>2 DEF EstimateFee, EstimateVbytes, VsizeOf, SizeOf, Fee
  <2>6. /\ Payable' = Payable /\ OutgoingOnce' = OutgoingOnce /\ ChangeLeft' = ChangeLeft
        /\ Balanced' = Balanced /\ AlignmentPaid' = AlignmentPaid
    BY <2>2, <2>3, <2>4
    DEF Payable, Dust, OutgoingOnce, ChangeLeft, Balanced, AlignmentPaid
  <2>7. /\ Whole(Last.value)' = Whole(Last.value)
        /\ Stripped(TargetValue, Last.value)' = Stripped(TargetValue, Last.value)
    BY <2>2, <2>3, <2>4 DEF Whole, Stripped
  <2>8. KeepsChange(Last.value)' = KeepsChange(Last.value)
    BY <2>2, <2>3, <2>4, <2>5 DEF KeepsChange, Fee
  <2>9. NearlyAsserted' = NearlyAsserted
    BY <2>2, AssertedStays
  <2> QED BY <2>2, <2>3, <2>4, <2>5, <2>6, <2>7, <2>8, <2>9 DEF AssertionsInv
<1> QED BY <1>1, <1>2, <1>3, <1>4, <1>5 DEF Next, CommandStep

(* What the builder brings to build, for any wallet, any amounts, any      *)
(* scripts, any fee rates and any of the node's answers, is what its       *)
(* assertions ask for but for one sat of the recipient's value and the     *)
(* limit of dust an output before the recipient's is padded to; deduct_fee *)
(* never panics at all.                                                    *)
THEOREM CommandsBuildToASat == Spec => []BuildsToASat
<1>1. Init => AssertionsInv
  BY AssertionsInit
<1>2. WalletInv /\ AssertionsInv /\ [Next]_vars => AssertionsInv'
  BY AssertionsStep
<1>3. AssertionsInv => BuildsToASat
  BY DEF AssertionsInv, NearlyAsserted, BuildsToASat
<1> QED BY <1>1, <1>2, <1>3, WalletInvariant, PTL DEF Spec
=============================================================================
