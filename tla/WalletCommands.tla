-------------------------- MODULE WalletCommands --------------------------
(***************************************************************************)
(* The wallet commands that spend: send, inscribe and etch                 *)
(* (src/src/subcommand/wallet/{send,inscribe,etch}.rs).  A command brings  *)
(* its index up to date, asks the node for the unspent outputs of the      *)
(* wallet, reads from the index where the inscriptions and cunes are, and  *)
(* then either builds a transaction itself (TransactionBuilder) or has the *)
(* node choose what to spend.  The node goes on meanwhile: a block can pay *)
(* the wallet an output between any two of its calls, and any call can     *)
(* fail, which ends the command where it is.                               *)
(*                                                                         *)
(* The database of the index has one user, the command.  Of the chain, the *)
(* model keeps the outputs that pay the wallet: outputs of transactions    *)
(* the wallet sends itself are not followed any further.                   *)
(***************************************************************************)
EXTENDS TransactionBuilder, FiniteSets

CONSTANTS
  Kinds,           \* the commands given, of CommandKind
  Coins,           \* [value, inscribed, cunes]: what an output may hold
  Late,            \* outputs not yet in a block when the first command starts
  Offsets,         \* offsets of satpoints the user may name
  RecipientScripts,
  RevealVbytes     \* virtual size of a reveal transaction

CommandKind == {"send_inscription", "send_satpoint", "send_amount", "send_cunes",
                "inscribe", "etch"}

ASSUME WalletAssumption ==
  /\ Kinds \subseteq CommandKind
  /\ IsFiniteSet(OutPoint)
  /\ Late \subseteq OutPoint
  /\ Coins \subseteq [value : Nat \ {0}, inscribed : SUBSET Nat, cunes : BOOLEAN]
  /\ Offsets \subseteq Nat
  /\ RecipientScripts \subseteq Script
  /\ RevealVbytes \in Nat

VARIABLES
  coin,            \* what each output of the wallet holds
  confirmed,       \* node: outputs that are in a block
  spent,           \* node: outputs spent by transactions sent so far
  locked,          \* node: outputs locked with lockunspent
  indexed,         \* index: the outputs it has a value for
  listed,          \* get_unspent_outputs, as the command got it
  command,         \* the command that runs
  imported,        \* the node has the recovery key of the command
  sent             \* transactions the node accepted

chain_vars == <<coin, confirmed>>
node_vars == <<spent, locked, imported, sent>>
command_vars == <<listed, command>>
vars == <<builder_vars, chain_vars, node_vars, indexed, command_vars>>

(* What the user types.  satpoint is the satpoint to send or to inscribe,  *)
(* or, for send_inscription, where the index finds the inscription.  Only  *)
(* inscribe has a fee rate for its first transaction alone.                *)
Command == [kind : CommandKind,
            satpoint : SatPoint \cup {<<>>},
            no_backup : BOOLEAN,
            dry_run : BOOLEAN,
            fee_rate : FeeRate,
            commit_fee_rate : FeeRate,
            script : Script]

(* What was sent: the outgoing satpoint, the outputs spent, and the outputs *)
(* the index knew.                                                         *)
Transaction == [kind : CommandKind \cup {"reveal"},
                outgoing : SatPoint \cup {<<>>},
                inputs : SUBSET OutPoint,
                known : SUBSET OutPoint]

InscribedIn(O) ==
  UNION {{[outpoint |-> o, offset |-> k] : k \in coin[o].inscribed} : o \in O}
Inscribed(O) == {o \in O : coin[o].inscribed # {}}
Dunic(O) == {o \in O : coin[o].cunes}
Unspent == confirmed \ spent

BuilderPhases == {"select_outgoing", "align_outgoing", "pad_alignment_output",
                  "add_value", "strip_value", "deduct_fee", "build"}
Phases == BuilderPhases \cup
  {"idle", "list_unspent", "choose", "fund", "lock_unspent", "built", "backup",
   "commit", "reveal", "done", "rejected", "panicked"}

NoArgs == [amounts |-> <<>>]

(* An earlier command may have locked the inscriptions, and spent an       *)
(* output in a transaction that is in no block yet.                        *)
Init ==
  /\ coin \in [OutPoint -> Coins]
  /\ confirmed = OutPoint \ Late
  /\ locked \in {{}, Inscribed(confirmed)}
  /\ spent \in {{}} \cup {{o} : o \in confirmed}
  /\ sent = {}
  /\ indexed = {} /\ listed = {}
  /\ command = <<>> /\ imported = FALSE
  /\ args = NoArgs /\ phase = "idle"
  /\ utxos = {} /\ inputs = <<>> /\ outputs = <<>> /\ unused_change = <<>>
----------------------------------------------------------------------------
(* A block pays the wallet an output.                                      *)
Mine(o) ==
  /\ o \notin confirmed
  /\ confirmed' = confirmed \cup {o}
  /\ UNCHANGED <<builder_vars, coin, node_vars, indexed, command_vars>>

(* Any call to the node can fail, and with it the command.                 *)
RpcFails ==
  /\ \/ phase \in {"list_unspent", "choose", "fund", "lock_unspent",
                   "backup", "commit", "reveal"}
     \/ phase = "built" /\ command.kind # "inscribe"
  /\ phase' = "rejected"
  /\ UNCHANGED <<args, utxos, inputs, outputs, unused_change>>
  /\ UNCHANGED <<chain_vars, node_vars, indexed, command_vars>>

Continue(to) ==
  phase' = to /\ UNCHANGED <<args, utxos, inputs, outputs, unused_change, chain_vars>>

(* Index::open and Index::update.  An inscription is named by its id, so   *)
(* it is the index that says where it is.                                  *)
Named(kind) ==
  CASE kind = "send_inscription" -> InscribedIn(confirmed)
    [] kind = "send_satpoint" -> [outpoint : OutPoint, offset : Offsets]
    [] kind = "inscribe" -> [outpoint : OutPoint, offset : Offsets] \cup {<<>>}
    [] OTHER -> {<<>>}

StartCommand(kind) ==
  /\ phase = "idle"
  /\ \E satpoint \in Named(kind), rate, commit_rate \in FeeRate,
       script \in IF kind = "inscribe" THEN {"p2tr"} ELSE RecipientScripts,
       no_backup, dry_run \in IF kind = "inscribe" THEN BOOLEAN ELSE {FALSE} :
         /\ commit_rate = rate \/ kind = "inscribe"
         /\ command' = [kind |-> kind, satpoint |-> satpoint, no_backup |-> no_backup,
                        dry_run |-> dry_run, fee_rate |-> rate,
                        commit_fee_rate |-> commit_rate, script |-> script]
  /\ indexed' = confirmed
  /\ Continue(IF kind = "etch" THEN "lock_unspent" ELSE "list_unspent")
  /\ UNCHANGED <<node_vars, listed>>

(* get_unspent_outputs: listunspent leaves locked outputs out, and         *)
(* listlockunspent adds them.  Every output must be in the index.          *)
ListUnspent ==
  /\ phase = "list_unspent"
  /\ listed' = Unspent
  /\ Continue(IF ~(listed' \subseteq indexed) THEN "rejected"
              ELSE IF command.kind \in {"send_amount", "send_cunes"} THEN "fund"
              ELSE "choose")
  /\ UNCHANGED <<node_vars, indexed, command>>

(* What goes into the builder.  The inscriptions are those of the whole    *)
(* index, the cunes those of the listed outputs.                           *)
BuilderArgs(outgoing, target) ==
  [amounts |-> [o \in listed |-> coin[o].value],
   inscriptions |-> InscribedIn(indexed),
   dunic_utxos |-> Dunic(listed),
   outgoing |-> outgoing,
   target |-> target,
   fee_rate |-> command.commit_fee_rate,
   script |-> [a \in Address |-> IF a = "recipient" THEN command.script ELSE "p2tr"]]

Postage == [postage |-> TRUE, value |-> 0]
StayChosen == UNCHANGED <<chain_vars, node_vars, indexed, command_vars>>

ChooseSend ==
  /\ phase = "choose"
  /\ \/ command.kind = "send_inscription"
     \/ /\ command.kind = "send_satpoint"
        /\ command.satpoint \notin InscribedIn(indexed)
        /\ command.satpoint.outpoint \notin Dunic(listed)
  /\ Start(BuilderArgs(command.satpoint, Postage))
  /\ StayChosen

(* The sat to inscribe: the named one, or the first of the first cardinal  *)
(* output.                                                                 *)
Cardinals == {o \in listed : o \notin Inscribed(indexed) /\ o \notin Dunic(listed)}
FirstCardinal == CHOOSE o \in Cardinals : \A p \in Cardinals : o <= p
Shibescribed == IF command.satpoint # <<>> THEN command.satpoint
                ELSE [outpoint |-> FirstCardinal, offset |-> 0]

RevealFee == (2 * command.fee_rate * RevealVbytes + 10) \div 20

PostageOnly == [postage |-> FALSE, value |-> TARGET_POSTAGE]  \* a mutant: no fee
CommitTarget == [postage |-> FALSE, value |-> RevealFee + TARGET_POSTAGE]

ChooseInscribe ==
  /\ phase = "choose"
  /\ command.kind = "inscribe"
  /\ command.satpoint # <<>> \/ Cardinals # {}
  /\ Shibescribed.outpoint \notin Inscribed(indexed)
  /\ Start(BuilderArgs(Shibescribed, CommitTarget))
  /\ StayChosen

ChooseFails ==
  /\ phase = "choose"
  /\ \/ /\ command.kind = "send_satpoint"
        /\ \/ command.satpoint \in InscribedIn(indexed)
           \/ command.satpoint.outpoint \in Dunic(listed)
     \/ /\ command.kind = "inscribe"
        /\ \/ command.satpoint = <<>> /\ Cardinals = {}
           \/ /\ command.satpoint # <<>> \/ Cardinals # {}
              /\ Shibescribed.outpoint \in Inscribed(indexed)
  /\ Continue("rejected")
  /\ UNCHANGED <<node_vars, indexed, command_vars>>

BuildTransaction ==
  BuilderStep /\ UNCHANGED <<chain_vars, node_vars, indexed, command_vars>>
----------------------------------------------------------------------------
(* The node signs and accepts a transaction over outputs it has.           *)
Broadcast(kind, outgoing, ins) ==
  /\ sent' = sent \cup {[kind |-> kind, outgoing |-> outgoing,
                         inputs |-> ins, known |-> indexed]}
  /\ spent' = spent \cup ins

InputSet == {inputs[i] : i \in DOMAIN inputs}

SendTransaction ==
  /\ phase = "built"
  /\ command.kind \in {"send_inscription", "send_satpoint"}
  /\ Broadcast(command.kind, args.outgoing, InputSet)
  /\ Continue("done")
  /\ UNCHANGED <<locked, imported, indexed, command_vars>>

(* The reveal transaction spends the recipient's output of the commit      *)
(* transaction, and is built before anything is sent.                      *)
CommitValue == LET k == CHOOSE k \in DOMAIN outputs : outputs[k].address = "recipient"
               IN  outputs[k].value
RevealValue == CommitValue - RevealFee

(* A mutant: the recovery key is not imported first.                       *)
BuildRevealNoBackup ==
  /\ phase = "built"
  /\ command.kind = "inscribe"
  /\ Continue(IF RevealValue < DustValue["p2tr"] THEN "rejected"
              ELSE IF command.dry_run THEN "done"
              ELSE "commit")
  /\ UNCHANGED <<node_vars, indexed, command_vars>>

BuildReveal ==
  /\ phase = "built"
  /\ command.kind = "inscribe"
  /\ Continue(IF RevealValue < DustValue["p2tr"] THEN "rejected"
              ELSE IF command.dry_run THEN "done"
              ELSE IF command.no_backup THEN "commit"
              ELSE "backup")
  /\ UNCHANGED <<node_vars, indexed, command_vars>>

BackupRecoveryKey ==
  /\ phase = "backup"
  /\ imported' = TRUE
  /\ Continue("commit")
  /\ UNCHANGED <<spent, locked, sent, indexed, command_vars>>

SendCommit ==
  /\ phase = "commit"
  /\ Broadcast("inscribe", args.outgoing, InputSet)
  /\ Continue("reveal")
  /\ UNCHANGED <<locked, imported, indexed, command_vars>>

SendReveal ==
  /\ phase = "reveal"
  /\ Broadcast("reveal", <<>>, {})
  /\ Continue("done")
  /\ UNCHANGED <<locked, imported, indexed, command_vars>>
----------------------------------------------------------------------------
(* etch locks the inscribed outputs of the whole index, then the node      *)
(* funds the transaction.  It refuses to lock what is not unspent in the   *)
(* wallet or is locked already.                                            *)
LockUnspent ==
  /\ phase = "lock_unspent"
  /\ Inscribed(indexed) \subseteq Unspent \ locked
  /\ locked' = locked \cup Inscribed(indexed)
  /\ Continue("fund")
  /\ UNCHANGED <<spent, imported, sent, indexed, command_vars>>

(* fundrawtransaction and sendtoaddress: the node spends any outputs of    *)
(* the wallet that are not locked.  send_cunes names its first inputs:     *)
(* outputs with cunes and without inscriptions.                            *)
Fund ==
  /\ phase = "fund"
  /\ \E ins \in SUBSET (Unspent \ locked), cunes \in SUBSET (Dunic(listed) \ Inscribed(indexed)) :
       /\ IF command.kind = "send_cunes" THEN cunes # {} ELSE cunes = {} /\ ins # {}
       /\ cunes \subseteq Unspent
       /\ Broadcast(command.kind, <<>>, ins \cup cunes)
  /\ Continue("done")
  /\ UNCHANGED <<locked, imported, indexed, command_vars>>
----------------------------------------------------------------------------
CommandStep ==
  \/ ListUnspent
  \/ ChooseSend
  \/ ChooseInscribe
  \/ ChooseFails
  \/ BuildTransaction
  \/ SendTransaction
  \/ BuildReveal
  \/ BackupRecoveryKey
  \/ SendCommit
  \/ SendReveal
  \/ LockUnspent
  \/ Fund
  \/ RpcFails

Next ==
  \/ CommandStep
  \/ \E kind \in Kinds : StartCommand(kind)
  \/ \E o \in Late : Mine(o)

Spec == Init /\ [][Next]_vars
----------------------------------------------------------------------------
(* Every variable has its type: positions of inputs and outputs are three  *)
(* at most, amounts are natural numbers, and addresses are not used twice. *)
TypeOK ==
  /\ coin \in [OutPoint -> Coins]
  /\ confirmed \in SUBSET OutPoint
  /\ spent \in SUBSET confirmed
  /\ locked \in SUBSET confirmed
  /\ indexed \in SUBSET confirmed
  /\ listed \in SUBSET confirmed
  /\ command \in Command \cup {<<>>}
  /\ imported \in BOOLEAN
  /\ sent \in SUBSET Transaction
  /\ phase \in Phases
  /\ phase \in BuilderPhases => ArgsOK
  /\ utxos \in SUBSET OutPoint
  /\ inputs \in Seq(OutPoint) /\ Len(inputs) <= 3
  /\ outputs \in Seq([address : Address, value : Nat]) /\ Len(outputs) <= 3
  /\ unused_change \in Seq(Address) /\ Len(unused_change) <= 2

(* Whatever the wallet, the fee rate and the scripts, the methods leave to *)
(* build what its assertions ask for, but for two things.  Fees that are   *)
(* rounded apart can be one sat more or less than the fee of the whole, so *)
(* the recipient's value is met to within a sat.  And an output that comes *)
(* before the recipient's is padded to the limit of dust of the            *)
(* recipient's script, not of its own.  By either of these an assertion of *)
(* build can fail (567-623), which the code has for transactions that are  *)
(* put together by hand, and the command panics.                           *)
BuildsToASat ==
  phase \in {"built", "panicked"} =>
    /\ SpendsOutgoingOnce
    /\ SentToRecipient
    /\ AddressesDiffer
    /\ SatComesFirst
    /\ FeeIsEstimated
    /\ \A k \in DOMAIN outputs :
         IF outputs[k].address = "recipient"
           THEN /\ outputs[k].value >= MinimumValue - 1
                /\ outputs[k].value <= LargestValue + Slop + 1
           ELSE outputs[k].value >= Dust(IF k = 1 THEN "recipient" ELSE outputs[k].address)

(* A transaction that the wallet builds, and one that etch has funded,     *)
(* takes no inscription with it but the one the user named, even when a    *)
(* block pays the wallet between the update of the index and listunspent;  *)
(* an input that was chosen for its value carries no cunes either.  What   *)
(* pays for a send of an amount is the node's choice, which nothing locks  *)
(* (send.rs:100; the test send_btc_locks_inscriptions expects it).         *)
UnmentionedAssetsStay ==
  \A t \in sent : \A o \in t.inputs :
    /\ t.kind \in {"send_inscription", "send_satpoint", "inscribe"} =>
         /\ coin[o].inscribed # {} =>
              /\ t.kind = "send_inscription"
              /\ InscribedIn({o}) = {t.outgoing}
         /\ coin[o].cunes => o = t.outgoing.outpoint
    /\ t.kind = "etch" /\ o \in t.known => coin[o].inscribed = {}

(* Once the commit transaction is sent, its value is reachable: the reveal *)
(* transaction is sent too, or will be, or the wallet holds the key that   *)
(* recovers it, unless the user asked for no backup.                       *)
CommitIsRecoverable ==
  command # <<>> /\ command.kind = "inscribe" /\ ~command.no_backup =>
    \A t \in sent :
      t.kind = "inscribe" /\ t.outgoing = args.outgoing => imported

(* What the builder leaves in the commit output pays the reveal fee and    *)
(* still the target postage: the two refusals that follow the building,    *)
(* for a value that does not pay the fee or leaves dust, never happen.     *)
RevealKeepsPostage ==
  phase = "built" /\ command.kind = "inscribe" => RevealValue >= TARGET_POSTAGE
=============================================================================
