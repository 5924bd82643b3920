----------------------------- MODULE Crc20Ledger -----------------------------
(***************************************************************************)
(* The CRC20 token ledger: src/src/index/updater/crc20_updater.rs and the  *)
(* messages of src/src/crc20/.                                             *)
(*                                                                         *)
(* Each transaction of a block brings inscription operations: at most one  *)
(* new inscription and any number of moved ones.  The operations are       *)
(* resolved into messages, all of them before the first is executed, and a *)
(* message the ledger rejects changes nothing.  A transfer takes two       *)
(* inscription operations: inscribing it reserves the amount, and the      *)
(* first move of that inscription hands it over.                           *)
(*                                                                         *)
(* Ticks are lower-case ticks, the keys of the tables.  An amount is a     *)
(* number of the token's smallest units; one that does not parse is a zero *)
(* one, which every handler rejects as well.                               *)
(***************************************************************************)
EXTENDS Integers, Sequences, FiniteSets, Functions

CONSTANTS
  Tick, Script, Id,
  MaximumSupply,      \* MAXIMUM_SUPPLY, in smallest units
  MaxAmount,          \* bound: the largest amount an inscription names
  MaxMoves,           \* bound: inscriptions moved by one transaction
  Options             \* the options an index is made with

ASSUME LedgerAssumption ==
  /\ MaximumSupply \in Nat /\ MaxAmount \in Nat /\ MaxMoves \in Nat
  /\ Options \subseteq [crc20 : BOOLEAN, cunes : BOOLEAN,
                        transactions : BOOLEAN]

(* A script that owns something is one of the outputs of a chain: there    *)
(* are finitely many, which is what a sum over them needs.                 *)
ASSUME ScriptAssumption == IsFiniteSet(Script)

VARIABLES
  options,          \* --index-crc20, --index-cunes, --index-transactions
  born,             \* inscriptions made so far
  genesis,          \* genesis[i]: owner of the output of i's reveal
                    \*   transaction that i still lies in, if it does
  messages,         \* messages of the current transaction yet to execute
  tokens,           \* CRC20_TOKEN; supply 0: no such token
  balances,         \* CRC20_BALANCES
  holders,          \* CRC20_TOKEN_HOLDER
  log,              \* CRC20_TRANSFERABLELOG
  inscribeTransfer, \* CRC20_INSCRIBE_TRANSFER
  stuck             \* index_block has failed, and will on every retry

inscriptions == <<born, genesis>>
tables == <<tokens, balances, holders, log, inscribeTransfer>>
vars == <<options, inscriptions, messages, tables, stuck>>

(* Index::open reads the wrong option (index.rs:331).                      *)
index_crc20 == options.cunes

Amount == 0 .. MaxAmount

Body ==
  [op : {"deploy"}, tick : Tick, supply : Amount, limit : Amount]
    \cup [op : {"mint", "transfer"}, tick : Tick, amount : Amount]

(* An Option<ScriptKey>.                                                   *)
Receiver == {{}} \cup {{s} : s \in Script}

(* Message.to is empty when the inscription left the transaction as a fee. *)
NewOp == [action : {"new"}, id : Id, to : Receiver, body : Body]
TransferOp == [action : {"transfer"}, id : Id, to : Receiver]

Account == Script \X Tick
TokenInfo == [supply : Nat, limit : Nat, minted : Nat]
Balance == [overall : Nat, transferable : Nat]
TransferableLog == [id : Id, owner : Script, tick : Tick, amount : Nat]

Deployed(t) == tokens[t].supply # 0

-----------------------------------------------------------------------------
Init ==
  /\ options \in Options
  /\ born = {}
  /\ genesis = [i \in Id |-> {}]
  /\ messages = << >>
  /\ tokens = [t \in Tick |-> [supply |-> 0, limit |-> 0, minted |-> 0]]
  /\ balances = [a \in Account |-> [overall |-> 0, transferable |-> 0]]
  /\ holders = {}
  /\ log = {}
  /\ inscribeTransfer = {}
  /\ stuck = FALSE

-----------------------------------------------------------------------------
(* Resolving the operations of a transaction                               *)

(* Message::resolve, with the script keys create_execution_message adds.   *)
(* An operation that gives no message stays as one that does nothing.      *)
Ignored == [op |-> "ignored"]
Silent == [id |-> {}, from |-> {}, to |-> {}, body |-> Ignored]

NewMessage(o) ==
  IF o.to = {} THEN Silent
               ELSE [id |-> {o.id}, from |-> {}, to |-> o.to, body |-> o.body]

(* Only the first move of the inscription is a transfer: its old output is *)
(* one of its own reveal transaction.                                      *)
TransferMessage(o) ==
  IF o.id \in inscribeTransfer /\ genesis[o.id] # {}
    THEN [id |-> {o.id}, from |-> genesis[o.id], to |-> o.to,
          body |-> [op |-> "move"]]
    ELSE Silent

Resolve(o) == IF o.action = "new" THEN NewMessage(o) ELSE TransferMessage(o)

Ids(ops) == {ops[k].id : k \in 1 .. Len(ops)}

(* Where the inscription i lies once ops are done.                         *)
Landed(ops, i) ==
  UNION {o.to : o \in {ops[k] : k \in {k \in 1 .. Len(ops) :
                          ops[k].id = i /\ ops[k].action = "new"}}}

(* index_block and resolve_message for one transaction whose inscription   *)
(* operations are ops; it moves no inscription twice.                      *)
IndexTransaction(ops) ==
  /\ ~stuck
  /\ messages = << >>
  /\ \A k, l \in 1 .. Len(ops) : k # l => ops[k].id # ops[l].id
  /\ born' = born \cup Ids(ops)
  /\ genesis' = [i \in Id |-> IF i \in Ids(ops) THEN Landed(ops, i)
                                               ELSE genesis[i]]
  /\ messages' = IF index_crc20
                   THEN [k \in 1 .. Len(ops) |-> Resolve(ops[k])]
                   ELSE << >>
  /\ UNCHANGED <<options, tables, stuck>>

-----------------------------------------------------------------------------
(* Executing the messages                                                  *)

Only(S) == CHOOSE x \in S : TRUE

message == Head(messages)
body == message.body
to == Only(message.to)
from == Only(message.from)

(* create_execution_message looks up the transaction that holds the old    *)
(* satpoint, and its failure is one of index_block.                        *)
Executable == body = Ignored \/ options.transactions

Turn(op) ==
  /\ ~stuck
  /\ messages # << >>
  /\ body.op = op
  /\ Executable
  /\ messages' = Tail(messages)
  /\ UNCHANGED <<options, inscriptions, stuck>>

DeployAccepted ==
  /\ ~Deployed(body.tick)
  /\ body.supply \in 1 .. MaximumSupply
  /\ body.limit \in 1 .. MaximumSupply

ProcessDeploy ==
  /\ Turn("deploy")
  /\ DeployAccepted
  /\ tokens' = [tokens EXCEPT ![body.tick] =
                  [supply |-> body.supply, limit |-> body.limit, minted |-> 0]]
  /\ UNCHANGED <<balances, holders, log, inscribeTransfer>>

MintAccepted ==
  /\ Deployed(body.tick)
  /\ body.amount \in 1 .. tokens[body.tick].limit
  /\ tokens[body.tick].minted < tokens[body.tick].supply

MintedUncut(amount, token) == amount  \* a mutant: exceeds the supply

(* The last mint is cut to what is left of the supply.                     *)
Minted(amount, token) ==
  IF amount + token.minted > token.supply THEN token.supply - token.minted
                                          ELSE amount

ProcessMint ==
  /\ Turn("mint")
  /\ MintAccepted
  /\ LET amount == Minted(body.amount, tokens[body.tick])
     IN  /\ balances' = [balances EXCEPT ![<<to, body.tick>>].overall =
                           @ + amount]
         /\ tokens' = [tokens EXCEPT ![body.tick].minted = @ + amount]
  /\ holders' = holders \cup {<<body.tick, to>>}
  /\ UNCHANGED <<log, inscribeTransfer>>

AvailableTwice(b) == b.overall  \* a mutant: forgets what is reserved

(* checked_sub: no amount is reserved when the balance is inconsistent.    *)
Available(b) == IF b.transferable <= b.overall
                  THEN b.overall - b.transferable ELSE 0

InscribeTransferAccepted ==
  /\ Deployed(body.tick)
  /\ body.amount \in 1 .. tokens[body.tick].supply
  /\ body.amount <= Available(balances[<<to, body.tick>>])

ProcessInscribeTransfer ==
  /\ Turn("transfer")
  /\ InscribeTransferAccepted
  /\ balances' = [balances EXCEPT ![<<to, body.tick>>].transferable =
                    @ + body.amount]
  /\ log' = log \cup {[id |-> Only(message.id), owner |-> to, tick |-> body.tick,
                       amount |-> body.amount]}
  /\ inscribeTransfer' = inscribeTransfer \cup message.id
  /\ UNCHANGED <<tokens, holders>>

(* get_transferable_by_id among the entries of the sender.                 *)
Transferables == {l \in log : l.id \in message.id /\ l.owner = from}

TransferAccepted(l) ==
  /\ Deployed(l.tick)
  /\ l.amount <= balances[<<from, l.tick>>].overall
  /\ l.amount <= balances[<<from, l.tick>>].transferable

PayStale(sender, receiver, l) ==  \* a mutant: reads both balances first
  [balances EXCEPT
     ![<<sender, l.tick>>] = [overall |-> @.overall - l.amount,
                              transferable |-> @.transferable - l.amount],
     ![<<receiver, l.tick>>].overall =
         balances[<<receiver, l.tick>>].overall + l.amount]

(* The receiver's balance is read after the sender's has been written:     *)
(* they may be one account.  A transfer to the miner returns the amount.   *)
Pay(sender, receiver, l) ==
  LET paid == [balances EXCEPT
                 ![<<sender, l.tick>>].overall = @ - l.amount,
                 ![<<sender, l.tick>>].transferable = @ - l.amount]
  IN  [paid EXCEPT ![<<receiver, l.tick>>].overall = @ + l.amount]

HoldersWithoutSelf(sender, receiver, l) ==  \* a mutant: forgets self-payment
  (holders \cup {<<l.tick, receiver>>})
    \ {a \in {<<l.tick, sender>>} :
         balances[<<sender, l.tick>>].overall = l.amount}

(* A sender who has nothing left is no longer a holder.                    *)
HoldersAfter(sender, receiver, l) ==
  (holders \cup {<<l.tick, receiver>>})
    \ {a \in {<<l.tick, sender>>} :
         balances[<<sender, l.tick>>].overall = l.amount /\ sender # receiver}

ProcessTransferKeeping ==  \* a mutant: leaves the entry in the log
  /\ Turn("move")
  /\ \E l \in Transferables :
       LET receiver == IF message.to = {} THEN from ELSE to
       IN  /\ TransferAccepted(l)
           /\ balances' = Pay(from, receiver, l)
           /\ holders' = HoldersAfter(from, receiver, l)
  /\ inscribeTransfer' = inscribeTransfer \ message.id
  /\ UNCHANGED <<tokens, log>>

ProcessTransfer ==
  /\ Turn("move")
  /\ \E l \in Transferables :
       LET receiver == IF message.to = {} THEN from ELSE to
       IN  /\ TransferAccepted(l)
           /\ balances' = Pay(from, receiver, l)
           /\ holders' = HoldersAfter(from, receiver, l)
           /\ log' = log \ {l}
  /\ inscribeTransfer' = inscribeTransfer \ message.id
  /\ UNCHANGED tokens

(* execute_message drops a handler's error and goes on.                    *)
Reject ==
  /\ \/ Turn("ignored")
     \/ Turn("deploy") /\ ~DeployAccepted
     \/ Turn("mint") /\ ~MintAccepted
     \/ Turn("transfer") /\ ~InscribeTransferAccepted
     \/ Turn("move") /\ \A l \in Transferables : ~TransferAccepted(l)
  /\ UNCHANGED tables

(* index_block returns the error: the block is not indexed, and the next   *)
(* update meets the same message.                                          *)
Fail ==
  /\ messages # << >>
  /\ ~Executable
  /\ stuck' = TRUE
  /\ UNCHANGED <<options, inscriptions, messages, tables>>

(* A new inscription comes first, at offset 0 of input 0; the moved ones   *)
(* follow in the order of the inputs.                                      *)
First == {<< >>} \cup {<<o>> : o \in {o \in NewOp : o.id \notin born}}
Moves == UNION {[1 .. n -> {o \in TransferOp : o.id \in born}] :
                  n \in 0 .. MaxMoves}

Transaction ==
  \E first \in First, moves \in Moves : IndexTransaction(first \o moves)

Next ==
  \/ Transaction
  \/ ProcessDeploy \/ ProcessMint \/ ProcessInscribeTransfer
  \/ ProcessTransfer \/ Reject \/ Fail

Spec == Init /\ [][Next]_vars

-----------------------------------------------------------------------------
(* Properties                                                              *)

Message ==
  [id : {{}} \cup {{i} : i \in Id}, from : Receiver, to : Receiver,
   body : Body \cup {Ignored, [op |-> "move"]}]

(* The type invariant.                                                     *)
TypeOK ==
  /\ options \in Options
  /\ born \subseteq Id
  /\ genesis \in [Id -> Receiver]
  /\ messages \in Seq(Message)
  /\ tokens \in [Tick -> TokenInfo]
  /\ balances \in [Account -> Balance]
  /\ holders \subseteq Tick \X Script
  /\ log \subseteq TransferableLog
  /\ inscribeTransfer \subseteq Id
  /\ stuck \in BOOLEAN

(* CRC20_TOKEN_HOLDER lists exactly the scripts with something of a token: *)
(* process_mint and process_transfer insert and remove its rows by hand,   *)
(* also when a sender pays himself or gets his amount back from the miner. *)
HoldersAreOwners ==
  \A t \in Tick, s \in Script :
    <<t, s>> \in holders <=> balances[<<s, t>>].overall > 0

Held(t) ==
  SumFunctionOnSet([s \in Script |-> balances[<<s, t>>].overall], Script)
Reserved(entries, a) ==
  SumFunctionOnSet([l \in entries |-> l.amount],
                   {l \in entries : <<l.owner, l.tick>> = a})

(* What the scripts hold of a token is what has been minted of it, never   *)
(* more than its supply: process_mint and process_transfer create and lose *)
(* nothing, whoever pays whom.  The transferable part of a balance is the  *)
(* sum of its reservations, and no more than the balance: the subtractions *)
(* of process_inscribe_transfer and process_transfer cannot fail.          *)
Conserved ==
  /\ \A t \in Tick : /\ Held(t) = tokens[t].minted
                     /\ tokens[t].minted <= tokens[t].supply
  /\ \A a \in Account : /\ balances[a].transferable = Reserved(log, a)
                        /\ balances[a].transferable <= balances[a].overall

Moving(l) ==
  \E k \in 1 .. Len(messages) :
    /\ messages[k].id = {l.id}
    /\ messages[k].body.op = "move"
    /\ messages[k].from = {l.owner}

(* Every reserved amount can still be handed over: its inscription lies    *)
(* where its owner inscribed it, or its first move is about to execute.    *)
(* The two tables that remember a reservation (process_inscribe_transfer)  *)
(* agree, so that Message::resolve finds what process_transfer needs.      *)
ReservationsAreLive ==
  /\ \A l \in log : genesis[l.id] = {l.owner} \/ Moving(l)
  /\ \A i \in inscribeTransfer : \E l \in log : l.id = i
  /\ \A l \in log : l.id \in inscribeTransfer
  /\ \A l, m \in log : l.id = m.id => l = m

(* A message Message::resolve made of the first move of a reservation is   *)
(* never rejected by process_transfer, whose errors execute_message drops: *)
(* the inscription would be spent and the amount stay reserved for good.   *)
FirstMovePays ==
  messages # << >> /\ body.op = "move" =>
    \E l \in Transferables : TransferAccepted(l)

Notes == INSTANCE TokenNotes
  WITH Owner <- Script,
       cap <- [t \in Tick |-> tokens[t].supply],
       issued <- [t \in Tick |-> tokens[t].minted],
       available <- [a \in Account |->
                       balances[a].overall - balances[a].transferable],
       notes <- log

(* The four handlers and the message resolution implement a ledger of      *)
(* notes: tokens appear only by minting, within the supply, and leave an   *)
(* account only by an amount its owner reserved, once.                     *)
LedgerIsTokenNotes == Notes!LedgerSpec

=============================================================================
