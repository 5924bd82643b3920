------------------------------ MODULE Startup ------------------------------
(***************************************************************************)
(* How a command gets at the index and at the wallet: the options          *)
(* (src/src/options.rs, src/src/chain.rs), Index::open (src/src/index.rs)  *)
(* and the check and the creation of a wallet of the node                  *)
(* (src/src/subcommand/wallet.rs).  Commands run beside each other, may    *)
(* end or be killed between any two calls, and the node can be restarted,  *)
(* which takes its cookie with it and unloads its wallets.                 *)
(*                                                                         *)
(* A url that is given with --rpc-url is taken to name the wallet that is  *)
(* given with --wallet, as wallet/ord does.  The default url has the name  *)
(* alone behind the port (options.rs:116-124; options.rs:295 expects       *)
(* wallet/ord).  A node either takes such a call as one of that wallet, or *)
(* refuses it: the command breaks off, as it may at any call.              *)
(***************************************************************************)
EXTENDS Naturals, Sequences, FiniteSets

CONSTANTS
  Command,           \* commands, each given at most once
  CommandLines,      \* [command, options] the user may give them
  Port,              \* the ports nodes listen at
  Node,              \* [chain, version] of the node at each port
  Name,              \* names of wallets
  OldSchemaAt,       \* paths where an older version left an index
  MaxBlocks,         \* blocks a node has
  MaxStops,          \* times a node is stopped
  None

Chain == {"mainnet", "testnet", "signet", "regtest"}

(* --chain and the three flags are one group of arguments: at most one of  *)
(* them is given, and chain_argument is the mainnet when it is not.        *)
Given(o) ==
  /\ o.flag \in {None, "signet", "regtest", "testnet"}
  /\ o.chain_argument \in Chain
  /\ o.flag # None => o.chain_argument = "mainnet"
  /\ o.rpc_url = None \/ o.rpc_url \in Port
  /\ o.wallet \in Name

ASSUME StartupAssumption ==
  /\ \A line \in CommandLines :
       /\ line.command \in {"index", "wallet", "create", "restore"}
       /\ Given(line.options)
  /\ Node \in [Port -> [chain : Chain, version : Nat]]
  /\ MaxBlocks \in Nat /\ MaxStops \in Nat

VARIABLES
  up,          \* the ports of the nodes that run
  stops,       \* how often a node was stopped
  wallets,     \* the wallets on the disk of each node: their descriptors
  loaded,      \* the wallets each node has loaded
  files,       \* the index at each path
  run          \* the commands

node_vars == <<up, stops, wallets, loaded>>
vars == <<node_vars, files, run>>

(***************************************************************************)
(* Options.                                                                *)
(***************************************************************************)
ChainOf(o) == IF o.flag # None THEN o.flag ELSE o.chain_argument

DefaultRpcPort(c) ==
  [mainnet |-> 22555, regtest |-> 18332, signet |-> 38332, testnet |-> 44555][c]

ChainFirstInscriptionHeight(c) ==
  [mainnet |-> 4600000, regtest |-> 0, signet |-> 0, testnet |-> 4250000][c]

ChainFirstCuneHeight(c) ==
  [mainnet |-> 5084000, regtest |-> 0, signet |-> 0, testnet |-> 4250000][c]

UnwrapOr(x, default) == IF x = None THEN default ELSE x

FirstInscriptionHeight(o) ==
  UnwrapOr(o.first_inscription_height, ChainFirstInscriptionHeight(ChainOf(o)))

FirstCuneHeight(o) ==
  UnwrapOr(o.first_cune_height, ChainFirstCuneHeight(ChainOf(o)))

(* The default url has the name of the wallet for its path, without        *)
(* wallet/ before it.  It has no scheme, and Url::parse takes it for a     *)
(* relative one: it carries no credentials.                                *)
RpcUrl(o) ==
  [port |-> UnwrapOr(o.rpc_url, DefaultRpcPort(ChainOf(o))),
   path |-> IF o.rpc_url = None THEN <<o.wallet>> ELSE <<"wallet", o.wallet>>,
   parses |-> o.rpc_url # None]

JoinWithDataDir(c, dir) ==
  IF c = "mainnet" THEN <<dir>>
  ELSE <<dir, [testnet |-> "testnet3", signet |-> "signet", regtest |-> "regtest"][c]>>

CookieFile(o) == UnwrapOr(o.cookie_file, JoinWithDataDir(ChainOf(o), "~/.craftcoin"))

DataDir(o) == JoinWithDataDir(ChainOf(o), UnwrapOr(o.data_dir, "~/.local/share/ord"))

IndexPath(o) == UnwrapOr(o.index, Append(DataDir(o), "index.redb"))

(* A node writes its cookie when it starts and removes it when it stops.   *)
CookieOf(n) == JoinWithDataDir(Node[n].chain, "~/.craftcoin")
Stale == <<"stale">>
ASSUME NoneAssumption == None # Stale
CookieExists(o) == \E n \in up : CookieOf(n) = CookieFile(o)

Path == {IndexPath(line.options) : line \in CommandLines}
Server(p) == RpcUrl(run[p].options).port

(***************************************************************************)
(* Init.                                                                   *)
(***************************************************************************)
Flags == [crc20 : BOOLEAN, cunes : BOOLEAN, sats : BOOLEAN, transactions : BOOLEAN]

Absent == [is |-> "absent"]
Empty == [is |-> "empty"]
Old == [is |-> "old"]
Index(flags, blocks) == [is |-> "index", flags |-> flags, blocks |-> blocks]

(* A wallet that the node's own tools made holds other descriptors beside  *)
(* two of taproot.                                                         *)
Tr(seed, change) == [kind |-> "tr", seed |-> seed, internal |-> ~change]
Foreign == {Tr("core", FALSE), Tr("core", TRUE),
            [kind |-> "wpkh", seed |-> "core", internal |-> FALSE]}

Init ==
  /\ up = Port
  /\ stops = 0
  /\ wallets \in [Port -> [Name -> {<<>>, <<Foreign>>}]]
  /\ loaded = [n \in Port |-> {}]
  /\ files = [f \in Path |-> IF f \in OldSchemaAt THEN Old ELSE Absent]
  /\ run = [p \in Command |-> [at |-> "idle"]]

(***************************************************************************)
(* Commands.                                                               *)
(***************************************************************************)
Running(p) == run[p].at \notin {"idle", "ended"}

Go(p, at) == run' = [run EXCEPT ![p].at = at]
End(p) == run' = [run EXCEPT ![p] = [at |-> "ended"]]

(* Subcommand::run: an index command opens the index, a wallet command     *)
(* asks for a client.  Of the wallet commands that use a wallet, inscribe  *)
(* is the one that leaves something in it.                                 *)
Start(p) ==
  /\ run[p].at = "idle"
  /\ \E line \in CommandLines :
       run' = [run EXCEPT ![p] =
                 [at |-> IF line.command = "index" THEN "open" ELSE "connect",
                  command |-> line.command, options |-> line.options]]
  /\ UNCHANGED <<node_vars, files>>

(* The command is done, one of its calls fails, or it is killed.           *)
Stop(p) ==
  /\ Running(p)
  /\ End(p)
  /\ UNCHANGED <<node_vars, files>>

(* A client keeps the cookie it read, which only the node that wrote it    *)
(* takes; with a user and a password it outlives the node.                 *)
Reaches(p) == Server(p) \in up /\ run[p].cookie \in {None, CookieOf(Server(p))}

WalletOf(p) == wallets[Server(p)][run[p].options.wallet]

SetWallet(p, descriptors) ==
  wallets' = [wallets EXCEPT ![Server(p)][run[p].options.wallet] = <<descriptors>>]

(***************************************************************************)
(* Index::open and the indexing of blocks.                                 *)
(***************************************************************************)
Holds(p, f) == run[p].at \in {"created", "index"} /\ IndexPath(run[p].options) = f

(* What a new index is built with: crc20 goes with the cunes.              *)
FlagsOf(o) ==
  [crc20 |-> o.index_cunes, cunes |-> o.index_cunes,
   sats |-> o.index_sats, transactions |-> o.index_transactions]

(* An index that exists is opened as it was built, and not as the options  *)
(* have it.                                                                *)
FlagsOfOptions(o, file) == FlagsOf(o)
FlagsOfExisting(o, file) == file.flags

OpenedIndex(o, cookie, flags) ==
  [at |-> "index", command |-> "index", options |-> o,
   cookie |-> cookie, flags |-> flags, chain |-> o.chain_argument,
   first_inscription_height |-> FirstInscriptionHeight(o),
   first_cune_height |-> FirstCuneHeight(o)]

(* The database has one user.  A file without tables, which a command      *)
(* leaves that ends before its first commit, has no statistics to read.    *)
Open(p) ==
  /\ run[p].at = "open"
  /\ LET o == run[p].options
         f == IndexPath(o)
         cookie == IF CookieExists(o) THEN CookieFile(o) ELSE None
         unlocked == \A q \in Command : ~Holds(q, f)
         connects == cookie # None \/ RpcUrl(o).parses
     IN  \/ /\ connects /\ unlocked /\ files[f].is = "absent"
            /\ files' = [files EXCEPT ![f] = Empty]
            /\ run' = [run EXCEPT ![p] =
                 [at |-> "created", command |-> "index", options |-> o, cookie |-> cookie]]
         \/ /\ connects /\ unlocked /\ files[f].is = "index"
            /\ run' = [run EXCEPT ![p] =
                 OpenedIndex(o, cookie, FlagsOfExisting(o, files[f]))]
            /\ UNCHANGED files
         \/ /\ ~(connects /\ unlocked) \/ files[f].is \in {"empty", "old"}
            /\ End(p)
            /\ UNCHANGED files
  /\ UNCHANGED node_vars

(* The tables and the statistics of a new index are one transaction.       *)
Build(p) ==
  /\ run[p].at = "created"
  /\ LET o == run[p].options
     IN  /\ files' = [files EXCEPT ![IndexPath(o)] = Index(FlagsOf(o), <<>>)]
         /\ run' = [run EXCEPT ![p] = OpenedIndex(o, run[p].cookie, FlagsOf(o))]
  /\ UNCHANGED node_vars

(* A block follows the last one only when that is the block before it: a   *)
(* block of another chain is taken for a reorg, and none is recovered that *)
(* goes back to the first block.                                           *)
Follows(block, blocks) ==
  blocks = <<>> \/ blocks[Len(blocks)].chain = block.chain

IndexBlock(p) ==
  /\ run[p].at = "index"
  /\ Reaches(p)
  /\ LET f == IndexPath(run[p].options)
         blocks == files[f].blocks
         block == [chain |-> Node[Server(p)].chain, flags |-> run[p].flags,
                   default |-> /\ run[p].options.rpc_url = None
                               /\ run[p].options.cookie_file = None
                               /\ run[p].options.index = None
                               /\ run[p].options.data_dir = None]
     IN  /\ Len(blocks) < MaxBlocks
         /\ IF Follows(block, blocks)
            THEN files' = [files EXCEPT ![f].blocks = Append(@, block)] /\ UNCHANGED run
            ELSE End(p) /\ UNCHANGED files
  /\ UNCHANGED node_vars

(***************************************************************************)
(* craftcoin_rpc_client_for_wallet_command.                                *)
(***************************************************************************)
MinVersion == 1140600

(* A client for a wallet takes the cookie file only, and a node of the     *)
(* chain of the options.                                                   *)
Connect(p) ==
  /\ run[p].at = "connect"
  /\ LET o == run[p].options
         n == RpcUrl(o).port
         usable == /\ n \in up
                   /\ CookieExists(o) /\ CookieFile(o) = CookieOf(n)
                   /\ Node[n].chain = ChainOf(o)
                   /\ Node[n].version >= MinVersion
         creates == run[p].command \in {"create", "restore"}
     IN  IF usable
         THEN run' = [run EXCEPT ![p] =
                [at |-> IF creates THEN "create_wallet" ELSE "load_wallet",
                 command |-> run[p].command, options |-> o, cookie |-> CookieFile(o)]]
         ELSE End(p)
  /\ UNCHANGED <<node_vars, files>>

(* A wallet that is not loaded is, when there is one.                      *)
LoadWallet(p) ==
  /\ run[p].at = "load_wallet"
  /\ Reaches(p)
  /\ IF WalletOf(p) = <<>>
     THEN End(p) /\ UNCHANGED loaded
     ELSE /\ loaded' = [loaded EXCEPT ![Server(p)] = @ \cup {run[p].options.wallet}]
          /\ Go(p, "list_descriptors")
  /\ UNCHANGED <<up, stops, wallets, files>>

OfKind(kind, descriptors) == {x \in descriptors : x.kind = kind}

(* Two descriptors of taproot, and none beside those and recovery keys.    *)
IsOrdWallet(descriptors) ==
  /\ Cardinality(OfKind("tr", descriptors)) = 2
  /\ Cardinality(descriptors) = 2 + Cardinality(OfKind("rawtr", descriptors))

WalletIsLoaded(p) == run[p].options.wallet \in loaded[Server(p)]

ListDescriptors(p) ==
  /\ run[p].at = "list_descriptors"
  /\ Reaches(p)
  /\ IF WalletIsLoaded(p) /\ IsOrdWallet(WalletOf(p)[1]) THEN Go(p, "checked") ELSE End(p)
  /\ UNCHANGED <<node_vars, files>>

(* backup_recovery_key: inscribe leaves a recovery key in the wallet.      *)
BackupRecoveryKey(p) ==
  /\ run[p].at = "checked"
  /\ Reaches(p) /\ WalletIsLoaded(p)
  /\ SetWallet(p, WalletOf(p)[1] \cup {[kind |-> "rawtr", seed |-> p, internal |-> FALSE]})
  /\ UNCHANGED <<up, stops, loaded, files, run>>

(***************************************************************************)
(* initialize_wallet.                                                      *)
(***************************************************************************)
(* A mnemonic is made anew by create, and given to restore.                *)
Seed(p) == IF run[p].command = "create" THEN p ELSE "mnemonic"

(* A node that made a wallet of that name, or took the one it has.         *)
CreateOrUseWallet(p) ==
  /\ run[p].at = "create_wallet"
  /\ Reaches(p)
  /\ IF WalletOf(p) # <<>> THEN UNCHANGED wallets ELSE SetWallet(p, {})
  /\ loaded' = [loaded EXCEPT ![Server(p)] = @ \cup {run[p].options.wallet}]
  /\ Go(p, "import_receive")
  /\ UNCHANGED <<up, stops, files>>

(* The node refuses a name it has a wallet of.                             *)
CreateWallet(p) ==
  /\ run[p].at = "create_wallet"
  /\ Reaches(p)
  /\ IF WalletOf(p) # <<>>
     THEN End(p) /\ UNCHANGED <<wallets, loaded>>
     ELSE /\ SetWallet(p, {})
          /\ loaded' = [loaded EXCEPT ![Server(p)] = @ \cup {run[p].options.wallet}]
          /\ Go(p, "import_receive")
  /\ UNCHANGED <<up, stops, files>>

(* The answer of the node says whether it took the descriptor; the command *)
(* does not look at it.                                                    *)
Import(p, at, change, next) ==
  /\ run[p].at = at
  /\ Reaches(p) /\ WalletIsLoaded(p)
  /\ \/ SetWallet(p, WalletOf(p)[1] \cup {Tr(Seed(p), change)})
     \/ UNCHANGED wallets
  /\ Go(p, next)
  /\ UNCHANGED <<up, stops, loaded, files>>

ImportReceive(p) == Import(p, "import_receive", FALSE, "import_change")
ImportChange(p) == Import(p, "import_change", TRUE, "created_wallet")

(***************************************************************************)
(* The nodes.                                                              *)
(***************************************************************************)
NodeStarts(n) ==
  /\ n \notin up
  /\ up' = up \cup {n}
  /\ UNCHANGED <<stops, wallets, loaded, files, run>>

(* No call of a client that has the cookie of the node succeeds after that.*)
NodeStops(n) ==
  /\ n \in up /\ stops < MaxStops
  /\ up' = up \ {n}
  /\ stops' = stops + 1
  /\ loaded' = [loaded EXCEPT ![n] = {}]
  /\ run' = [p \in Command |->
       IF /\ run[p].at \notin {"idle", "ended", "open", "connect"}
          /\ run[p].cookie = CookieOf(n)
       THEN [run[p] EXCEPT !.cookie = Stale] ELSE run[p]]
  /\ UNCHANGED <<wallets, files>>

Step(p) ==
  \/ Start(p) \/ Stop(p)
  \/ Open(p) \/ Build(p) \/ IndexBlock(p)
  \/ Connect(p) \/ LoadWallet(p) \/ ListDescriptors(p) \/ BackupRecoveryKey(p)
  \/ CreateWallet(p) \/ ImportReceive(p) \/ ImportChange(p)

Next ==
  \/ \E p \in Command : Step(p)
  \/ \E n \in Port : NodeStarts(n) \/ NodeStops(n)

Spec == Init /\ [][Next]_vars

(***************************************************************************)
(* Properties.                                                             *)
(***************************************************************************)
(* A wallet that a command goes on to use has a descriptor for receiving   *)
(* and one for change, both of one seed, and beside them recovery keys     *)
(* only: whatever commands of the same name ran at the same time, broke    *)
(* off between two imports or had an import refused without noticing, the  *)
(* check of craftcoin_rpc_client_for_wallet_command lets no other through. *)
WalletHasOneSeed ==
  \A p \in Command : run[p].at = "checked" =>
    \E seed \in Command \cup {"mnemonic"} :
      \E keys \in SUBSET [kind : {"rawtr"}, seed : Command, internal : {FALSE}] :
        WalletOf(p) = <<{Tr(seed, FALSE), Tr(seed, TRUE)} \cup keys>>

(* The blocks of an index are of one kind.  They were indexed with the     *)
(* flags the index was built with, whatever flags later commands were      *)
(* given: a table that is kept at all is kept for every block.  And they   *)
(* are of one chain, although Index::open does not ask the node which one  *)
(* it is on: commands that name neither node, cookie nor index give the    *)
(* chains they are given an index each.                                    *)
BlocksOfAnIndexAgree ==
  \A f \in Path : files[f].is = "index" =>
    LET blocks == files[f].blocks
    IN  /\ \A i \in DOMAIN blocks : blocks[i].flags = files[f].flags
        /\ \A i, j \in DOMAIN blocks : blocks[i].chain = blocks[j].chain
        /\ \A i \in DOMAIN blocks : blocks[i].default =>
             f = Append(JoinWithDataDir(blocks[i].chain, "~/.local/share/ord"),
                        "index.redb")
=============================================================================
