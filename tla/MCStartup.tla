---------------------------- MODULE MCStartup ------------------------------
(***************************************************************************)
(* Three commands on a machine with a node of the mainnet and one of the   *)
(* regtest, with options that differ in what they index and where.         *)
(***************************************************************************)
EXTENDS Startup, TLC

MCNode == (22555 :> [chain |-> "mainnet", version |-> 1140600]) @@
          (18332 :> [chain |-> "regtest", version |-> 1140700])

MainnetOptions ==
  [flag |-> None, chain_argument |-> "mainnet", rpc_url |-> None, cookie_file |-> None,
   data_dir |-> None, index |-> None, index_cunes |-> FALSE, index_sats |-> FALSE,
   index_transactions |-> FALSE, first_inscription_height |-> None,
   first_cune_height |-> None, wallet |-> "ord"]

RegtestOptions == [MainnetOptions EXCEPT !.flag = "regtest"]

Lines(command, options) == [command : {command}, options : options]

MCCommandLines ==
  Lines("index",
        {MainnetOptions,
         [MainnetOptions EXCEPT !.index_cunes = TRUE, !.index_sats = TRUE],
         [MainnetOptions EXCEPT !.rpc_url = 18332],
         RegtestOptions,
         [MainnetOptions EXCEPT !.chain_argument = "regtest", !.index = <<"index.redb">>]})
  \cup Lines("wallet", {MainnetOptions})
  \cup Lines("create", {MainnetOptions, [MainnetOptions EXCEPT !.rpc_url = 18332]})
  \cup Lines("restore", {MainnetOptions})

MCOldSchemaAt == {<<"index.redb">>}
Symmetry == Permutations(Command)
=============================================================================
