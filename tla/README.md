# A verification of craftcoin-ord

`craftcoin-ord` is an indexer, explorer and wallet for inscriptions, cunes and
CRC20 tokens on a Dogecoin-like chain. It is a Rust program: one process with a
redb database, an indexing thread, helper threads and tasks that talk to the
node over JSON-RPC, and an HTTP server that reads the database.

This directory holds TLA+ modules translated from the code in `src/src`, TLC
configurations, and proofs checked by TLAPS. `PROJECT.json` says which lines
each definition models.

## 1. Inventory

| Component | State | Operations | What is hard | What makes it correct |
|---|---|---|---|---|
| **Updater and reorg recovery** (`index.rs` `update`, `index/updater.rs`, `index/reorg.rs`, `index/rtx.rs`, the index thread of `subcommand/server.rs`, shutdown in `lib.rs`) | the database (`HEIGHT_TO_BLOCK_HASH` and all other tables), its persistent savepoints; the open write transaction; the channel of blocks; the flags `unrecoverably_reorged` and `SHUTTING_DOWN` | `update_index`, `commit`, `fetch_blocks_from`, `detect_reorg`, `handle_reorg`, `update_savepoints` | the node reorganises between any two RPC calls; the fetch thread runs ahead of the index; crash between three transactions; retries that give up | the index is the node's chain in the end; savepoints are earlier states of the index; a reorg called recoverable can be recovered from; shutdown ends |
| **CRC20 ledger** (`index/updater/crc20_updater.rs`, `crc20/`) | token info, balances, holders, transferable log, reservations by inscription | `resolve`, `process_deploy`, `process_mint`, `process_inscribe_transfer`, `process_transfer` | several messages in one transaction, resolved before the first is executed; transfers to oneself; dropped errors | conservation, reservations covered by the balance, tables that agree |
| **Cune ledger** (`index/updater/cune_updater.rs`, `cunes/cunestone.rs`, `cunes/edict.rs`, `index/entry.rs`) | entries, names, balances of outpoints, the counter of reserved names | `index_cunes`: etching, mint, edict, pointer, burn | several sources of one cune in one transaction, cenotaphs, u128 arithmetic | conservation, unique names, mints within their terms |
| **Cune names and cunestones** (`cunes/cunestone.rs`, `tag.rs`, `flag.rs`, `varint.rs`, `cune.rs`, `cune_id.rs`, `spaced_cune.rs`) | none | `decipher`, `encipher`, names, the shortest name allowed at a height | integers at their limits, duplicate and odd tags, order of edicts, boundaries of the schedule | what is written is read back; names open length by length |
| **Inscription index** (`index/updater/inscription_updater.rs`, `inscription.rs`) | inscription by satpoint and back, numbers, partial inscriptions, flotsam of the block | `index_transaction_inscriptions`, `update_inscription_location` | inscriptions that span transactions; fees that reach the coinbase last; lost inscriptions | each inscription is at one place, the two tables are inverses, numbers have no gap |
| **Sat index** (`Updater::index_transaction_sats`, `list`, `find` of `index.rs`, `SatRange` of `index/entry.rs`) | sat ranges of outpoints, the range cache of a batch, lost sats | assignment of ranges in FIFO order | ranges that are made and spent in one batch, fees, underpaid subsidies, the width of a stored range | each unspent output has its row; the ranges follow the sats (they do not: section 6) |
| **Input value fetcher** (`spawn_fetcher` of `updater.rs`, `index/fetcher.rs`) | two bounded channels, a batch | send all missing outpoints, receive values in order | capacity, order, leftovers after an error, retries | each input gets its own value; no deadlock |
| **Transaction builder** (`subcommand/wallet/transaction_builder.rs`) | inputs, outputs, unused change addresses | seven phases that select, align, pad, add, strip and deduct | each phase moves amounts the earlier ones sized, and rounds fees apart from the others | the sat goes where it should, the fee is right, nothing else of value moves |
| **Wallet inscribe, send, etch** (`subcommand/wallet/*.rs`) | the outputs as the node and the index list them; locks at the node | commit and reveal transactions, locking, payments the node funds | node and index are read at different moments; a call fails between commit and reveal; the fee of the reveal is fixed, at a rate of its own, before the commit is built | no inscription or cune leaves unless the user named its output; a commit can be recovered |
| **Sat numerics** (`sat.rs`, `height.rs`, `epoch.rs`, `degree.rs`, `rarity.rs`, `decimal*.rs`) | none | conversions | boundaries of epochs | each conversion agrees with its definition |
| **Queries** (`index.rs`) and **HTTP server** (`subcommand/server.rs`) | none of their own: the locals of a request | queries, each with a read transaction of its own; the loops, filters and pages of a handler | the index thread commits or rolls back between two queries of one request | an output given as free to spend holds no asset; a handler finds what its own earlier query told it of; a quiet answer is exact |
| **Chain and options** (`options.rs`, `chain.rs`, `Index::open`, `subcommand/wallet.rs`, `wallet/create.rs`, `restore.rs`) | the index files, the wallets of the node, loaded and on disk | which node, wallet, cookie and index file a command means; building an index with its flags; creating, restoring, loading and checking a wallet | commands run beside each other and break off between two calls; the options of today meet the index of yesterday | an index has blocks of one kind; a wallet that is used is of one seed |
| **Text and formats** (`sat_point.rs`, `inscription_id.rs`, `representation.rs`, `object.rs`, `outgoing.rs`, `decimal.rs`, `crc20/num.rs`, `media.rs`, `subcommand/wallet/sats.rs`, `server/query.rs`) | none | parse, format, find listed sats | many parsers take the same texts | what is shown can be entered again |
| **Keys of the tables** (`index/entry.rs`, `crc20/script_key.rs`, `crc20/tick.rs`, the scans of `index.rs` and `crc20_updater.rs`) | none | store, load, scans over ranges of keys | prefixes, separators, byte order | a scan finds the rows meant, all and no other |
| **Templates**, other subcommands, `test-bitcoincore-rpc` | none of their own | format | (pure reading and formatting) | not modelled |

How they interact. The index thread (`subcommand/server.rs:263`) calls
`Index::update` over and over. An update opens a write transaction, starts the
fetch thread and the value fetcher, and gives each block it receives to the
inscription updater, the sat index, the CRC20 updater and the cune updater, in
that order (`updater.rs:323-597`); all of them write through the one open
transaction. The inscription updater hands the CRC20 updater the operations of
each transaction. Readers see what is committed only, and so does `Rtx`, which
`detect_reorg` uses. The server, the wallet and the subcommands read.

## 2. Plan

The most important behaviour comes first: what every other part relies on is
that the database follows the chain.

1. `ReorgIndex`, with the abstract `RevertibleLog` (done).
2. `Crc20Ledger`, with the abstract `TokenNotes` (done).
3. `CuneLedger` (done).
4. `InscriptionIndex` over `SatIndex`, with the abstract `SatFlow` (done).
5. `ValueFetcher`: `index_block`, the fetcher task and the two channels; liveness
   without deadlock, order of the replies, leftovers after a failed block (done).
6. `TransactionBuilder`, and `WalletCommands` around it: the choice of inputs,
   the node and the index read at different moments (done).
7. `IndexQueries`, and `ServerHandlers` with `ServerPages` beside the index thread (done).
8. The formats: `Cunestones`, `CuneNames`, `Notation`, `InscriptionScripts` and
   `StorageKeys`, checked in both directions by `MCEncodings` (done).
9. `Startup`: options, chains, the opening of an index and of a wallet (done).
10. A composition of `ReorgIndex` with two updaters of one database, for the
    comment at `updater.rs:137` (to do).

Theorems that are left: that no unsafe output is given as free to spend by the server
(`SpendableUtxosHoldNoAssets`), and the other properties of `server_requests`.
Runs are kept to one per distinct question; what a small run of its own showed about a
single line is an observation of section 6.

## 3. Modules

### 3.1 `ReorgIndex`: the updater

| State | Code |
|---|---|
| `chain`, `forks` | the node's best chain (external) |
| `committed` | `HEIGHT_TO_BLOCK_HASH` after the last commit, standing for all tables |
| `savepoints` | the persistent savepoints: each is the database it was taken of |
| `batch`, `queue`, `fetching` | blocks of the open transaction, blocks in the channel, the fetch thread |
| `pc`, `finishing`, `depth` | where `update_index`, `commit`, `update_savepoints` or `detect_reorg` is |
| `unrecoverable`, `shuttingDown` | the two flags |

A block is a record of its branch and its parent's branch; a hash is the block
with its height. Actions of the index thread: `CallUpdate`, `BeginUpdate`,
`IndexBlock`, `ChannelClosed`, `EndUpdate` and `NothingToCommit`, `Commit`, `AfterSavepoints`,
`TrimSavepoints`, `CreateSavepoint` (the two transactions of `update_savepoints`),
`ReorgDetected`/`SearchFork` (one RPC call each), `HandleReorg`, `RpcFails`.
`Fetch` and `FetchGivesUp` are the fetch thread. `Mine` and `ReorgTo` are the node,
`Crash` and `RequestShutdown` the user and the machine. Any RPC call is a step
of its own, so that the node can reorganise between two of them.

`RevertibleLog` is what the database promises: a log that grows by whole
commits, keeps marks at earlier lengths and can only be cut back to its oldest
mark. `DatabaseIsRevertibleLog` maps `committed` and `savepoints` to it.

`MCReorgIndex` adds `RecoverableSpec`, in which the node reorganises only while no
update is running and where the savepoints cover it, with fairness.
`MCReorgRace` adds a history variable `raced`: the node reorganised while an
update was running.

### 3.2 `Crc20Ledger`

The tables are those of `crc20_updater.rs`: `tokens`, `balances` (total and
transferable), `holders`, `log` (the transferable log), `reserved` (transfers
by inscription id). An inscription's state is where it is and whose it is. One
step indexes a transaction (`IndexTransaction`: the operations the inscription
updater found, resolved to messages against the tables of before), the
following steps take the messages in order (`Turn`): `ProcessDeploy`,
`ProcessMint`, `ProcessInscribeTransfer`, `ProcessTransfer`, or `Reject` for an
error the code drops. Amounts are small integers; parsing and decimals are
abstracted to amounts within or out of range.

`TokenNotes` is what a ledger of tokens promises: a balance is free tokens plus
notes of a fixed amount, a note is spent once by whoever owns it. The
refinement `LedgerIsTokenNotes` says the tables implement it.

### 3.3 `CuneLedger`

`entries`, `cuneToId`, `reservedCunes` and `balances` are the tables. The rest
of the state is that of `index_cunes` at work on one transaction, and `pc` is
the part under way: `SpendInput` for each input, `Cunestone` (decipher, and the
`Option<Allocation>` of the etching) or `NoCunestone`, `ReadEdict` for each edict
(by the source its id names: the issue, an open mint, the inputs), `EndEdicts`
with the premine's edict, `Assign` (entries, names, what is left), `StoreOutput`
for each output, `AddBurned`. Inputs and edicts are chosen as they are read, so
that a transaction is any sequence of them. Arithmetic on balances wraps at
`U128Max + 1`, as in a release build: `Cargo.toml` sets no overflow checks.

What a cunestone says is its fields: an etching with a name or none, a premine
and terms, a pointer, and whether it was malformed. Divisibility, spacers,
symbols and timestamps are left out: nothing depends on them.

### 3.4 `InscriptionIndex`, `SatIndex`, `Ordinals`

`index_block` gives each transaction to the inscription updater and then hands
its sats out; both are one action here, `IndexTransaction`, as nothing runs
between them. `BeginBlock` makes the `InscriptionUpdater` and puts the subsidy
in the queue of the coinbase, `IndexCoinbase` ends the block (the code indexes
the coinbase last), `Commit` flushes both caches.

| State | Code |
|---|---|
| `unspent`, `next_txid`, `claimable` | the chain: the unspent outputs with their values, what the coinbase may claim (external) |
| `coinbase_inputs`, `range_cache`, `outpoint_to_sat_ranges`, `sat_to_satpoint`, `lost_sats` | the sat tables of `updater.rs` and the cache between commits |
| `value_cache`, `outpoint_to_value`, `address_to_outpoint`, `transaction_id_to_transaction` | the values of outputs, in the cache or the table, and what depends on `--index-transactions` |
| `satpoint_to_id`, `id_to_satpoint`, `number_to_id`, `id_to_entry`, `sat_to_inscription_id` | the tables of inscriptions |
| `partial_txid_to_txids`, `txid_to_tx`, `id_to_txids` | inscriptions spread over a chain of transactions |
| `flotsam`, `reward`, `next_number`, `operations` | the fields of `InscriptionUpdater` |

The chain brings one transaction at a time, with any inputs it may spend, so that a
block is any list of transactions in which each spends earlier outputs. Transactions are
numbered in the order they are indexed. `Parse` is `InscriptionParser::parse`
on what it looks at: a script begins with the protocol's name or not, says how
many pieces there are, and brings pieces with numbers. Redb's transactions make a crash go
back to the last commit, which is a state of the model; it has no action of its own.

The flotsam of a transaction is a set, and `SortByOffset` lists it as the code's stable sort does:
`Ahead` says that of two at one offset the one of the earlier transaction comes first; no transaction has two at
one offset as long as it spends some value. `Located` is `update_inscription_location` on a record
of the tables it writes, `TablesAfter` what they are after a list of flotsam went to places `To`.

Left out: the content of an inscription, the fee, height and time of an entry,
statistics. All outputs have one address. The script of a coinbase begins with its
height and is never an inscription; the genesis coinbase cannot be spent. An input whose
value is in no table has the chain's value: that the fetcher answers in the
right order is the business of `ValueFetcher`.

`SatIndex` keeps ranges as the code does, as a list of half-open intervals that is cut at
output boundaries and passed through `SatRange::store` and `load` (`Stored`): the size is cut to
its 37 bits, and the bits of a start beyond the 51st are ORed into it (`OrBits`). A range that was stored
may thus have fewer sats than its output, and what spends the output finds too few (`Enough` is
FALSE): `index_block` fails with "insufficient inputs for transaction outputs". The action is `Stop`; the
write transaction is dropped, the same block comes again and fails again, and `stopped` stays.
`Ordinals` has the arithmetic and the epochs, a table that a run gives. `SatFlow`
is ordinal theory with no ranges: each sat is at a place with an offset, a transaction
lines up its inputs over its outputs. `SatsFlow` says that the tables implement it, which they do not (section 6).

### 3.5 `ValueFetcher`

Two threads and two channels. `index_block` (`SendOutpoint`) sends every outpoint that
is in neither the cache, the table nor the block itself, and then indexes the inputs
(`IndexInput`); when a value is missing it takes the next one out of the channel
back. The task (`Recv`, `Collect`, `GetTransactions`, `SendValue`) collects what is
there into a batch, asks for the batch in parallel chunks, sorts each answer by id
and sends the values. Nothing but order ties a value to its input, so an output
is its own value in the model and `EveryInputGetsItsValue` compares the two.

| State | Code |
|---|---|
| `chain` | the blocks of the node (external) |
| `stored`, `outpoint_to_value`, `value_cache` | `OUTPOINT_TO_VALUE` as committed, as the open transaction sees it, and the cache of the batch |
| `height`, `uncommitted` | `Updater.height` and the blocks of the open transaction |
| `pc`, `at`, `input_values` | where the indexing thread is |
| `outpoints`, `values` | the two channels |
| `fetcher`, `batch`, `replies` | the task: the outpoints collected, the values still to send |

A failed request ends the task; the channels close, the indexing thread gets an
error where it next uses one (`SendFails`, `ReceiveFails`), and `Index::update` starts
again with new channels and a new task.

### 3.6 `TransactionBuilder` and `WalletCommands`

Each method of the builder is an action (`SelectOutgoing`, `AlignOutgoing`,
`PadAlignmentOutput`, `AddValue`, `StripValue`, `DeductFee`, `Build`). An `Err` is a
phase `rejected`, an assertion that fails the phase `panicked`, and `Build`
evaluates every assertion of `build`. Amounts are sats, sizes are the code's own
numbers, a fee rate is counted in tenths of a sat, and a fee is rounded to the nearest sat. `inscribe` has
two rates, one for the reveal and one for the commit.

`WalletCommands` has the wallet's outputs (`coin`, with the offsets of
inscriptions and a flag for cunes), what the node knows (`confirmed`, `spent`,
`locked`, `imported`, `sent`), what the index has (`indexed`), and one command at a time:
`StartCommand` (the update of the index), `ListUnspent` (the node's list, narrowed to what the index
knows), `ChooseSend` or `ChooseInscribe`, the builder, then `SendTransaction`, or
`BuildReveal`, `BackupRecoveryKey`, `SendCommit`, `SendReveal`; `LockUnspent`
and `Fund` for the payments that the node funds. `Mine` brings another output to the wallet at any moment, and
`RpcFails` ends a command at any call.

The outputs of a wallet are taproot, as the code assumes
(`transaction_builder.rs:417-420`); a reveal is a size.

### 3.7 `IndexQueries`, `ServerHandlers` and `ServerPages`

`IndexQueries` has the queries as operators on the tables of one snapshot.
`ServerHandlers` takes one request at a time through its handler, one query a
step, while `UpdateIndex` moves the committed snapshot: `Commit` some blocks, `RestoreSavepoint`,
`NodeReorganises`. The tables after each block of each branch are a constant `Db`, which a run
gives. `request` holds the locals of the handler (what it has still to visit,
what it noted, its answer) and `since`, what happened after it began.
`ServerPages` adds the handlers that answer in few queries: the home page, feed and lists, search,
transactions, inputs, previews, hidden inscriptions, the validation of owners. Every
handler that reads the index, but for the status page, is in one of the two; `PagesSpec` runs them all.

### 3.8 The formats: `Cunestones`, `CuneNames`, `Notation`, `InscriptionScripts`, `StorageKeys`

Pure operators, one for each function that reads or writes. A byte, a letter or the code of
a character is a number and a text the sequence of them; the widths of integers
(`Limits`), the size of the alphabet and the lengths of hashes are constants, so that a
run reaches every limit with small ones. An Option is a set of at most one value.

| Module | Code |
|---|---|
| `Cunestones` | `decipher` down to instructions, payload, varints, fields by tag, flags, edicts, and `encipher` up to pushes |
| `CuneNames` | the number of a name and its letters, `minimum_at_height`, reserved names, spacers |
| `Notation` | satpoints, ids, decimals, names and numbers of sats as text; `Representation`, `Object`, `Outgoing` and the queries of URLs, which choose what a text is; amounts of a cune and of CRC20 with their decimal arithmetic; the ranges that `Index::list` cuts out of a row (`ListedRanges`), and the sats of a file found in them; what `traits`, `subsidy` and `list` print |
| `InscriptionScripts` | pushes of a script, `InscriptionParser` over the inputs of a chain of transactions, the script of a reveal, media types |
| `StorageKeys` | bytes of ids, places, ranges, etchings and symbols, the composite keys of CRC20, and the scans over ranges of keys |

In `MCEncodings` someone writes a note (`Write...`) and reads it (`ReadNote`), and between notes
rows are filed in and dropped from the tables (`File...`, `Drop...`), which are compared with
the set of rows they stand for.

### 3.9 `Startup`

A command has its options, which say on what chain it is, at which port and with which cookie it calls the
node, which wallet and which index file it uses (`ChainOf`, `RpcUrl`, `CookieFile`, `IndexPath`). The default URL ends in the
wallet's name alone, one given with `--rpc-url` in `wallet/` and the name (`path`).
`files` are the index files, `wallets` and `loaded` those of each node, `up` the nodes that run, `run` the
commands. The actions are the calls of a command in their order: `Open` (creates the file) and `Build`
(the transaction that writes schema and flags), `IndexBlock`; `Connect`, `LoadWallet`, `WalletIsLoaded`,
`ListDescriptors`; `CreateWallet`, `ImportReceive`, `ImportChange`; `BackupRecoveryKey` for what
`inscribe` adds to a wallet. `Start`, `Stop`, `NodeStarts` and `NodeStops` interleave with all of them: a
command can be killed between any two calls, and a node forgets what it had loaded.

## 4. Runs

| Run | Checks | Shows |
|---|---|---|
| `reorg_safety` | `SavepointHistory`, `FullWindowCoversReorg`, `ChainLinkedWhenQuiet`, `DatabaseIsRevertibleLog` | savepoints stay a history of the index; once the window is full, the oldest lies below every fork that `detect_reorg` calls recoverable; only a reorganisation during an update can splice two branches |
| `reorg_recovery` | `CatchesUp`, `ShutdownCompletes` | liveness, when the savepoints cover the node's reorganisations |
| `reorg_splice` (violation) | `ChainLinked` | `detect_reorg` compares with committed blocks only: blocks of two branches can enter one batch |
| `crc20_safety` | `HoldersAreOwners`, `ReservationsAreLive`, `FirstMovePays`, `Conserved`, `LedgerIsTokenNotes` | the ledger's tables agree; tokens are conserved, in total and between what is reserved and what is logged |
| `cune_safety` | `NamesAreUnique`, `Conserved`, `MintsFollowTerms` | cunes are conserved at every step of a transaction, a name is given once, mints stay within cap, window and limit |
| `inscription_safety` | `TablesAgree`, `InscriptionsAreOnUnspent`, `ChainsAreDisjoint`, `ValuesAgree`, `OperationsArePaths`, `OutputsHaveRanges`, `MovesOnlyWithItsCoin` | over fees, commits, losses and chains of pieces, as far as the blocks are indexed: the tables agree with each other and with the chain, whatever a stored range loses |
| `sat_flow` (violation) | `SatsFlow` | the range of a coinbase comes back from its row as a part of itself: sats are in no output, where ordinal theory has each in one |
| `value_fetcher` | `EveryInputGetsItsValue`, `EveryBlockIsIndexed` | each input gets the value of the output it spends, whatever the order of answers and the block that fails; every block is indexed in the end |
| `wallet_safety` | `BuildsToASat`, `UnmentionedAssetsStay`, `CommitIsRecoverable`, `RevealKeepsPostage` | what the builder brings to `build` meets the assertions but for a sat of the recipient's value and the padding of an output before it; no inscription or cune that the user did not name is spent by a transaction the wallet builds, the value of a commit stays within reach of the user, the reveal's output keeps the postage |
| `server_requests` | `SpendableUtxosHoldNoAssets`, `RequestsFailOnlyAcrossUpdates`, `QuietAnswersAreExact` | what commits between the queries of one request can and cannot do to it |
| `encodings` | `CunestonesReadBack`, `NamesOpenInOrder`, `TextsReadBack`, `WalksFindSats`, `InscriptionsReadBack`, `TablesReadBack` | what the program writes it reads back, but for terms and turbo of an etching; ranges of sats as far as their bytes can say them; walks over ranges find the sats in them, and find none with the ranges of `Index::list`; scans over keys find the rows meant |
| `startup` | `WalletHasOneSeed`, `BlocksOfAnIndexAgree` | whatever commands ran beside each other or broke off, the check of a wallet lets only one of one seed through; the blocks of an index were indexed with its own flags and are of one chain |

### Bounds

*Reorg.* A batch of 3 blocks, a channel of 1, intervals of 2 and chains of up to
7 blocks, two reorganisations and one fault. In the code these are 1000, 32 and
10: what matters is that a batch spans several savepoint heights, that the
channel is shorter than a batch, that the chain is longer than the deepest
reorganisation called recoverable, and that a second reorganisation can hit an
index that has just been rolled back. The theorems hold for every value.

*CRC20.* One tick, two scripts, four inscriptions, a supply and a largest amount
of 2, two moves per transaction: enough for two reservations of one balance, a
transaction that moves both, and one that inscribes a transfer while another is
moved. Scripts and inscriptions are symmetric. Balances of different ticks never meet in the code.

*Cunes.* Two blocks, of two transactions and of one, with two edicts each
besides the premine; a u128 of three values, so that sums wrap; 16-bit indices
cut to one value, so that the second transaction of a block etches nothing;
terms with a cap and terms with a window; a name too short for its height, a
valid one and a reserved one.

*Inscriptions.* Four blocks, six transactions of which two spend, with one or two inputs
and outputs that may be worth nothing; subsidies of 3, 3, 2 and 2, so that an epoch
ends; a stored range of one sat at most, and a start below 8, which sats pass at the fourth block: as in the code, every
subsidy is larger than the one and the chain soon passes the other; coinbases that claim less than they may; inscriptions of one and of two
pieces; commits at two of the heights, or none; an index of sats, of transactions, or of neither. Inscriptions are indexed from height 2, so that
outputs below it have no value in the table. That is enough for an inscription that is
paid as a fee, one that is lost, two that reach one coinbase, one made in a
block and moved in it, and an output spent before and after its flush. Transactions that spend outputs of
no value only are left out (`Valueless` is FALSE): section 6 says what they do.

*Value fetcher.* Channels of one outpoint where the code has 20,000, batches of three, two
parallel requests, two blocks to a commit, blocks of up to three inputs that spend
three old outputs or outputs of the blocks themselves, one failed request. Three inputs is the
most the pipeline can take without both threads waiting for each other: one more and TLC
finds the deadlock. In the code that bound is 40,001, and a block of a megabyte holds about 24,000 inputs.

*Wallet.* Three outputs, the third of which may arrive at any moment; seven kinds of outputs with
values on either side of the dust limits, of the fee of one or two inputs and of
the two postages; rates of 1 and 1.4 sat per vbyte, chosen for the commit and the reveal apart, the second of which rounds parts of a
fee down and the whole up; recipients with a legacy, a segwit or a taproot script. Outputs of the wallet are found in the order of their outpoints, as in the code.

*Server.* Two branches of up to four blocks that share the first, nine outputs
of two addresses, four inscriptions of which one is lost, two cunes, one token. Every handler
appears with the arguments that reach each of its branches; pages hold two items.
One request is served at a time: requests share nothing.

*Encodings.* A u128 of 65,535, a u64 of 4,095, hashes of three bytes, 26 letters with names of up to three
at first: what is compared is always the same function of the same constant, and each limit is
reached from both sides. Etchings have the turbo flag or not; ranges of sats fit the bits of a row or go beyond them in
start or in size; an output has none to three ranges. Pushes have at most 255 bytes, as longer ones are not read (section 6).

*Startup.* Three commands, of which any two can meet at one wallet or index file while the third broke off
before; a node of the mainnet and one of the regtest, of two blocks each, one stop of a node.
A URL given with `--rpc-url` names the wallet given with `--wallet`.

`CHECK_DEADLOCK FALSE` stands where the system may stop: the index thread ends after a
shutdown or a panic, and the cune ledger waits when there is no further block; the chain of the
inscription index ends at its bound, and so do the outputs of the wallet; each command of `startup` is given once.

### Fairness

Only liveness runs use it: weak fairness of the index thread and of `Fetch`.
Both are threads of the operating system that are never blocked for good by
each other: the channel's two ends are the only thing they share, and each
waits only for the other. `ValueFetcher` has weak fairness of its two threads: the node answers or
refuses each request, and either is a step of the task. The node's blocks, faults, shutdown requests and the calls of a user
have none.

## 5. Proofs

`ReorgIndexProofs` proves, for every value of the constants (`BatchSize`,
`MaxSavepoints` and `Interval` at least one):

* `TypeCorrect`. The invariant is strengthened by what each `pc` knows: in which
  phases a batch is open, that the commit of a batch is never empty, and that
  the trim leaves room for one savepoint.
* `SavepointsAreHistory`. `SavepointHistory` is inductive with
  `SavepointRoom`: savepoints are prefixes of each other and of the committed
  chain, because a commit only appends and a rollback removes the savepoints
  newer than the one it restores.
* `FullWindowRecovers`. Needs `SavepointSpacing`: successive savepoints are at most
  one interval apart once they are counted from the newest, so that
  `MaxSavepoints` of them reach at least as deep as `MaxDepth`.
* `ImplementsRevertibleLog`. Every step of the updater is a step of
  `RevertibleLog` or a stutter.
* `QuietIndexesAreLinked`: `ChainLinkedWhenQuiet`, of the specification `RacedSpec` of
  `MCReorgRace`. The invariant `Quiet` says why one comparison to a batch is enough while
  the node stays on its branch: what the open transaction and the channel hold are
  consecutive blocks of the node's chain (`HoldsBlocksOfNode`), the first of the batch was
  compared with the committed tip (`BatchExtends`), and between updates nothing is held. A
  rollback goes back to a prefix, by `SavepointsAreHistory`.

`Crc20Proofs` proves, for any sets of ticks, scripts, ids and any amounts:

* `Crc20TypeCorrect`, `HoldersCorrect`, `ReservationsStayLive`,
  `FirstMoveAlwaysPays`, `ImplementsTokenNotes`. The inductive invariant is
  `TypeOK`, the facts on pending messages (`MessagesOK`), the agreement of the
  two tables of reservations (`LogOK`), caps (`CapsOK`), holders, and
  `BalancesOK`: there are disjoint intervals inside the transferable balance, one for
  each reservation. A new reservation takes the interval above, a spent one is
  closed up by shifting those above it. The packing says that each reservation, and any set
  of them, can still be paid, which is what `FirstMoveAlwaysPays` needs.
* `TokensAreConserved`: `Conserved`, the exact sums. A handler changes at most two
  balances and one reservation, and `SumTheorems` says what that does to a sum; that the two
  scripts of a transfer may be one is a case of its own. It needs that there are finitely many
  scripts (`ScriptAssumption`), as a sum over all of them must mean something; a database has finitely many.

`SumTheorems` has the facts about `SumFunctionOnSet` that these sums need: a sum of integers is an
integer, it is the sum over a part and over the rest, and a value that changes changes the sum by as
much. The fold of the community modules chooses a recursive function; that there is one is proved by
induction over finite sets, and this in turn (`FiniteSetInduction`, `LeastNatural`) from the least
cardinality of a counterexample. A lemma about all sets of sets `T` takes the place of one
about all predicates, which the provers could not instantiate.

`CuneProofs` proves, for any names, terms, amounts and transactions:

* `CuneTypeCorrect`, `NamesAreGivenOnce`, `MintsStayWithinTerms`. The inductive
  invariant adds three facts to the two properties. `FreshOK`: the ids in the
  tables are those of earlier transactions, so that the id of the transaction
  under way is new until its entry is stored. `IssueOK`: the pending allocation
  has that id and a cune nobody has, which must survive all the edicts between
  the lookup of the name and the insertion. `MintsOK`: what the claims of this
  transaction took is within the limit, so that one mint of at most the limit
  is added whatever the number of claims.

* `CunesAreConserved`: `Conserved`, modulo 2^128 as the code adds. The invariant has
  `Balanced`: the difference between what is held and what was issued is a multiple of
  `U128Max + 1`, for each id, from the lookup of the inputs to the last output. There is one lemma
  for each action and the amount it moves (`...Balances`): from an input to the pile, from the pile or the issue
  to an output, from the pile to the burned. What `OutpointsOK` adds is that the outpoints of the transaction under way
  hold nothing yet, so that storing them overwrites no balance.

`InscriptionProofs` proves, for any chain, epochs, scripts and commits:

* `ChainsStayDisjoint`. The invariant adds that the members of a chain are
  transactions the node has brought, so that the one under way is in none; a
  chain that is continued leaves the table under its old key in the same step.
* `ValuesAlwaysAgree`. The invariant adds that outputs are those of earlier
  transactions, so that new rows meet no old ones; that there are no values below
  the first height of inscriptions; and that an index of transactions has the
  transaction of every value, so that the row of its address is found.
* `TablesAlwaysAgree`, `InscriptionsStayOnUnspent`, `InscriptionsMoveWithTheirCoin`: `TablesAgree`,
  `InscriptionsAreOnUnspent` and `MovesOnlyWithItsCoin`. The first is not inductive without the second: the row
  that a landing inscription writes is a new one only because everything else is on an output that is unspent,
  or among sats lost before. The invariant `PlacesInv` has both and what is known of flotsam (`FlotsamOK`): two
  are at different offsets (`Apart`), an old one left an output that is spent and is the only one of its id. The
  step of a transaction is proved in four parts: its flotsam is apart, as the values of inputs are laid end to end
  (`FlotsamOfSpend`, with the lemmas on `StartOf`); those that land get different satpoints
  (`OutputAtInjective`); a sorted list of flotsam moves each of the set once (`SortLists`), and moving one after the
  other moves the set (`LocatedMoves`, `TablesAfterMoves`: `Moved` says what is true of the tables after some
  are `done`); what floats is above what the fees of the block came to (`FlotsamGrows`). The hypothesis
  `~Valueless` is needed, as a transaction that spends no value breaks the first two (section 6). Nothing is
  assumed of the limits of a stored range. What they break is excepted in the properties (`Uncounted`): with
  `--index-sats` the satpoint of an inscription that is lost counts the sats of the ranges that are left over, fewer than
  the chain lost, so that two lost ones can get one satpoint. No other inscription's place depends on the ranges.
* `OperationsStayPaths`: `OperationsArePaths`, under the same hypothesis and with the same invariant. What
  was told of an inscription on its way to the coinbase is of earlier transactions than the one it left in (`ToldOK`), so
  that the operation the coinbase files under that transaction comes last on the inscription's path (`PathsGrow`).
* `OutputsAlwaysHaveRanges`: `OutputsHaveRanges`, with no hypothesis. Outputs are those of earlier transactions, so that
  a new row meets no old one, and none is of the null outpoint, whose row stays (`RowsInv`). A transaction
  takes the rows of its inputs away where they are, in the cache or in the table, and adds its own to the cache (`RowsMove`);
  a commit moves the cache into the table.

That sats flow in order, that the rows of rare sats are their places and that an inscription keeps its sat are not
among the theorems: with the widths of `SatRange` they are false (`sat_flow`).

`ValueFetcherProofs` proves, for any sizes of channels, batches, commits and blocks:

* `FetcherTypeCorrect`, `ValuesReachTheirInputs`, `NoBlockLeavesValues`,
  `ChannelsDoNotDeadlock`. The invariant `PipelineInv` sees the two channels, the
  batch and the replies as one pipeline: what is in it, front to back, are the
  missing inputs of this block in order, none skipped between the input under way and the
  last one sent. That a fetched value meets its input follows; so does that the
  pipeline is empty after a block. The last theorem assumes
  `MaxInputs <= 2 * ChannelBufferSize + 1`: both threads can wait on each other only with
  both channels full and one more outpoint in the task.

`WalletProofs` proves, for any wallet, coins, fee rates, scripts and sizes of the reveal:

* `WalletTypeCorrect`, `OnlyNamedAssetsMove`, `CommitsAreRecoverable`,
  `RevealPaysPostage`. The invariant has a part for each thing the methods of the
  builder hand on: `ShapeInv`, how many inputs, outputs and change addresses
  each phase finds, without which a method could take a change address that is
  not there; `InputsInv`, that an input is the outgoing output or was cardinal when
  chosen, and that every inscription on the outgoing output is the outgoing sat;
  `ArgsInv`, that the builder was told of every inscription and all cunes among the
  outputs it may choose from. The last needs that the listed outputs are in the index,
  which is what `get_unspent_outputs` checks: the node may know more than the index
  when a block arrives between the two. `OrderInv` has the order of a command's calls.
* `CommandsBuildToASat`: `BuildsToASat`, with no hypothesis on rates or scripts. `AssertionsInv` says, method by method, how
  far the transaction is from what `build` asserts: which outputs there are (`Whole`: an alignment output, if there is an
  offset, and the recipient's; `Stripped`: a change after them), that inputs and outputs balance until the fee is
  taken off, that after `add_value` the last output can pay the minimum and the fee but for one sat, and that what
  `strip_value` leaves with the recipient is not worth a change (`KeepsChange`). The sat is that of `FeeAdds`: two sizes whose
  fees are rounded apart differ by one sat at most from the fee of both. That the command never panics, which the code
  means, is false by that sat and by the padding (section 6).

`StartupProofs` proves, for any commands, options, nodes and files:

* `CheckedWalletsHaveOneSeed`: `WalletHasOneSeed`. The invariant follows a wallet from
  `createwallet` to the check. `TypeOK` says what a wallet can be: empty, of the node itself, or with
  descriptors of one seed and recovery keys. `ImportsOfOneSeed` keeps it so: at most one
  command is between the creation of a wallet and its second import, because the node creates a name once,
  and until then the wallet has descriptors of that command's seed. Other commands may check it meanwhile.
* `IndexesAreOfOneKind`: `BlocksOfAnIndexAgree`. A file is held by one command at a time, which has
  the flags of the file (`IndexesAreHeldOnce`); and a command that uses the default URL has read a
  cookie (`CookiesAreGiven`), which lies in the directory of a chain and so tells on which
  chain the node is. A block of another chain is not appended, as it is taken for a reorganisation.
  It needs that a cookie is told from none (`NoneAssumption`).

Only model-checked: liveness (`CatchesUp`, `ShutdownCompletes`, `EveryBlockIsIndexed`), as the provers at hand have no
rules for fairness and ENABLED; the formats, whose operators are RECURSIVE or fold over texts
of any length; and the properties of `server_requests`. The type invariant of each
proved module is a theorem and is in no run.

## 6. Findings

The two violation runs above; `PROJECT.json` quotes what the repository says.

* `reorg_splice`: blocks of two branches can enter one batch.
* `sat_flow`: a stored range has 51 bits of start and 37 of size (`entry.rs:446`); a coinbase of a million coins has 47 bits
  of sats, and sats pass 2^51 at block 23. A range read back is another one, of fewer sats as a rule, and the
  first transaction whose inputs have lost enough of them is refused with "insufficient inputs" (`updater.rs:625`): an
  index with `--index-sats` goes no further (`Stop`).

Disagreements that a property states as they are (each names its lines):

* `BuildsToASat`. At 1.4 sat/vB the fee of 111 vbytes is 155 and that of 58 more is 81, and that of 169 is 237:
  `deduct_fee` can fall a sat below what `add_value` provided for, and the same sat stands at the boundary of
  `strip_value`. And `pad_alignment_output` pads an output of the wallet's own to the dust limit of the recipient
  (`transaction_builder.rs:290`): 294 for p2wpkh, where taproot needs 330. Both end in a failed assertion of `build`, a panic, which
  the code and its tests have for transactions put together by hand. A send to p2wpkh is what `tests/wallet/send.rs` does; it
  panics with 294 to 329 sats before the outgoing one.
* `WalksFindSats`. `list` and `find` cut the rows of ranges into chunks of 24 bytes (`index.rs:1318`, `1356`) where
  a range has 11: an output of one or two ranges lists none, and a longer one panics. The tests of both are `#[ignore]`d; the
  help of `wallet sats` says that it finds the listed sats.
* `CunestonesReadBack`. `encipher` sets `Flag::Etching` twice (`cunestone.rs:183-187`) where `Flag::Terms` is meant, and never
  `Flag::Turbo`: what it writes has neither. A test (`cunes.rs:4324`) enciphers a limit and expects it in the index.
* `TextsReadBack`. `Pile` always writes a fixed space and a symbol (`pile.rs:29`), where its tests (40-139) expect none.
* `UnmentionedAssetsStay`. `wallet send` of an amount locks nothing (`send.rs:100`), and the node may pay with an inscribed
  output; `send_btc_locks_inscriptions` (`tests/wallet/send.rs:245`) expects a lock.

Observations that are not runs:

* `detect_unrecoverable_reorg` (`server.rs:3720`) mines 21 blocks, replaces the last
  15 and expects the status "unrecoverable reorg detected". With the constants
  of `reorg.rs:22` the search reaches 40 blocks and more, and the savepoint of the
  genesis block is there: the code recovers.
* An index created with `--index-cunes` and without `--index-transactions` runs
  CRC20 messages (`index.rs:331`) but cannot look a script up
  (`crc20_updater.rs:677`): the first CRC20 operation is an error of
  `index_block`, at every retry.
* `handle_reorg` unwraps the minimum of the savepoints (`reorg.rs:62`). Savepoints are taken at
  multiples of 10 within 25 blocks of the tip, and the initial sync commits every 1000
  blocks: there may be none, and a recoverable reorg then panics the index thread
  (`HandleReorg` goes to `panicked`).
* When the oldest savepoint lies above the fork, restoring it leaves the index on the
  abandoned branch; `Index::update` (`index.rs:505-527`) detects the same reorg again, for ever,
  and logs each time "successfully rolled back". The thread looks at `SHUTTING_DOWN` between updates and
  blocks only, so shutdown (`lib.rs:188`) waits for ever. `reorg_recovery` leaves such forks out.
* `ord supply` (`supply.rs:14`) looks for the first height whose subsidy is 0; the last epoch pays 10,000
  coins for ever (`epoch.rs:27`), so the loop does not end, while `tests/supply.rs:5` expects its output.
* `index.rs:331` sets `index_crc20` from `options.index_cunes()`: `--index-crc20` alone tracks no token.
* The loop over edicts skips `output >= tx.output.len()` (`cune_updater.rs:203`), so that the branch
  `output == tx.output.len()` at line 239, which divides an amount among the outputs, is never taken;
  the tests `split` of `cunes.rs` (2759, 3079) expect it.
* With `--index-sats` the satpoint of a lost inscription counts the sats of ranges that were cut, and two lost
  inscriptions can get one satpoint.
* A transaction that spends outputs of no value only can complete an inscription: it is on no sat, and
  floats to the coinbase at the offset where the fees so far end. Two in one block get one satpoint, and
  the second insertion (`inscription_updater.rs:440`) overwrites the row of the first.
* Fetcher: an answer with fewer results than were asked would shift the values of all inputs after
  it; nothing compares the lengths (`fetcher.rs`).
* `etch` locks every inscribed output of the index, foreign ones too, which a node refuses; it does not
  ask for the unspent outputs, so that an inscription that arrives after the update is not locked.
  `send` by inscription id, and `inscribe --satpoint`, do not look for cunes on the output they spend.
* Server: pages after the first of `/utxos/balance` are empty (the start index is compared with the
  outputs of one page); the first page of `/inscriptions/balance` shows one output less than the
  limit, and that output is on no page. `limit=0` wraps. An outpoint row is written only for
  addresses of exactly 34 bytes (`inscription_updater.rs:324-333`).
* Server, when a block is committed meanwhile: `crc20_tick_info` unwraps a token it looked for before the block
  that deploys it, and panics; `blocktime` answers an internal error; an output of
  `/inscriptions/balance` may be paired with an offset of a later block. With a node ahead of
  the index, `get_block_by_height` answers the node's block at an indexed height.
* A transaction that spends an output of a partial inscription with its first
  input and brings a whole new one loses it: the chain is parsed as one and gives
  `None` (`inscription_updater.rs:212`, "todo: clean up db").
* `terms.limit` absent means a limit of 0 (`entry.rs:118`), so that such a cune is
  never minted.
* An edict of id 0 and amount 0 allocates all of `u128::MAX` whatever the premine
  says; the overflow check of `cunestone.rs:143` looks at the declared fields only.
* Without `--index-transactions` the outputs listed for an address stay listed when they are spent
  (`inscription_updater.rs:153` needs the transaction of the output); with it `ValuesAgree` holds.
* `OP_PUSHDATA2` and `OP_PUSHDATA4` take their opcode for a byte of the length (`inscription.rs`), so that a push of
  more than 255 bytes is not read. The reveal the wallet writes puts the inscription into a
  witness, and the parser reads input scripts only.
* `DecimalText` and `DecimalOf` (`decimal.rs`): "1.10" reads as 2.0, because trailing zeros are cut from the scale and not from the digits.
* A name longer than that of `u128::MAX` wraps. `tag.rs:10` says of `Deadline` that it "will be
  ignored"; nothing takes the field, its tag is even, and the cunestone becomes a cenotaph.
* A txid that begins with "bc1" or "tb1" is taken for an address (`representation.rs:20`); no
  address of the chain the program is for is recognised, and a sat given as an object is shown as a number.
* The holders of a tick that have no address are left out by `get_crc20_token_holder`; a tick whose lower case
  has more bytes does not come back from its key; `inscription_count` leaves out the last index
  of a transaction; offsets are stored in little-endian order, which is not that of numbers.
* `regtest` is "Equivalent to `--chain regtest`" (`options.rs`), but `Index` keeps `chain_argument` (`index.rs:377`). The
  test of `options.rs:295` expects the URL "127.0.0.1:22555/wallet/ord"; the code has no "wallet/" in it. `--first-inscription-height`
  is not stored with the index, so that a later command may continue with another.
* A command that ends between the creation of an index file and its first transaction leaves a file that no command can open. One
  that ends between `createwallet` and the second import leaves a wallet that every command refuses
  and whose name is taken; after the second, one that is used and whose mnemonic was never
  shown. `success: false` in the answer to `importdescriptors` is not looked at.
* Content that the config hides is served through an inscription that delegates to it. A block's page shows
  for each transaction the value of its last input only.

## 7. Not modelled

The redb implementation (its transactions and savepoints are taken as atomic: a commit happens or does
not), the templates and the HTML, static files, redirects, the status page and TLS of the server, the
parsing of JSON and of the command line, passwords, the subcommands that print the answer of one query
(`find`, `epochs`, `supply`, `decode`, `preview`, ...), and `test-bitcoincore-rpc`. Of the queries:
statistics, `info` and the exports. Of the sats: degrees (`degree.rs` is in no module of the crate),
percentiles and names. Of `ReorgIndex`: the height limit, and the content of a block, whose tables are those
of the other modules. The code files that are mostly tests (`cunes.rs`, most of
`server.rs` and `index.rs`) have no state to model beyond what is above.

## 8. Running

    tlc -workers 2 -config ReorgIndex_safety.cfg MCReorgRace
    tlapm ReorgIndexProofs.tla

and so on, with the module and configuration of each run in `PROJECT.json`.
