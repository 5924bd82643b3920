--------------------------- MODULE ServerHandlers ---------------------------
(***************************************************************************)
(* The request handlers of the server (server.rs) beside the thread that   *)
(* updates the index.  A handler has no transaction of its own: each query *)
(* of Index opens one and sees the tables as last committed, so that a     *)
(* request reads from several versions of the index when blocks are        *)
(* committed, or rolled back, between its queries.  Every query is a step. *)
(*                                                                         *)
(* Db[b][h] holds the tables after h blocks of branch b; tip says which of *)
(* them is committed, node which branch the node is on.  The request       *)
(* served is a record: its handler and arguments, the place it is at (pc), *)
(* the outpoints, scripts or heights it has yet to visit (todo), the       *)
(* inscriptions of the one it is at (ids), the inscription it looks up     *)
(* (id) and where it goes on after that (then), its element_counter        *)
(* (count), what it read before (memo), its answer so far and its result.  *)
(* base is the tip it began with, and since what happened meanwhile.       *)
(***************************************************************************)
EXTENDS IndexQueries

CONSTANTS
  Db,            \* the tables after each block of each branch
  CommonHeight,  \* the height of the last block all branches share
  OwnerOf,       \* the address of each outpoint
  ValueOf,       \* its value
  Content,       \* of each inscription: [tick, op] of its CRC20, or NotCrc20
  Delegate,      \* the delegate of an inscription, if it has one
  BlockOf,       \* the hash of the block of each branch and height
  InBlock,       \* the inscriptions made by the transactions of a block
  Inputs,        \* the inputs of each transaction of a block
  Hidden,        \* the inscriptions the config hides
  ItemsPerPage,  \* items_per_page of get_cunes_by_address
  Requests       \* the requests served: [handler, args]

VARIABLES tip, node, request
vars == <<tip, node, request>>

NotCrc20 == [tick |-> "", op |-> ""]
Idle == [handler |-> "idle", pc |-> "idle", result |-> "none"]
NoMemo == [number |-> {}, satpoint |-> {}, checks |-> {}, token |-> {},
           utxos |-> {}, block |-> "", values |-> << >>]

db == Db[tip.branch][tip.height]

At(handlers, pc) ==
  request # Idle /\ request.handler \in handlers /\ request.pc = pc

args == request.args

Step(r) == request' = r /\ UNCHANGED <<tip, node>>
GoTo(pc) == Step([request EXCEPT !.pc = pc])
Reply(result) == Step([request EXCEPT !.pc = "done", !.result = result])
Ok == Reply("ok")
Give(item) == Append(request.answer, item)
memo == request.memo
Note(m, pc) == Step([request EXCEPT !.memo = m, !.pc = pc])

(* ok_or_not_found: the error notes whether the node refused.              *)
NotFound == Reply("not_found")
Refused ==
  Step([request EXCEPT !.pc = "done", !.result = "not_found",
                       !.since = @ \cup {"refused"}])

(* The output of an outpoint, from its transaction: found, or a 404.       *)
WithOutput(o, found) ==
  \E f \in GetTransaction(db, o) : IF f THEN found ELSE Refused

Here == Head(request.todo)
Visit(outpoints) == Step([request EXCEPT !.todo = outpoints, !.pc = "next"])
Drop == [request EXCEPT !.todo = Tail(@), !.pc = "next"]
DropItem == [request EXCEPT !.ids = Tail(@), !.pc = "items"]

-----------------------------------------------------------------------------
(* What happens beside the requests.                                       *)
Happened(what) ==
  request' = IF request = Idle THEN Idle ELSE [request EXCEPT !.since = @ \cup {what}]

(* The updater commits a batch of blocks; all of them become visible.      *)
Commit(blocks) ==
  /\ tip.branch = node
  /\ tip.height + blocks \in DOMAIN Db[tip.branch]
  /\ tip' = [tip EXCEPT !.height = @ + blocks]
  /\ Happened("commit")
  /\ UNCHANGED node

(* The node leaves for another branch; the index follows when it restores  *)
(* a savepoint at or below the last block they share.                      *)
NodeReorganises(branch) ==
  /\ branch # node
  /\ node' = branch
  /\ Happened("reorg")
  /\ UNCHANGED tip

RestoreSavepoint(height) ==
  /\ tip.branch # node
  /\ height \in 1 .. CommonHeight
  /\ tip' = [branch |-> node, height |-> height]
  /\ Happened("rollback")
  /\ UNCHANGED node

Accept(r) ==
  /\ request = Idle
  /\ request' = [handler |-> r.handler, args |-> r.args, pc |-> "start",
                 todo |-> << >>, ids |-> << >>, id |-> 0, then |-> "",
                 count |-> 0, memo |-> NoMemo, answer |-> << >>,
                 result |-> "pending", base |-> tip,
                 since |-> IF node = tip.branch THEN {} ELSE {"reorg"}]
  /\ UNCHANGED <<tip, node>>

Respond ==
  /\ request # Idle /\ request.pc = "done"
  /\ request' = Idle
  /\ UNCHANGED <<tip, node>>

-----------------------------------------------------------------------------
(* get_inscription_by_id is two read transactions; block and blocks leave  *)
(* out what it does not find.                                              *)
LookUp(id, then) == [request EXCEPT !.id = id, !.then = then, !.pc = "exists"]

NoInscription ==
  IF request.handler \in {"block", "blocks"}
  THEN Step(DropItem)
  ELSE NotFound

InscriptionExists ==
  /\ request # Idle /\ request.pc = "exists"
  /\ IF Exists(db, request.id) THEN GoTo("body") ELSE NoInscription

InscriptionBody ==
  /\ request # Idle /\ request.pc = "body"
  /\ IF HasBody(db, request.id) THEN GoTo(request.then) ELSE NoInscription

(* The queries for each inscription of a list, in the handlers that list   *)
(* inscriptions: the inscription, its entry and its satpoint.              *)
Listing == {"inscriptions", "crc20", "craftscriptions", "on_outputs"}

NextInscription ==
  /\ At(Listing, "items")
  /\ Step(IF request.ids = << >> THEN Drop ELSE LookUp(Head(request.ids), "entry"))

Listed(offset) ==
  [output |-> Here, id |-> request.id, number |-> memo.number, offset |-> offset]

InscriptionEntry ==
  /\ At(Listing \ {"on_outputs"}, "entry")
  /\ LET number == GetEntry(db, request.id)
     IN  IF number = {} THEN NotFound
         ELSE Step([request EXCEPT !.memo.number = number, !.pc = "satpoint"])

(* inscriptions_by_outputs does not look for the satpoint.                 *)
EntryOnOutput ==
  /\ At({"on_outputs"}, "entry")
  /\ LET number == GetEntry(db, request.id)
     IN  IF number = {} THEN NotFound
         ELSE Step([DropItem EXCEPT !.answer =
                      Give([output |-> Here, id |-> request.id, number |-> number])])

MissingSatpoint ==
  /\ At({"inscriptions", "crc20", "craftscriptions"}, "satpoint")
  /\ SatpointById(db, request.id) = {}
  /\ NotFound

IsCrc20 == Content[request.id] # NotCrc20

CraftscriptionSatpoint ==
  /\ At({"craftscriptions"}, "satpoint")
  /\ \E satpoint \in SatpointById(db, request.id) :
       Step([DropItem EXCEPT !.answer = Give(Listed(satpoint[2]))])

(* inscriptions_by_address leaves out CRC20 inscriptions and no longer     *)
(* counts them, crc20_by_address all others.                               *)
InscriptionSatpoint ==
  /\ At({"inscriptions"}, "satpoint")
  /\ \E satpoint \in SatpointById(db, request.id) :
       Step(IF IsCrc20
            THEN [DropItem EXCEPT !.count = IF @ = 0 THEN 0 ELSE @ - 1]
            ELSE [DropItem EXCEPT !.answer = Give(Listed(satpoint[2]))])

Crc20Satpoint ==
  /\ At({"crc20"}, "satpoint")
  /\ \E satpoint \in SatpointById(db, request.id) :
       IF IsCrc20 /\ \A t \in args.tick : t = Content[request.id].tick
       THEN Note([memo EXCEPT !.satpoint = {satpoint}], "output")
       ELSE Step(DropItem)

-----------------------------------------------------------------------------
(* Pages of the outputs of an address.                                     *)
VisitAccountOutputs(handler) ==
  At({handler}, "start") /\ Visit(AccountOutputs(db, args.address))

UtxosByAddress == VisitAccountOutputs("utxos")
InscriptionsByAddress == VisitAccountOutputs("inscriptions")
CunesByAddress == VisitAccountOutputs("cunes")
Crc20ByAddress == At({"crc20"}, "start") /\ args.utxos /\ VisitAccountOutputs("crc20")

StartIndex == IF args.page <= 1 THEN 0 ELSE (args.page - 1) * args.limit + 1

(* With a limit of 0 the last index wraps around to usize::MAX (a build    *)
(* with overflow checks panics).                                           *)
OffPage(count) ==
  /\ ~args.all
  /\ \/ count < StartIndex
     \/ StartIndex + args.limit > 0 /\ count > StartIndex + args.limit - 1

TooSmall(o) == args.filter > 0 /\ ValueOf[o] <= args.filter

Exhausted ==
  /\ At({"utxos", "inscriptions", "on_outputs", "outputs", "cunes_on_outputs",
         "tick_info", "blocks"}, "next")
  /\ request.todo = << >>
  /\ Ok

(* A version that takes an output with cunes for one without.              *)
UtxoCunesUnread ==
  /\ At({"utxos"}, "next") /\ request.todo # << >>
  /\ IF OffPage(request.count) THEN Step(Drop) ELSE GoTo("output")

(* get_utxos_by_address: outputs with cunes never show, nor do those with  *)
(* inscriptions, unless show_unsafe asks for them.                         *)
UtxoCunes ==
  /\ At({"utxos"}, "next") /\ request.todo # << >>
  /\ IF BalancesForOutpoint(db, Here) # << >> \/ OffPage(request.count)
     THEN Step(Drop) ELSE GoTo("output")

UtxoOutput ==
  /\ At({"utxos"}, "output")
  /\ WithOutput(Here, IF TooSmall(Here) THEN Step(Drop) ELSE GoTo("inscriptions"))

UtxoInscriptions ==
  /\ At({"utxos"}, "inscriptions")
  /\ Step(IF OnOutput(db, Here) # << >> /\ ~args.unsafe THEN Drop
          ELSE [Drop EXCEPT !.count = @ + 1, !.answer = Give(Here)])

(* get_inscriptions_by_address counts an output before it compares.        *)
OutputInscriptions ==
  /\ At({"inscriptions"}, "next") /\ request.todo # << >>
  /\ LET count == request.count + 1
     IN  Step(IF OnOutput(db, Here) = << >> THEN Drop
              ELSE IF OffPage(count) THEN [Drop EXCEPT !.count = count]
              ELSE [request EXCEPT !.count = count, !.pc = "output",
                                   !.ids = OnOutput(db, Here)])

InscribedOutput ==
  /\ At({"inscriptions"}, "output")
  /\ WithOutput(Here, IF TooSmall(Here) THEN Step([Drop EXCEPT !.count = @ - 1])
                      ELSE GoTo("items"))

(* get_cunes_by_address gathers a row for each cune of each output, with   *)
(* the output unless only the cunes are to be listed.                      *)
OutputCunes ==
  /\ At({"cunes"}, "next") /\ request.todo # << >>
  /\ LET wanted == SelectSeq(BalancesForOutpoint(db, Here),
                             LAMBDA pile : \A c \in args.cune : c = pile[1])
         rows == [i \in DOMAIN wanted |->
                    [cune |-> wanted[i][1], output |-> Here, amount |-> wanted[i][2]]]
         gather == Step([Drop EXCEPT !.answer = @ \o rows])
     IN  IF rows = << >> \/ args.list THEN gather ELSE WithOutput(Here, gather)

RowsOf(rows, cune) == SelectSeq(rows, LAMBDA row : row.cune = cune)

(* The cunes of the rows in the order of their first row.                  *)
CunesOf(rows) ==
  FoldLeft(LAMBDA seen, row : IF row.cune \in ToSet(seen) THEN seen
                              ELSE Append(seen, row.cune), << >>, rows)

Least(a, b) == IF a < b THEN a ELSE b

Skipped == IF args.page = 0 THEN 0 ELSE (args.page - 1) * ItemsPerPage

(* A version that skips the same rows again in each cune.                  *)
PageOfRowsSkippingAll(rows) ==
  LET Fill(page, cune) ==
        LET mine == RowsOf(rows, cune)
            part == SubSeq(mine, Skipped + 1, Least(Len(mine), Skipped + page.room))
        IN  [room |-> page.room - Len(part), shown |-> page.shown \o part]
  IN  FoldLeft(Fill, [room |-> ItemsPerPage, shown |-> << >>], CunesOf(rows)).shown

(* A page takes what is left of each cune after the rows to skip, until it *)
(* is full; the rows of a cune it passes no longer have to be skipped.     *)
PageOfRows(rows) ==
  LET Fill(page, cune) ==
        LET mine == RowsOf(rows, cune)
            part == SubSeq(mine, page.skip + 1,
                           Least(Len(mine), page.skip + page.room))
        IN  IF page.room = 0 THEN page
            ELSE [skip |-> page.skip - Least(Len(mine), page.skip),
                  room |-> page.room - Len(part),
                  shown |-> page.shown \o part]
  IN  FoldLeft(Fill, [skip |-> Skipped, room |-> ItemsPerPage, shown |-> << >>],
               CunesOf(rows)).shown

CunesPage ==
  /\ At({"cunes"}, "next") /\ request.todo = << >>
  /\ LET rows == request.answer
         cunes == CunesOf(rows)
     IN  Step([request EXCEPT !.pc = "done", !.result = "ok",
           !.answer = IF args.all THEN FlattenSeq([i \in DOMAIN cunes |-> RowsOf(rows, cunes[i])])
                      ELSE IF args.list
                      THEN SubSeq(cunes, Skipped + 1, Least(Len(cunes), Skipped + ItemsPerPage))
                      ELSE PageOfRows(rows)])

-----------------------------------------------------------------------------
(* CRC20: the balances of an address, with its inscriptions of each token. *)
Crc20Inscriptions ==
  /\ At({"crc20"}, "next") /\ request.todo # << >>
  /\ Step([request EXCEPT !.ids = OnOutput(db, Here), !.pc = "items"])

Crc20Output ==
  /\ At({"crc20"}, "output")
  /\ LET content == Content[request.id]
         checked == IF content.op = "transfer" THEN {request.id} ELSE {}
         utxo == [id |-> request.id, output |-> Here, tick |-> content.tick]
     IN  WithOutput(Here,
           Step(IF TooSmall(Here) THEN DropItem
                ELSE [DropItem EXCEPT !.memo.utxos = @ \cup {utxo},
                                      !.memo.checks = @ \cup checked]))

(* The transfers among them are valid when they are logged for the address *)
(* at that moment.                                                         *)
Crc20Transferable ==
  /\ At({"crc20"}, "next") /\ request.todo = << >>
  /\ Note([memo EXCEPT !.checks = TransferableById(db, args.address, @)], "balances")

ReadCrc20Balances ==
  /\ \/ At({"crc20"}, "balances")
     \/ At({"crc20"}, "start") /\ ~args.utxos
  /\ Step([request EXCEPT !.todo = SetToSeq(Crc20Balances(db, args.address)),
                          !.pc = "balance"])

(* The token of a balance is unwrapped.                                    *)
Crc20BalanceOf ==
  /\ At({"crc20"}, "balance")
  /\ IF request.todo = << >> THEN Ok
     ELSE LET row == [tick |-> Here.tick, balance |-> Here.balance,
                      utxos |-> {[id |-> u.id, valid |-> u.id \in memo.checks]
                                   : u \in {v \in memo.utxos : v.tick = Here.tick}}]
              next == [request EXCEPT !.todo = Tail(@)]
          IN  IF (\E t \in args.tick : t # Here.tick) \/ Here.balance.overall = 0
              THEN Step(next)
              ELSE IF TokenInfo(db, Here.tick) = {} THEN Reply("panic")
              ELSE Step([next EXCEPT !.answer = Give(row)])

(* crc20_tick_info reads the token before its holders, crc20_tick_holder   *)
(* after them; either unwraps it for each holder that has a balance.       *)
TickInfo ==
  /\ At({"tick_info"}, "start")
  /\ IF args.holders THEN Note([memo EXCEPT !.token = TokenInfo(db, args.tick)], "holders")
     ELSE IF TokenInfo(db, args.tick) # {} THEN Ok ELSE Reply("bad_request")

TickHolders ==
  /\ At({"tick_info"}, "holders") \/ At({"tick_holder"}, "start")
  /\ Step([request EXCEPT !.todo = SetToSeq(TokenHolder(db, args.tick)),
             !.count = Cardinality(TokenHolder(db, args.tick)),
             !.pc = IF request.handler = "tick_info" THEN "next" ELSE "token"])

TickToken ==
  /\ At({"tick_holder"}, "token")
  /\ Note([memo EXCEPT !.token = TokenInfo(db, args.tick)], "next")

HolderBalance ==
  /\ At({"tick_info", "tick_holder", "all_ticks"}, "next") /\ request.todo # << >>
  /\ LET balance == Crc20Balance(db, Here, IF request.handler = "all_ticks"
                                           THEN Head(request.ids) ELSE args.tick)
     IN  IF balance = {} THEN Step(Drop)
         ELSE IF memo.token = {} THEN Reply("panic")
         ELSE \E b \in balance :
                Step([Drop EXCEPT !.answer = Give([script |-> Here, balance |-> b])])

TickHolderAnswer ==
  /\ At({"tick_holder"}, "next") /\ request.todo = << >>
  /\ IF request.count > 0 THEN Ok ELSE Reply("bad_request")

(* crc20_all_tick_info: for each token, as read at first, its holders.     *)
AllTicks ==
  /\ At({"all_ticks"}, "start")
  /\ LET tokens == TokensInfo(db)
     IN  IF args.holders
         THEN Step([request EXCEPT !.ids = SetToSeq(tokens), !.pc = "holders",
                                   !.memo.token = tokens])
         ELSE Ok

HoldersOfNextTick ==
  /\ At({"all_ticks"}, "holders")
  /\ IF request.ids = << >> THEN Ok
     ELSE Visit(SetToSeq(TokenHolder(db, Head(request.ids))))

HoldersOfTickDone ==
  /\ At({"all_ticks"}, "next") /\ request.todo = << >>
  /\ Step([request EXCEPT !.ids = Tail(@), !.pc = "holders"])

(* crc20_validate: the address that holds each inscription, and then, for  *)
(* each address, which of its inscriptions are logged.                     *)
ValidateSatpoint ==
  /\ At({"validate"}, "start")
  /\ IF request.count = Len(args.ids)
     THEN Step([request EXCEPT !.pc = "logs",
            !.todo = SetToSeq({request.answer[i] : i \in DOMAIN request.answer})])
     ELSE LET satpoint == SatpointById(db, args.ids[request.count + 1])
          IN  IF satpoint = {} THEN NotFound
              ELSE Note([memo EXCEPT !.satpoint = satpoint], "output")

ValidateOutput ==
  /\ At({"validate"}, "output")
  /\ \E satpoint \in memo.satpoint :
       WithOutput(satpoint[1],
         Step([request EXCEPT !.answer = Give(OwnerOf[satpoint[1]]),
                              !.count = @ + 1, !.pc = "start"]))

ValidateLogs ==
  /\ At({"validate"}, "logs")
  /\ IF request.todo = << >> THEN Ok
     ELSE LET ids == {args.ids[i] : i \in {j \in DOMAIN args.ids : request.answer[j] = Here}}
          IN  Step([request EXCEPT !.todo = Tail(@),
                !.memo.checks = @ \cup TransferableById(db, Here, ids)])

-----------------------------------------------------------------------------
(* The page of an inscription, and its content or preview.                 *)
PageEntry ==
  /\ At({"inscription"}, "start")
  /\ LET number == GetEntry(db, args.id)
     IN  IF number = {} THEN NotFound
         ELSE Step([LookUp(args.id, "delegate") EXCEPT !.memo.number = number])

(* What the config hides is looked for under the id that was asked for.    *)
ReadContent ==
  /\ At({"content"}, "start")
  /\ IF args.id \in Hidden
     THEN Step([request EXCEPT !.pc = "done", !.result = "ok", !.answer = Give("unknown")])
     ELSE Step(LookUp(args.id, "delegate"))

(* The delegate takes the place of the inscription.                        *)
ReadDelegate ==
  /\ At({"inscription", "content"}, "delegate")
  /\ \/ Delegate[args.id] = {} /\ GoTo("satpoint")
     \/ \E d \in Delegate[args.id] : Step(LookUp(d, "satpoint"))

(* content_response, which finds a body in every complete inscription.     *)
ContentAnswer ==
  /\ At({"content"}, "satpoint")
  /\ Step([request EXCEPT !.pc = "done", !.result = "ok", !.answer = Give(request.id)])

PageSatpoint ==
  /\ At({"inscription"}, "satpoint")
  /\ LET satpoint == SatpointById(db, args.id)
     IN  IF satpoint = {} THEN NotFound
         ELSE Note([memo EXCEPT !.satpoint = satpoint], "output")

PageOutput ==
  /\ At({"inscription"}, "output")
  /\ \E satpoint \in memo.satpoint : WithOutput(satpoint[1], GoTo("previous"))

(* A version that asks for it even when there is none.                     *)
PagePreviousAlways ==
  /\ At({"inscription"}, "previous")
  /\ \E n \in memo.number :
       LET previous == IF n = 0 THEN {} ELSE IdByNumber(db, n - 1)
       IN  IF previous = {} THEN NotFound
           ELSE Step([request EXCEPT !.answer = Give(previous), !.pc = "following"])

(* The inscription of the number before must exist.                        *)
PagePrevious ==
  /\ At({"inscription"}, "previous")
  /\ \E n \in memo.number :
       LET previous == IF n = 0 THEN {} ELSE IdByNumber(db, n - 1)
       IN  IF n > 0 /\ previous = {} THEN NotFound
           ELSE Step([request EXCEPT !.answer = Give(previous), !.pc = "following"])

PageNext ==
  /\ At({"inscription"}, "following")
  /\ \E n \in memo.number :
       Step([request EXCEPT !.answer = Give(IdByNumber(db, n + 1)), !.pc = "cune"])

PageCune ==
  /\ At({"inscription"}, "cune")
  /\ Step([request EXCEPT !.answer = Give(CuneByInscription(db, args.id)),
                          !.pc = "done", !.result = "ok"])

-----------------------------------------------------------------------------
(* Lists of outputs: /output and /outputs, /cunes_on_outputs, and          *)
(* /inscriptions_on_outputs with or without (brief) their outputs.         *)
VisitOutputs ==
  /\ At({"outputs", "craftscriptions", "on_outputs", "cunes_on_outputs"}, "start")
  /\ Visit(args.outputs)

ListOutput ==
  /\ At({"outputs"}, "next") /\ request.todo # << >>
  /\ IF IndexSats /\ ListPanics(db, Here) THEN Reply("panic")
     ELSE IF Here = Lost THEN GoTo("inscriptions") ELSE GoTo("output")

OutputOfList ==
  /\ At({"outputs"}, "output")
  /\ WithOutput(Here, GoTo("inscriptions"))

InscriptionsOfList ==
  /\ At({"outputs"}, "inscriptions")
  /\ Step([request EXCEPT !.ids = OnOutput(db, Here), !.pc = "cunes"])

CunesOfList ==
  /\ At({"outputs"}, "cunes")
  /\ Step([Drop EXCEPT !.ids = << >>,
        !.answer = Give([output |-> Here, ids |-> request.ids,
                         cunes |-> BalancesForOutpoint(db, Here)])])

CunesByOutputs ==
  /\ At({"cunes_on_outputs"}, "next") /\ request.todo # << >>
  /\ Step([Drop EXCEPT !.answer = Give(BalancesForOutpoint(db, Here))])

CraftscriptionsOnOutput ==
  /\ At({"craftscriptions"}, "next") /\ request.todo # << >>
  /\ Step([request EXCEPT !.ids = OnOutput(db, Here), !.pc = "output"])

CraftscriptionsOutput ==
  /\ At({"craftscriptions"}, "output")
  /\ WithOutput(Here, GoTo("items"))

InscriptionsOnOutput ==
  /\ At({"on_outputs"}, "next") /\ request.todo # << >>
  /\ Step([request EXCEPT !.ids = OnOutput(db, Here), !.pc = "items"])

-----------------------------------------------------------------------------
(* Cunes: all balances, whose ids get_cune_balance_map looks up and        *)
(* unwraps in a later transaction, and the page of one.                    *)
ReadCuneBalances ==
  /\ At({"cunes_balances"}, "start")
  /\ Note([memo EXCEPT !.utxos = CuneBalances(db)], "entries")

NameCuneBalances ==
  /\ At({"cunes_balances"}, "entries")
  /\ IF \A b \in memo.utxos : b[2] \in Cunes(db)
     THEN Step([request EXCEPT !.pc = "done", !.result = "ok",
            !.answer = Give({<<b[1], CHOOSE c \in GetCuneById(db, b[2]) : TRUE>>
                               : b \in memo.utxos})])
     ELSE Reply("panic")

CuneOfId ==
  /\ At({"cune"}, "start")
  /\ LET name == GetCuneById(db, args.cuneId)
     IN  IF name = {} THEN NotFound ELSE Note([memo EXCEPT !.token = name], "entry")

CuneEntry ==
  /\ At({"cune"}, "entry")
  /\ \E name \in memo.token :
       IF CuneByName(db, name) = {} THEN NotFound ELSE GoTo("height")

CuneHeight ==
  /\ At({"cune"}, "height")
  /\ Note([memo EXCEPT !.number = Height(db)], "inscription")

CuneInscription ==
  /\ At({"cune"}, "inscription")
  /\ Step([request EXCEPT !.pc = "done", !.result = "ok",
                          !.answer = Give(Exists(db, args.etching))])

-----------------------------------------------------------------------------
(* Blocks and sats.  get_block_by_height asks the index only whether it    *)
(* has a block of that height, and the node for the block.                 *)
BlockByHeight(height) ==
  IF BlockHash(db, height) # {} /\ height \in DOMAIN BlockOf[node]
  THEN {BlockOf[node][height]} ELSE {}

BlockByHash(hash) ==
  IF \E h \in DOMAIN db.hashes : db.hashes[h] = hash THEN {hash} ELSE {}

BlockRequest ==
  /\ At({"block"}, "start")
  /\ LET block == IF args.hash = {} THEN BlockByHeight(args.height)
                  ELSE UNION {BlockByHash(h) : h \in args.hash}
     IN  \/ block = {} /\ NotFound
         \/ \E b \in block : Step([request EXCEPT !.memo.block = b, !.pc = "inputs",
                                                 !.ids = InBlock[b]])

BlocksRequest ==
  /\ At({"blocks"}, "start")
  /\ Visit([i \in 1 .. args.end - args.height |-> args.height + i - 1])

BlocksNext ==
  /\ At({"blocks"}, "next") /\ request.todo # << >>
  /\ LET block == BlockByHeight(Here)
     IN  \/ block = {} /\ NotFound
         \/ \E b \in block : Step([request EXCEPT !.memo.block = b, !.pc = "inputs",
                                                 !.ids = InBlock[b]])

(* The value of an input: none for that of a coinbase, and for one whose   *)
(* transaction the node refuses.                                           *)
TransactionDetails(o, missing) ==
  IF o = Lost \/ o \in missing THEN {} ELSE {ValueOf[o]}

(* The inputs of a block are asked for in parallel.  A map from their      *)
(* transaction keeps the last one's value.                                 *)
AskForInputs(inputs) ==
  LET all == UNION {ToSet(inputs[t]) : t \in DOMAIN inputs} \ {Lost}
  IN  \E missing \in SUBSET {o \in all : FALSE \in GetTransaction(db, o)} :
        /\ \A o \in all \ missing : TRUE \in GetTransaction(db, o)
        /\ Step([request EXCEPT !.pc = "items",
             !.memo.values = [t \in DOMAIN inputs |->
                                TransactionDetails(Last(inputs[t]), missing)],
             !.since = IF missing = {} THEN @ ELSE @ \cup {"refused"}])

BlockInputs == At({"block"}, "inputs") /\ AskForInputs(Inputs[memo.block])

(* blocks asks for them on demand only (no_input_data).                    *)
BlocksInputs ==
  /\ At({"blocks"}, "inputs")
  /\ \/ args.inputs /\ AskForInputs(Inputs[memo.block])
     \/ ~args.inputs /\ GoTo("items")

BlockInscriptions ==
  /\ At({"block", "blocks"}, "items")
  /\ LET found == [block |-> memo.block, ids |-> memo.checks, values |-> memo.values]
         next == [request EXCEPT !.answer = Give(found), !.memo = NoMemo]
     IN  IF request.ids # << >> THEN Step(LookUp(Head(request.ids), "found"))
         ELSE IF request.handler = "block" THEN Step([next EXCEPT !.pc = "height"])
         ELSE Step([next EXCEPT !.todo = Tail(@), !.pc = "next"])

InscriptionInBlock ==
  /\ At({"block", "blocks"}, "found")
  /\ Step([DropItem EXCEPT !.memo.checks = @ \cup {request.id}])

BlockIndexHeight ==
  /\ At({"block"}, "height")
  /\ IF Height(db) = {} THEN NotFound ELSE Ok

SatSatpoint ==
  /\ At({"sat"}, "start")
  /\ Step([request EXCEPT !.answer = Give(RareSatSatpoint(db, args.sat)), !.pc = "block"])

(* blocktime: the time of the block of the sat, or an estimate from the    *)
(* height of the index, which is read again.                               *)
SatBlock ==
  /\ At({"sat"}, "block")
  /\ GoTo(IF BlockByHeight(args.height) # {} THEN "inscription" ELSE "expected")

SatExpected ==
  /\ At({"sat"}, "expected")
  /\ IF \E h \in Height(db) : h > args.height THEN Reply("error") ELSE GoTo("inscription")

SatInscription ==
  /\ At({"sat"}, "inscription")
  /\ Step([request EXCEPT !.answer = Give(InscriptionBySat(db, args.sat)),
                          !.pc = "done", !.result = "ok"])

(* The list of inscriptions from a number on, in one transaction.          *)
LatestInscriptions ==
  /\ At({"latest"}, "start")
  /\ Step([request EXCEPT !.pc = "done", !.result = "ok",
                          !.answer = Give(LatestPage(db, args.n, args.from))])

-----------------------------------------------------------------------------
Init ==
  /\ tip = [branch |-> 1, height |-> 1]
  /\ node = 1
  /\ request = Idle

UpdateIndex ==
  \/ \E blocks \in 1 .. Len(Db[tip.branch]) : Commit(blocks)
  \/ \E branch \in DOMAIN Db : NodeReorganises(branch)
  \/ \E height \in 1 .. CommonHeight : RestoreSavepoint(height)

Lookups ==
  InscriptionExists \/ InscriptionBody \/ NextInscription \/ InscriptionEntry
    \/ EntryOnOutput \/ MissingSatpoint \/ CraftscriptionSatpoint
    \/ InscriptionSatpoint \/ Crc20Satpoint

AddressPages ==
  UtxosByAddress \/ InscriptionsByAddress \/ CunesByAddress \/ Exhausted
    \/ UtxoCunes \/ UtxoOutput \/ UtxoInscriptions \/ OutputInscriptions
    \/ InscribedOutput \/ OutputCunes \/ CunesPage

Crc20Requests ==
  Crc20ByAddress \/ Crc20Inscriptions \/ Crc20Output \/ Crc20Transferable \/ ReadCrc20Balances
    \/ Crc20BalanceOf \/ TickInfo \/ TickHolders \/ TickToken \/ HolderBalance
    \/ TickHolderAnswer \/ AllTicks \/ HoldersOfNextTick \/ HoldersOfTickDone
    \/ ValidateSatpoint \/ ValidateOutput \/ ValidateLogs

InscriptionRequests ==
  PageEntry \/ ReadContent \/ ReadDelegate \/ ContentAnswer \/ PageSatpoint
    \/ PageOutput \/ PagePrevious \/ PageNext \/ PageCune \/ LatestInscriptions

OutputRequests ==
  VisitOutputs \/ ListOutput \/ OutputOfList \/ InscriptionsOfList \/ CunesOfList
    \/ CunesByOutputs \/ CraftscriptionsOnOutput \/ CraftscriptionsOutput
    \/ InscriptionsOnOutput

CuneRequests ==
  ReadCuneBalances \/ NameCuneBalances \/ CuneOfId \/ CuneEntry \/ CuneHeight
    \/ CuneInscription

BlockRequests ==
  BlockRequest \/ BlocksRequest \/ BlocksNext \/ BlockInputs \/ BlocksInputs
    \/ BlockInscriptions \/ InscriptionInBlock \/ BlockIndexHeight \/ SatSatpoint \/ SatBlock
    \/ SatExpected \/ SatInscription

Next ==
  \/ UpdateIndex
  \/ \E r \in Requests : Accept(r)
  \/ Respond
  \/ Lookups \/ AddressPages \/ Crc20Requests \/ InscriptionRequests
  \/ OutputRequests \/ CuneRequests \/ BlockRequests

Spec == Init /\ [][Next]_vars
=============================================================================
