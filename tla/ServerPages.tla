---------------------------- MODULE ServerPages -----------------------------
(***************************************************************************)
(* The other handlers of the server (server.rs): the home page, the feed   *)
(* and the lists, the search, the pages of a transaction and of an input,  *)
(* the preview of an inscription, and the validation of the owners of      *)
(* inscriptions.  They run beside the updater as those of ServerHandlers   *)
(* do.                                                                     *)
(***************************************************************************)
EXTENDS ServerHandlers

CONSTANTS
  MadeBy,        \* the inscriptions whose id has the txid of a transaction
  MediaOf        \* the media of an inscription

(* An answer that is read from the index with one query.                   *)
AnswerWith(handler, answer) ==
  /\ At({handler}, "start")
  /\ Step([request EXCEPT !.pc = "done", !.result = "ok", !.answer = Give(answer)])

Feed == AnswerWith("feed", FeedInscriptions(db, args.n))
OutputsByAddress == AnswerWith("address_outputs", AccountOutputs(db, args.address))
RareTxt == AnswerWith("rare_txt", RareSatSatpoints(db))
CunesPageOfAll == AnswerWith("all_cunes", Cunes(db))
AllTickNames == AnswerWith("tick_names", TokensInfo(db))
BlockCountOfIndex == AnswerWith("block_count", BlockCount(db))

(* The home page is two queries.                                           *)
HomeBlocks ==
  /\ At({"home"}, "start")
  /\ Step([request EXCEPT !.answer = Give(Blocks(db, args.blocks)), !.pc = "inscriptions"])

HomeInscriptions ==
  /\ At({"home"}, "inscriptions")
  /\ Step([request EXCEPT !.pc = "done", !.result = "ok",
                          !.answer = Give(Newest(db, args.n))])

(* A range of sats must not be empty.                                      *)
RangePage ==
  /\ At({"range"}, "start")
  /\ IF args.first < args.last THEN Ok ELSE Reply("bad_request")

-----------------------------------------------------------------------------
(* search: a hash is of a block, if the node knows a block of it on any    *)
(* branch, or else of a transaction; the id of a cune is looked up.        *)
SearchFor ==
  /\ At({"search"}, "start")
  /\ LET found(page) == Step([request EXCEPT !.pc = "done", !.result = "ok",
                                             !.answer = Give(page)])
         isBlock == \E b \in DOMAIN BlockOf : \E h \in DOMAIN BlockOf[b] :
                      BlockOf[b][h] = args.of
     IN  CASE args.kind = "hash" -> found(IF isBlock THEN "block" ELSE "tx")
           [] args.kind = "cune_id" ->
                IF GetCuneById(db, args.of) = {} THEN NotFound
                ELSE \E name \in GetCuneById(db, args.of) : found(name)
           [] args.kind \in {"output", "craftscription", "cune", "sat"} -> found(args.kind)

(* The page of a transaction: its block, of which an error of the node is  *)
(* none, the transaction, and how many inscriptions it made.               *)
TransactionBlock ==
  /\ At({"transaction"}, "start")
  /\ \E known \in BOOLEAN :
       Note([memo EXCEPT !.block = IF known THEN args.txid ELSE ""], "output")

TransactionOutput ==
  /\ At({"transaction"}, "output")
  /\ WithOutput(args.output, GoTo("count"))

TransactionCount ==
  /\ At({"transaction"}, "count")
  /\ Step([request EXCEPT !.pc = "done", !.result = "ok",
                          !.answer = Give(InscriptionCount(db, MadeBy[args.txid]))])

(* An input by the height of its block and its place in there.             *)
InputPage ==
  /\ At({"input"}, "start")
  /\ IF \E b \in BlockByHeight(args.height) :
          args.transaction < Len(Inputs[b]) /\ args.input < Len(Inputs[b][args.transaction + 1])
     THEN Ok ELSE NotFound

-----------------------------------------------------------------------------
(* preview answers with a page for the media of the inscription, or of its *)
(* delegate, and an iframe is the content itself.  What the config hides   *)
(* is looked for under the id that was asked for only.                     *)
PreviewHidden ==
  /\ At({"preview"}, "start")
  /\ IF args.id \in Hidden
     THEN Step([request EXCEPT !.pc = "done", !.result = "ok", !.answer = Give("unknown")])
     ELSE Step(LookUp(args.id, "delegate"))

PreviewDelegate ==
  /\ At({"preview"}, "delegate")
  /\ \/ Delegate[args.id] = {} /\ GoTo("media")
     \/ \E d \in Delegate[args.id] : Step(LookUp(d, "media"))

PreviewMedia ==
  /\ At({"preview"}, "media")
  /\ Step([request EXCEPT !.pc = "done", !.result = "ok",
                          !.answer = Give(MediaOf[request.id])])

(* inscriptions_validate: for each inscription and the address that is     *)
(* named with it, whether its output is of that address.  What is left     *)
(* over of the longer list is not looked at.                               *)
Pairs == Least(Len(args.ids), Len(args.addresses))

ValidateOwner ==
  /\ At({"owners"}, "start")
  /\ IF request.count = Pairs THEN Ok
     ELSE LET satpoint == SatpointById(db, args.ids[request.count + 1])
          IN  IF satpoint = {} THEN NotFound
              ELSE Note([memo EXCEPT !.satpoint = satpoint], "output")

ValidateOwnerOutput ==
  /\ At({"owners"}, "output")
  /\ \E satpoint \in memo.satpoint :
       WithOutput(satpoint[1],
         Step([request EXCEPT !.pc = "start", !.count = @ + 1,
                !.answer = Give(OwnerOf[satpoint[1]] = args.addresses[request.count + 1])]))

-----------------------------------------------------------------------------
Pages ==
  Feed \/ OutputsByAddress \/ RareTxt \/ CunesPageOfAll \/ AllTickNames \/ BlockCountOfIndex
    \/ HomeBlocks \/ HomeInscriptions \/ RangePage

Finding ==
  SearchFor \/ TransactionBlock \/ TransactionOutput \/ TransactionCount
    \/ InputPage

Previews == PreviewHidden \/ PreviewDelegate \/ PreviewMedia

Owners == ValidateOwner \/ ValidateOwnerOutput

PagesNext == Next \/ Pages \/ Finding \/ Previews \/ Owners

PagesSpec == Init /\ [][PagesNext]_vars
=============================================================================
