-------------------------- MODULE MCServerHandlers --------------------------
(***************************************************************************)
(* ServerHandlers over an index of two branches that share their first     *)
(* block.  Address "a" has an output without assets (1), one with an       *)
(* inscription (2) and one with cunes (3).  The second block of branch 1   *)
(* deploys and mints the token, logs a transfer (inscription 2, on output  *)
(* 4) and puts two cunes on output 5, whose sats are in three ranges; the  *)
(* third moves inscriptions 1 and 2, which pays the transfer, and makes    *)
(* inscription 3, a delegate of 1; the fourth loses inscription 1.  On     *)
(* branch 2 the output 4 has no inscription and the token does not exist.  *)
(***************************************************************************)
EXTENDS ServerPages

MCValueOf == [o \in 0 .. 9 |-> IF o \in {2, 4} THEN 7 ELSE 5]
MCOwnerOf == [o \in 0 .. 9 |-> IF o \in {7, 8} THEN "b" ELSE "a"]
MCContent == [i \in 1 .. 4 |-> IF i = 2 THEN [tick |-> "t", op |-> "transfer"]
                               ELSE NotCrc20]
MCDelegate == [i \in 1 .. 4 |-> IF i = 3 THEN {1} ELSE {}]

(* The outputs of the transactions of a block.                             *)
MCInTransactions == [g |-> 1 .. 3, h |-> {4, 5}, i |-> {6, 7}, j |-> {8}, k |-> {4, 9}]

Balance(overall, transferable) == [overall |-> overall, transferable |-> transferable]

Tables(hashes, a, b, cunes, satpoints, token, balances, transferable) ==
  LET ids == DOMAIN satpoints
      Number(i) == Cardinality({j \in ids : j < i})
      names == UNION {{cunes[o][k][1] : k \in DOMAIN cunes[o]} : o \in DOMAIN cunes}
  IN  [hashes |-> [h \in 0 .. Len(hashes) - 1 |-> hashes[h + 1]],
       addresses |-> [s \in {"a", "b"} |-> IF s = "a" THEN a ELSE b],
       transactions |-> UNION {MCInTransactions[hashes[k]] : k \in DOMAIN hashes},
       entries |-> [i \in names |-> IF i = 1 THEN "X" ELSE "Y"],
       cuneIds |-> [n \in {IF i = 1 THEN "X" ELSE "Y" : i \in names} |->
                      IF n = "X" THEN 1 ELSE 2],
       cuneBalances |-> cunes,
       cuneOf |-> [i \in {1} \cap ids |-> "X"],
       ranges |-> [o \in (a \cup b) |-> IF o = 5 THEN <<1, 2, 3>> ELSE <<1>>],
       satpointOfSat |-> [s \in {1} |-> <<3, 0>>],
       inscriptionOfSat |-> [s \in {1} |-> 1],
       numbers |-> [n \in {Number(i) : i \in ids} |->
                      CHOOSE i \in ids : Number(i) = n],
       numberOf |-> [i \in ids |-> Number(i)],
       satpoints |-> satpoints,
       bodies |-> ids,
       tokens |-> token,
       holders |-> [t \in token |-> {k[1] : k \in {l \in DOMAIN balances :
                                                      balances[l].overall > 0}}],
       balances |-> balances,
       transferable |-> transferable]

NoBalances == [k \in {} |-> Balance(0, 0)]
A == <<"a", "t">>
B == <<"b", "t">>
CunesOnce == [o \in {3} |-> << <<1, 10>> >>]
CunesTwice == [o \in {3, 5} |-> IF o = 3 THEN << <<1, 10>> >> ELSE << <<1, 1>>, <<2, 2>> >>]

First ==
  Tables(<<"g">>, {1, 2, 3}, {}, CunesOnce, [i \in {1} |-> <<2, 3>>], {}, NoBalances, {})

MCDb ==
  << << First,
        Tables(<<"g", "h">>, {1, 2, 3, 4, 5}, {}, CunesTwice,
               [i \in {1, 2} |-> IF i = 1 THEN <<2, 3>> ELSE <<4, 0>>],
               {"t"}, [k \in {A} |-> Balance(100, 40)], {<<"a", 2>>}),
        Tables(<<"g", "h", "i">>, {1, 3, 5, 6}, {7}, CunesTwice,
               [i \in 1 .. 3 |-> CASE i = 1 -> <<6, 1>> [] i = 2 -> <<7, 0>> [] i = 3 -> <<6, 0>>],
               {"t"}, [k \in {A, B} |-> IF k = A THEN Balance(60, 0) ELSE Balance(40, 0)], {}),
        Tables(<<"g", "h", "i", "j">>, {1, 3, 5}, {7, 8}, CunesTwice,
               [i \in 1 .. 3 |-> CASE i = 1 -> <<0, 0>> [] i = 2 -> <<7, 0>> [] i = 3 -> <<8, 0>>],
               {"t"}, [k \in {A, B} |-> IF k = A THEN Balance(0, 0) ELSE Balance(100, 0)], {}) >>,
     << First,
        Tables(<<"g", "k">>, {1, 2, 3, 4, 9}, {}, CunesOnce,
               [i \in {1, 4} |-> IF i = 1 THEN <<2, 3>> ELSE <<9, 0>>],
               {}, NoBalances, {}) >> >>

MCBlockOf == << [h \in 0 .. 3 |-> <<"g", "h", "i", "j">>[h + 1]],
                [h \in 0 .. 1 |-> <<"g", "k">>[h + 1]] >>
MCInBlock == [b \in {"g", "h", "i", "j", "k"} |->
                CASE b = "g" -> <<1>> [] b = "h" -> <<2>> [] b = "i" -> <<3>>
                  [] b = "k" -> <<4>> [] b = "j" -> << >>]

(* The coinbase has the input Lost; the transaction of a block spends what *)
(* the blocks before it have.                                              *)
MCInputs == [b \in {"g", "h", "i", "j", "k"} |->
  CASE b = "g" -> << <<0>> >>         [] b = "h" -> << <<0>>, <<1, 3>> >>
    [] b = "i" -> << <<0>>, <<2, 4>> >> [] b = "j" -> << <<0>>, <<6>> >>
    [] b = "k" -> << <<0>>, <<1>> >>]

(* The inscriptions whose id has the txid of the transaction of a block.   *)
MCMadeBy == [b \in {"g", "h", "i", "j", "k"} |-> ToSet(MCInBlock[b])]
MCMediaOf == [i \in 1 .. 4 |-> IF i = 1 THEN "image" ELSE "text"]

Asks(handler, arguments) == {[handler |-> handler, args |-> a] : a \in arguments}

MCRequests ==
  LET Page(pages, limits, unsafe, filters) ==
        [address : {"a"}, page : pages, limit : limits, all : BOOLEAN, unsafe : unsafe,
         filter : filters, tick : {{}}]
      Ids == 1 .. 3
      Lists == {<<1>>, <<2, 4>>, <<6>>, <<5>>}
  IN  Asks("utxos", Page({1, 2}, {0, 1, 2}, {FALSE}, {0}))
      \cup Asks("utxos", Page({0}, {2}, BOOLEAN, {5}))
      \cup Asks("inscriptions", Page({1, 2}, {2}, {FALSE}, {0, 5}))
      \cup Asks("cunes", [address : {"a"}, page : 0 .. 3, all : BOOLEAN, list : BOOLEAN,
                          cune : {{}, {"X"}}])
      \cup Asks("crc20", [address : {"a", "b"}, utxos : BOOLEAN, tick : {{}, {"t"}, {"u"}},
                          filter : {0, 6}])
      \cup Asks("tick_info", [tick : {"t"}, holders : BOOLEAN])
      \cup Asks("tick_holder", [tick : {"t"}])
      \cup Asks("all_ticks", [holders : BOOLEAN])
      \cup Asks("validate", [ids : {<<2>>, <<1, 2>>}])
      \cup Asks("inscription", [id : Ids])
      \cup Asks("content", [id : Ids])
      \cup Asks("outputs", [outputs : Lists \cup {<<0>>}])
      \cup UNION {Asks(handler, [outputs : Lists]) :
                     handler \in {"craftscriptions", "on_outputs", "cunes_on_outputs"}}
      \cup Asks("address_outputs", [address : {"a", "b"}])
      \cup Asks("cunes_balances", {<< >>})
      \cup Asks("cune", [cuneId : {1, 2}, etching : {1}])
      \cup Asks("block", [hash : {{}, {"h"}}, height : {0, 1, 2}])
      \cup Asks("blocks", [height : {0}, end : {2}, inputs : BOOLEAN])
      \cup Asks("sat", [sat : {1, 2}, height : {0, 2}])
      \cup Asks("latest", [n : {1, 2}, from : {{}, {0}, {1}}])
      \cup Asks("home", [n : {2}, blocks : {2}])
      \cup Asks("feed", [n : {1, 2}])
      \cup UNION {Asks(handler, {<< >>}) :
                     handler \in {"rare_txt", "all_cunes", "tick_names", "block_count"}}
      \cup Asks("range", [first : {1, 2}, last : {2}])
      \cup Asks("search", [kind : {"hash"}, of : {"h", "x"}])
      \cup Asks("search", [kind : {"cune_id"}, of : {1, 2}])
      \cup Asks("search", [kind : {"output", "craftscription", "cune", "sat"}, of : {"x"}])
      \cup Asks("transaction", [txid : {"h"}, output : {4}])
      \cup Asks("input", [height : {1}, transaction : {0, 1, 2}, input : {0, 1}])
      \cup Asks("preview", [id : Ids])
      \cup Asks("owners", [ids : {<<1, 2>>}, addresses : {<<"a">>, <<"a", "b">>}])

-----------------------------------------------------------------------------
Answered == request # Idle /\ request.pc = "done" /\ request.result = "ok"

At0 == Db[request.base.branch][request.base.height]

InscriptionsAt(d, o) == {i \in DOMAIN d.satpoints : d.satpoints[i][1] = o}

HasAssets(d, o) == InscriptionsAt(d, o) # {} \/ o \in DOMAIN d.cuneBalances

(* An output given as free to spend, by a request that did not ask for the *)
(* unsafe ones, holds no inscription and no cunes as long as it is         *)
(* unspent, whatever blocks were committed while its cunes and its         *)
(* inscriptions were read; only a rollback can bring assets back to it.    *)
SpendableUtxosHoldNoAssets ==
  /\ Answered /\ request.handler = "utxos"
  /\ ~args.unsafe /\ "rollback" \notin request.since
  => \A o \in ToSet(request.answer) :
       o \in db.addresses[args.address] => ~HasAssets(db, o)

(* What a request asks for is not in the index it began with, or has no    *)
(* output: the lost inscription is in no transaction, so that its own page *)
(* and its validation answer 404.                                          *)
AsksForWhatIsNotThere ==
  LET Located(i) == i \in DOMAIN At0.satpoints
      IsLost(i) == \E d \in {At0, db} : i \in DOMAIN d.satpoints /\ d.satpoints[i][1] = Lost
      bad(i) == ~Located(i) \/ IsLost(i)
  IN  CASE request.handler = "inscription" -> bad(args.id)
        [] request.handler \in {"content", "preview"} -> ~Located(args.id)
        [] request.handler = "search"      ->
             args.kind = "cune_id" /\ args.of \notin DOMAIN At0.entries
        [] request.handler = "input"       ->
             args.height \notin DOMAIN At0.hashes
               \/ LET inputs == Inputs[At0.hashes[args.height]]
                  IN  \/ args.transaction + 1 \notin DOMAIN inputs
                      \/ args.input + 1 \notin DOMAIN inputs[args.transaction + 1]
        [] request.handler \in {"validate", "owners"} -> \E i \in ToSet(args.ids) : bad(i)
        [] request.handler = "cune"        -> args.cuneId \notin DOMAIN At0.entries
        [] request.handler = "block"       ->
             \/ args.hash = {} /\ args.height \notin DOMAIN At0.hashes
             \/ \E h \in args.hash : h \notin {At0.hashes[k] : k \in DOMAIN At0.hashes}
        [] request.handler = "blocks"      -> args.end > request.base.height
        [] OTHER                           -> FALSE

(* A request panics, answers 404 or an internal error only when the index  *)
(* was rolled back, the node reorganised or the node refused a transaction *)
(* meanwhile, or when it asks for what is not there, with three            *)
(* exceptions: crc20_tick_info, which unwraps a token it read before a     *)
(* block deployed it; blocktime, when the block it estimates was committed *)
(* meanwhile; and an output whose sats are in three ranges or more.  The   *)
(* unwraps of the other handlers and the 404 of each thing that one query  *)
(* just told them of are never met.                                        *)
RequestsFailOnlyAcrossUpdates ==
  /\ request # Idle /\ request.result \in {"panic", "not_found", "error"}
  /\ request.since \cap {"rollback", "reorg", "refused"} = {}
  => \/ request.result = "not_found" /\ AsksForWhatIsNotThere
     \/ request.result = "panic" /\ request.handler = "tick_info" /\ "commit" \in request.since
     \/ request.result = "error" /\ request.handler = "sat" /\ "commit" \in request.since
     \/ /\ request.result = "panic" /\ request.handler = "outputs"
        /\ \E o \in ToSet(args.outputs) \cap DOMAIN db.ranges : Len(db.ranges[o]) >= 3

-----------------------------------------------------------------------------
(* What a request ought to answer from the tables d.                       *)
Mine(d) == d.addresses[args.address]
BigEnough(o) == args.filter = 0 \/ ValueOf[o] > args.filter

Spendable(d) ==
  {o \in Mine(d) : /\ o \notin DOMAIN d.cuneBalances
                   /\ args.unsafe \/ InscriptionsAt(d, o) = {}
                   /\ BigEnough(o)}

AllCuneRows(d) ==
  {[cune |-> d.entries[d.cuneBalances[o][i][1]], output |-> o,
    amount |-> d.cuneBalances[o][i][2]] :
      <<o, i>> \in {p \in (DOMAIN d.cuneBalances) \X (1 .. 2) :
                      p[2] \in DOMAIN d.cuneBalances[p[1]]}}
CuneRows(d) == {r \in AllCuneRows(d) : r.output \in Mine(d)}
WantedRows(d) == {r \in CuneRows(d) : \A c \in args.cune : c = r.cune}

(* The rows of a page are in the order of the cunes, and then the outputs, *)
(* and stand where the pages before left off.                              *)
RowsBefore(d, r) == {q \in WantedRows(d) : q.cune = r.cune => q.output < r.output}
                      \ {q \in WantedRows(d) : q.cune = "Y" /\ r.cune = "X"}
OnPage(d, r) ==
  LET n == Cardinality(RowsBefore(d, r) \ {r})
  IN  IF args.page = 0 THEN n < ItemsPerPage
      ELSE n \div ItemsPerPage = args.page - 1

HolderRows(d) ==
  {[script |-> k[1], balance |-> d.balances[k]] :
     k \in {l \in DOMAIN d.balances : d.balances[l].overall > 0}}

Crc20Rows(d) ==
  {[tick |-> k[2], balance |-> d.balances[k],
    utxos |-> {[id |-> i, valid |-> <<args.address, i>> \in d.transferable] :
                 i \in {j \in DOMAIN d.satpoints :
                          /\ args.utxos /\ d.satpoints[j][1] \in Mine(d)
                          /\ Content[j] # NotCrc20 /\ BigEnough(d.satpoints[j][1])}}] :
     k \in {l \in DOMAIN d.balances : /\ l[1] = args.address /\ d.balances[l].overall > 0
                                      /\ \A t \in args.tick : t = l[2]}}

(* A page of numbers, and its neighbours, begin where the other ends.      *)
PagesTile(d, p) ==
  LET from == IF args.from = {} THEN Cardinality(DOMAIN d.numbers) - 1
              ELSE CHOOSE f \in args.from : TRUE
      last == from - args.n
  IN  from \in DOMAIN d.numbers =>
        /\ p.page = {m \in DOMAIN d.numbers : last < m /\ m <= from}
        /\ p.prev = {last} \cap DOMAIN d.numbers
        /\ (p.next = {}) = (from + 1 \notin DOMAIN d.numbers)
        /\ \A m \in p.next : m \in DOMAIN d.numbers /\ from < m /\ m - args.n <= from

Exact(d) ==
  LET answer == request.answer
      all == ToSet(answer)
  IN  CASE request.handler = "utxos" ->
             IF args.all \/ (args.limit = 0 /\ args.page <= 1)
             THEN all = Spendable(d) /\ Len(answer) = Cardinality(Spendable(d))
             ELSE args.page <= 1 =>
               /\ all \subseteq Spendable(d)
               /\ Len(answer) = Least(args.limit, Cardinality(Spendable(d)))
               /\ \A o \in all, p \in Spendable(d) \ all : o < p
        [] request.handler = "inscriptions" ->
             args.all => all = {[output |-> d.satpoints[i][1], id |-> i,
                                 number |-> {d.numberOf[i]}, offset |-> d.satpoints[i][2]] :
                                  i \in {j \in DOMAIN d.satpoints :
                                           /\ d.satpoints[j][1] \in Mine(d)
                                           /\ Content[j] = NotCrc20
                                           /\ BigEnough(d.satpoints[j][1])}}
        [] request.handler = "cunes" ->
             IF args.list /\ ~args.all
             THEN args.page = 1 => Len(answer) = Least(ItemsPerPage,
                                     Cardinality({r.cune : r \in WantedRows(d)}))
             ELSE all = {r \in WantedRows(d) : args.all \/ OnPage(d, r)}
        [] request.handler = "crc20" -> all = Crc20Rows(d)
        [] request.handler = "tick_info" -> args.holders => all = HolderRows(d)
        [] request.handler = "tick_holder" -> all = HolderRows(d)
        [] request.handler = "all_ticks" -> args.holders => all = HolderRows(d)
        [] request.handler = "validate" ->
             memo.checks = {i \in ToSet(args.ids) :
                              <<OwnerOf[d.satpoints[i][1]], i>> \in d.transferable}
        [] request.handler = "inscription" ->
             LET n == d.numberOf[args.id]
             IN  /\ memo.satpoint = {d.satpoints[args.id]}
                 /\ \A i \in answer[1] : d.numberOf[i] = n - 1
                 /\ \A i \in answer[2] : d.numberOf[i] = n + 1
                 /\ (answer[1] = {}) = (n = 0)
        [] request.handler = "outputs" ->
             \A e \in all : ToSet(e.ids) = InscriptionsAt(d, e.output)
        [] request.handler \in {"craftscriptions", "on_outputs"} ->
             {e.id : e \in all} = UNION {InscriptionsAt(d, o) : o \in ToSet(args.outputs)}
        [] request.handler = "cunes_on_outputs" ->
             UNION {ToSet(rows) : rows \in all}
               = {<<r.cune, r.amount>> : r \in {q \in AllCuneRows(d) : q.output \in ToSet(args.outputs)}}
        [] request.handler = "cunes_balances" ->
             {p[1] : p \in answer[1]} = DOMAIN d.cuneBalances
        [] request.handler = "latest" -> PagesTile(d, answer[1])
        [] request.handler \in {"block", "blocks"} ->
             \A e \in all :
               /\ e.ids = ToSet(InBlock[e.block]) \cap DOMAIN d.satpoints
               /\ \A t \in DOMAIN e.values :
                    e.values[t] = {ValueOf[o] : o \in {Last(Inputs[e.block][t])} \ {Lost}}
        [] request.handler \in {"home", "feed"} ->
             LET rows == Last(answer)
                 ids == IF request.handler = "home" THEN rows
                        ELSE [k \in DOMAIN rows |-> rows[k][2]]
             IN  /\ Len(rows) = Least(args.n, Cardinality(DOMAIN d.numberOf))
                 /\ \A k \in DOMAIN ids :
                      d.numberOf[ids[k]] = Cardinality(DOMAIN d.numberOf) - k
                 /\ request.handler = "home" =>
                      \A k \in DOMAIN answer[1] :
                        answer[1][k] = <<request.base.height - k,
                                         d.hashes[request.base.height - k]>>
        [] request.handler = "transaction" ->
             answer[1] = Cardinality(ToSet(InBlock[args.txid]) \cap DOMAIN d.satpoints)
        [] request.handler \in {"preview", "content"} ->
             LET shown == IF Delegate[args.id] = {} THEN args.id
                          ELSE CHOOSE i \in Delegate[args.id] : TRUE
             IN  answer[1] = IF args.id \in Hidden THEN "unknown"
                             ELSE IF request.handler = "preview" THEN MediaOf[shown]
                             ELSE shown
        [] request.handler = "address_outputs" -> ToSet(answer[1]) = Mine(d)
        [] request.handler = "owners" ->
             answer = [k \in DOMAIN answer |->
                         OwnerOf[d.satpoints[args.ids[k]][1]] = args.addresses[k]]
        [] OTHER -> TRUE

(* A request during which nothing was committed answers exactly what the   *)
(* tables hold: its loops, filters and pages leave nothing out and add     *)
(* nothing.  Of the inputs of a transaction a block shows the last one     *)
(* only.  The pages of cunes tile the rows, those of the inscriptions   *)
(* the numbers.  The later pages of the outputs, and the pages of the      *)
(* inscriptions of an address, do not, and are left out.                   *)
QuietAnswersAreExact ==
  Answered /\ request.since = {} => Exact(At0)
=============================================================================
