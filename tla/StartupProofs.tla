----------------------------- MODULE StartupProofs -----------------------------
(* Theorems about the wallets and the indexes of commands that run beside  *)
(* each other, for all commands, options, nodes and wallets.               *)
EXTENDS Startup, FiniteSetTheorems, SequenceTheorems, TLAPS

-----------------------------------------------------------------------------
(* The inductive invariant                                                 *)

(* What a command knows at each of its steps.                              *)
Options == {line.options : line \in CommandLines}
Commands == {"index", "wallet", "create", "restore"}
Cookie == {None, Stale} \cup {CookieFile(o) : o \in Options}
FlagSets == {FlagsOf(o) : o \in Options}
WalletSteps == {"load_wallet", "list_descriptors", "checked", "create_wallet",
                "import_receive", "import_change", "created_wallet"}

OfWallet == [at : WalletSteps, command : Commands, options : Options, cookie : Cookie]
Indexing == {OpenedIndex(o, c, flags) : o \in Options, c \in Cookie, flags \in FlagSets}
RunState ==
  [at : {"idle", "ended"}]
    \cup [at : {"open", "connect"}, command : Commands, options : Options]
    \cup [at : {"created"}, command : Commands, options : Options, cookie : Cookie]
    \cup OfWallet \cup Indexing

(* A wallet is not there, is one of the node's own tools, or has           *)
(* descriptors of one seed and recovery keys.                              *)
Seeds == Command \cup {"mnemonic"}
Keys == SUBSET [kind : {"rawtr"}, seed : Command, internal : {FALSE}]
Both(seed) == {Tr(seed, FALSE), Tr(seed, TRUE)}
WalletOfSeed(seed) == {<<half \cup keys>> : half \in SUBSET Both(seed), keys \in Keys}
Wallet == {<<>>, <<Foreign>>} \cup UNION {WalletOfSeed(seed) : seed \in Seeds}

Block == [chain : Chain, flags : FlagSets, default : BOOLEAN]
File == {Absent, Empty, Old}
          \cup [is : {"index"}, flags : FlagSets, blocks : Seq(Block)]

TypeOK ==
  /\ up \subseteq Port
  /\ wallets \in [Port -> [Name -> Wallet]]
  /\ files \in [Path -> File]
  /\ run \in [Command -> RunState]

(* A command that has found or made a wallet has a node that has it.       *)
WalletsAreThere ==
  \A p \in Command :
    /\ run[p].at \in WalletSteps => Server(p) \in Port
    /\ run[p].at = "list_descriptors" => WalletOf(p) # <<>>

(* A wallet has one command that fills it, with descriptors of its seed.   *)
Importing(p) == run[p].at \in {"import_receive", "import_change"}
SameWallet(p, q) ==
  Server(p) = Server(q) /\ run[p].options.wallet = run[q].options.wallet
ImportsOfOneSeed ==
  \A p \in Command : Importing(p) =>
    /\ WalletOf(p) \in WalletOfSeed(Seed(p))
    /\ \A q \in Command : Importing(q) /\ SameWallet(p, q) => p = q

(* An index has one command that adds to it, which has its flags.          *)
IndexesAreHeldOnce ==
  \A p \in Command :
    /\ \A q \in Command, f \in Path : Holds(p, f) /\ Holds(q, f) => p = q
    /\ run[p].at = "index" =>
         /\ files[IndexPath(run[p].options)].is = "index"
         /\ files[IndexPath(run[p].options)].flags = run[p].flags

(* A command that uses the default url has a cookie.                       *)
CookiesAreGiven ==
  \A p \in Command :
    run[p].at \in {"created", "index"} /\ run[p].options.rpc_url = None =>
      run[p].cookie \in {CookieFile(run[p].options), Stale} \ {None}

WInv == TypeOK /\ WalletsAreThere /\ ImportsOfOneSeed /\ WalletHasOneSeed
FInv == TypeOK /\ IndexesAreHeldOnce /\ CookiesAreGiven /\ BlocksOfAnIndexAgree
IInv == WInv /\ FInv

-----------------------------------------------------------------------------
(* Steps of a command                                                      *)

(* Options are as the user may give them.                                  *)
LEMMA OptionsGiven ==
  ASSUME NEW o \in Options
  PROVE  /\ o.wallet \in Name /\ ChainOf(o) \in Chain
         /\ IndexPath(o) \in Path
         /\ CookieFile(o) \in Cookie /\ FlagsOf(o) \in FlagSets
<1>1. PICK line \in CommandLines : o = line.options
  BY DEF Options
<1>2. Given(o)
  BY <1>1, StartupAssumption
<1>3. o.wallet \in Name /\ ChainOf(o) \in Chain
  BY <1>2 DEF Given, ChainOf, Chain
<1>4. IndexPath(o) \in Path
  BY <1>1 DEF Path
<1> QED BY <1>3, <1>4 DEF Cookie, FlagSets

(* A command that indexes.                                                 *)
LEMMA IndexingHas ==
  ASSUME NEW r \in Indexing
  PROVE  /\ r.at = "index" /\ r.options \in Options /\ r.cookie \in Cookie
         /\ r.flags \in FlagSets
         /\ [r EXCEPT !.cookie = Stale] \in Indexing
<1>1. PICK o \in Options, c \in Cookie, flags \in FlagSets :
        r = OpenedIndex(o, c, flags)
  BY DEF Indexing
<1>2. [r EXCEPT !.cookie = Stale] = OpenedIndex(o, Stale, flags)
  BY <1>1 DEF OpenedIndex
<1>3. Stale \in Cookie
  BY DEF Cookie
<1> QED BY <1>1, <1>2, <1>3 DEF Indexing, OpenedIndex

(* Where a command is tells what it knows.                                 *)
LEMMA RunForms ==
  ASSUME TypeOK, NEW p \in Command
  PROVE  /\ run[p].at \in WalletSteps => run[p] \in OfWallet
         /\ run[p].at \in {"open", "connect"} =>
              run[p] \in [at : {"open", "connect"}, command : Commands, options : Options]
         /\ run[p].at = "created" =>
              run[p] \in [at : {"created"}, command : Commands, options : Options,
                          cookie : Cookie]
         /\ run[p].at = "index" => run[p] \in Indexing
<1>1. run[p] \in RunState
  BY DEF TypeOK
<1>2. \A r \in Indexing : r.at = "index"
  BY IndexingHas
<1>3. \A r \in OfWallet : r.at \in WalletSteps
  BY DEF OfWallet
<1>4. {"idle", "ended", "open", "connect", "created", "index"} \cap WalletSteps = {}
  BY DEF WalletSteps
<1> QED BY <1>1, <1>2, <1>3, <1>4 DEF RunState

(* The command ends.                                                       *)
LEMMA EndKeeps ==
  ASSUME TypeOK, NEW p \in Command, End(p)
  PROVE  /\ run' \in [Command -> RunState]
         /\ run'[p].at = "ended"
         /\ \A q \in Command : q # p => run'[q] = run[q]
<1>1. [at |-> "ended"] \in RunState
  BY DEF RunState
<1> QED BY <1>1 DEF End, TypeOK

(* A wallet command goes on.                                               *)
LEMMA GoKeeps ==
  ASSUME TypeOK, NEW p \in Command, run[p].at \in WalletSteps,
         NEW at \in WalletSteps, Go(p, at)
  PROVE  /\ run' \in [Command -> RunState]
         /\ run'[p].at = at /\ run'[p].command = run[p].command
         /\ run'[p].options = run[p].options
         /\ \A q \in Command : q # p => run'[q] = run[q]
<1>1. run[p] \in OfWallet
  BY RunForms
<1>2. [run[p] EXCEPT !.at = at] \in OfWallet
  BY <1>1 DEF OfWallet
<1>3. run' = [run EXCEPT ![p] = [run[p] EXCEPT !.at = at]]
  BY DEF Go
<1>4. /\ [run[p] EXCEPT !.at = at].at = at
      /\ [run[p] EXCEPT !.at = at].command = run[p].command
      /\ [run[p] EXCEPT !.at = at].options = run[p].options
  BY <1>1 DEF OfWallet
<1> QED BY <1>2, <1>3, <1>4 DEF TypeOK, RunState

(* A step that leaves wallets and the commands that use them alone.        *)
WalletsLeft ==
  /\ wallets' = wallets
  /\ \A q \in Command : run'[q].at \in WalletSteps =>
       /\ run'[q].at = run[q].at /\ run'[q].command = run[q].command
       /\ run'[q].options = run[q].options

LEMMA WalletsStay ==
  ASSUME WInv, TypeOK', WalletsLeft
  PROVE  WInv'
<1>1. ASSUME NEW q \in Command, run'[q].at \in WalletSteps
      PROVE  /\ run'[q].at = run[q].at
             /\ Server(q)' = Server(q) /\ WalletOf(q)' = WalletOf(q)
             /\ Seed(q)' = Seed(q)
             /\ run'[q].options = run[q].options
  BY <1>1 DEF WalletsLeft, Server, WalletOf, Seed
<1>2. WalletsAreThere'
  <2>1. "list_descriptors" \in WalletSteps
    BY DEF WalletSteps
  <2> QED BY <1>1, <2>1 DEF WInv, WalletsAreThere
<1>3. ImportsOfOneSeed'
  <2>1. {"import_receive", "import_change"} \subseteq WalletSteps
    BY DEF WalletSteps
  <2> QED BY <1>1, <2>1 DEF WInv, ImportsOfOneSeed, Importing, SameWallet
<1>4. WalletHasOneSeed'
  <2>1. "checked" \in WalletSteps
    BY DEF WalletSteps
  <2> QED BY <1>1, <2>1 DEF WInv, WalletHasOneSeed
<1> QED BY <1>2, <1>3, <1>4 DEF WInv

(* A step that leaves indexes and the commands that use them alone.        *)
IndexesLeft ==
  /\ files' = files
  /\ \A q \in Command : run'[q].at \in {"created", "index"} =>
       /\ run'[q].at = run[q].at /\ run'[q].options = run[q].options
       /\ run'[q].at = "index" => run'[q].flags = run[q].flags
       /\ run'[q].cookie = run[q].cookie \/ run'[q].cookie = Stale

LEMMA IndexesStay ==
  ASSUME FInv, TypeOK', IndexesLeft
  PROVE  FInv'
<1>1. IndexesAreHeldOnce'
  BY DEF FInv, IndexesLeft, IndexesAreHeldOnce, Holds
<1>2. CookiesAreGiven'
  BY NoneAssumption DEF FInv, IndexesLeft, CookiesAreGiven
<1>3. BlocksOfAnIndexAgree'
  BY DEF FInv, IndexesLeft, BlocksOfAnIndexAgree
<1> QED BY <1>1, <1>2, <1>3 DEF FInv

-----------------------------------------------------------------------------
(* Steps that leave both alone                                             *)

LEMMA StartKeeps ==
  ASSUME IInv, NEW p \in Command, Start(p)
  PROVE  IInv'
<1>1. PICK line \in CommandLines :
        run' = [run EXCEPT ![p] =
                 [at |-> IF line.command = "index" THEN "open" ELSE "connect",
                  command |-> line.command, options |-> line.options]]
  BY DEF Start
<1>2. TypeOK /\ UNCHANGED <<up, wallets, files>>
  BY DEF Start, node_vars, IInv, WInv
<1>3. line.command \in Commands /\ line.options \in Options
  BY StartupAssumption DEF Commands, Options
<1>4. [at |-> IF line.command = "index" THEN "open" ELSE "connect",
       command |-> line.command, options |-> line.options] \in RunState
  BY <1>3 DEF RunState
<1>5. TypeOK'
  BY <1>1, <1>2, <1>4 DEF TypeOK
<1>6. /\ run'[p].at \in {"open", "connect"}
      /\ \A q \in Command : q # p => run'[q] = run[q]
  BY <1>1, <1>2 DEF TypeOK
<1>7. WalletsLeft
  BY <1>2, <1>6 DEF WalletsLeft, WalletSteps
<1>8. IndexesLeft
  BY <1>2, <1>6 DEF IndexesLeft
<1> QED BY <1>5, <1>7, <1>8, WalletsStay, IndexesStay DEF IInv

(* A command that ends, for whatever reason.                               *)
LEMMA EndLeaves ==
  ASSUME IInv, NEW p \in Command, End(p), UNCHANGED <<up, wallets, files>>
  PROVE  IInv'
<1>1. /\ TypeOK /\ run' \in [Command -> RunState]
      /\ run'[p].at = "ended"
      /\ \A q \in Command : q # p => run'[q] = run[q]
  BY EndKeeps DEF IInv, WInv
<1>2. TypeOK'
  BY <1>1 DEF TypeOK
<1>3. WalletsLeft
  BY <1>1 DEF WalletsLeft, WalletSteps
<1>4. IndexesLeft
  BY <1>1 DEF IndexesLeft
<1> QED BY <1>2, <1>3, <1>4, WalletsStay, IndexesStay DEF IInv

LEMMA StopKeeps ==
  ASSUME IInv, NEW p \in Command, Stop(p)
  PROVE  IInv'
BY EndLeaves DEF Stop, node_vars

LEMMA NodeStartsKeeps ==
  ASSUME IInv, NEW n \in Port, NodeStarts(n)
  PROVE  IInv'
<1>1. UNCHANGED <<wallets, files, run>> /\ up' \subseteq Port /\ TypeOK
  BY DEF NodeStarts, IInv, WInv, TypeOK
<1>2. TypeOK'
  BY <1>1 DEF TypeOK
<1>3. WalletsLeft /\ IndexesLeft
  BY <1>1 DEF WalletsLeft, IndexesLeft
<1> QED BY <1>2, <1>3, WalletsStay, IndexesStay DEF IInv

(* A node that stops changes cookies.                                      *)
LEMMA NodeStopsKeeps ==
  ASSUME IInv, NEW n \in Port, NodeStops(n)
  PROVE  IInv'
<1>1. UNCHANGED <<wallets, files>> /\ up' \subseteq Port /\ TypeOK
  BY DEF NodeStops, IInv, WInv, TypeOK
<1>2. run' = [p \in Command |->
       IF /\ run[p].at \notin {"idle", "ended", "open", "connect"}
          /\ run[p].cookie = CookieOf(n)
       THEN [run[p] EXCEPT !.cookie = Stale] ELSE run[p]]
  BY DEF NodeStops
<1>3. ASSUME NEW p \in Command
      PROVE  /\ run'[p] \in RunState /\ run'[p].at = run[p].at
             /\ run'[p].at \in WalletSteps \cup {"created", "index"} =>
                  /\ run'[p].command = run[p].command
                  /\ run'[p].options = run[p].options
                  /\ run'[p].cookie = run[p].cookie \/ run'[p].cookie = Stale
             /\ run'[p].at = "index" => run'[p].flags = run[p].flags
  <2>1. CASE run'[p] = run[p]
    BY <1>1, <2>1 DEF TypeOK
  <2>2. CASE /\ run[p].at \notin {"idle", "ended", "open", "connect"}
             /\ run'[p] = [run[p] EXCEPT !.cookie = Stale]
    <3>1. Stale \in Cookie
      BY DEF Cookie
    <3>2. CASE run[p] \in OfWallet
      <4>1. run'[p] \in OfWallet
        BY <2>2, <3>1, <3>2 DEF OfWallet
      <4>2. run[p].at # "index"
        BY <3>2 DEF OfWallet, WalletSteps
      <4> QED BY <2>2, <3>2, <4>1, <4>2 DEF OfWallet, RunState
    <3>3. CASE run[p] \in [at : {"created"}, command : Commands, options : Options,
                           cookie : Cookie]
      BY <2>2, <3>1, <3>3 DEF RunState
    <3>4. CASE run[p] \in Indexing
      <4>1. run'[p] \in Indexing
        BY <2>2, <3>4, IndexingHas
      <4>2. PICK o \in Options, c \in Cookie, flags \in FlagSets :
              run[p] = OpenedIndex(o, c, flags)
        BY <3>4 DEF Indexing
      <4>3. /\ run'[p].at = run[p].at /\ run'[p].command = run[p].command
            /\ run'[p].options = run[p].options /\ run'[p].cookie = Stale
            /\ run'[p].flags = run[p].flags
        BY <2>2, <4>2 DEF OpenedIndex
      <4> QED BY <4>1, <4>3 DEF RunState
    <3>5. run[p] \in RunState
      BY <1>1 DEF TypeOK
    <3>6. run[p] \in OfWallet
            \cup [at : {"created"}, command : Commands, options : Options,
                  cookie : Cookie] \cup Indexing
      BY <2>2, <3>5 DEF RunState
    <3> QED BY <3>2, <3>3, <3>4, <3>6
  <2> QED BY <1>2, <2>1, <2>2
<1>4. TypeOK'
  BY <1>1, <1>2, <1>3 DEF TypeOK
<1>5. WalletsLeft /\ IndexesLeft
  BY <1>1, <1>3 DEF WalletsLeft, IndexesLeft
<1> QED BY <1>4, <1>5, WalletsStay, IndexesStay DEF IInv

LEMMA StutterKeeps ==
  ASSUME IInv, UNCHANGED vars
  PROVE  IInv'
<1>1. UNCHANGED <<up, wallets, files, run>> /\ TypeOK
  BY DEF vars, node_vars, IInv, WInv
<1>2. TypeOK'
  BY <1>1 DEF TypeOK
<1>3. WalletsLeft /\ IndexesLeft
  BY <1>1 DEF WalletsLeft, IndexesLeft
<1> QED BY <1>2, <1>3, WalletsStay, IndexesStay DEF IInv

-----------------------------------------------------------------------------
(* Steps of a wallet command                                               *)

(* A step of one wallet command is none of a command that indexes.         *)
LEMMA IndexesAside ==
  ASSUME IInv, NEW p \in Command, TypeOK', files' = files,
         run'[p].at \notin {"created", "index"},
         \A q \in Command : q # p => run'[q] = run[q]
  PROVE  FInv'
<1>1. IndexesLeft
  BY DEF IndexesLeft
<1> QED BY <1>1, IndexesStay DEF IInv

(* It is connected to a node that is there.                                *)
LEMMA ConnectKeeps ==
  ASSUME IInv, NEW p \in Command, Connect(p)
  PROVE  IInv'
<1>1. UNCHANGED <<up, wallets, files>> /\ TypeOK /\ run[p].at = "connect"
  BY DEF Connect, node_vars, IInv, WInv
<1>2. CASE End(p)
  BY <1>1, <1>2, EndLeaves
<1>3. CASE ~End(p)
  <2> DEFINE o == run[p].options
  <2> DEFINE r(at) == [at |-> at, command |-> run[p].command, options |-> o,
                       cookie |-> CookieFile(o)]
  <2>1. PICK at \in {"create_wallet", "load_wallet"} : run' = [run EXCEPT ![p] = r(at)]
    BY <1>3 DEF Connect
  <2>2. RpcUrl(o).port \in Port
    BY <1>1, <1>3 DEF Connect, TypeOK
  <2>3. run[p].command \in Commands /\ o \in Options
    BY <1>1, RunForms
  <2>4. CookieFile(o) \in Cookie
    BY <2>3, OptionsGiven
  <2>5. r(at) \in OfWallet
    BY <2>3, <2>4 DEF OfWallet, WalletSteps
  <2>6. /\ run' \in [Command -> RunState]
        /\ run'[p] = r(at) /\ \A q \in Command : q # p => run'[q] = run[q]
    BY <1>1, <2>1, <2>5 DEF TypeOK, RunState
  <2>7. TypeOK'
    BY <1>1, <2>6 DEF TypeOK
  <2>8. FInv'
    BY <1>1, <2>6, <2>7, IndexesAside
  <2>9. WalletsAreThere'
    <3>1. Server(p)' \in Port
      BY <2>2, <2>6 DEF Server
    <3>2. \A q \in Command : q # p => Server(q)' = Server(q) /\ WalletOf(q)' = WalletOf(q)
      BY <1>1, <2>6 DEF Server, WalletOf
    <3> QED BY <2>6, <3>1, <3>2 DEF IInv, WInv, WalletsAreThere
  <2>10. ASSUME NEW q \in Command, run'[q].at \notin {"create_wallet", "load_wallet"}
         PROVE  /\ q # p /\ run'[q] = run[q]
                /\ Server(q)' = Server(q) /\ WalletOf(q)' = WalletOf(q)
                /\ Seed(q)' = Seed(q)
    BY <1>1, <2>6, <2>10 DEF Server, WalletOf, Seed
  <2>11. ImportsOfOneSeed'
    BY <2>10 DEF IInv, WInv, ImportsOfOneSeed, Importing, SameWallet
  <2>12. WalletHasOneSeed'
    BY <2>10 DEF IInv, WInv, WalletHasOneSeed
  <2> QED BY <2>7, <2>8, <2>9, <2>11, <2>12 DEF IInv, WInv
<1> QED BY <1>2, <1>3

(* A step of a wallet command that goes on and changes no wallet.          *)
LEMMA WalletGoesOn ==
  ASSUME IInv, NEW p \in Command, run[p].at \in WalletSteps,
         NEW at \in {"list_descriptors", "checked"}, Go(p, at),
         UNCHANGED <<up, wallets, files>>,
         at = "list_descriptors" => WalletOf(p) # <<>>,
         at = "checked" => \E seed \in Seeds : \E keys \in Keys :
                             WalletOf(p) = <<Both(seed) \cup keys>>
  PROVE  IInv'
<1>1. at \in WalletSteps /\ TypeOK
  BY DEF WalletSteps, IInv, WInv
<1>2. /\ run' \in [Command -> RunState]
      /\ run'[p].at = at /\ run'[p].command = run[p].command
      /\ run'[p].options = run[p].options
      /\ \A q \in Command : q # p => run'[q] = run[q]
  BY <1>1, GoKeeps
<1>3. TypeOK'
  BY <1>1, <1>2 DEF TypeOK
<1>4. FInv'
  BY <1>2, <1>3, IndexesAside
<1>5. \A q \in Command : /\ Server(q)' = Server(q) /\ WalletOf(q)' = WalletOf(q)
                         /\ Seed(q)' = Seed(q)
                         /\ run'[q].options = run[q].options
  BY <1>2 DEF Server, WalletOf, Seed
<1>6. WalletsAreThere'
  BY <1>2, <1>5 DEF IInv, WInv, WalletsAreThere
<1>7. ImportsOfOneSeed'
  BY <1>2, <1>5 DEF IInv, WInv, ImportsOfOneSeed, Importing, SameWallet
<1>8. WalletHasOneSeed'
  <2> SUFFICES ASSUME NEW q \in Command, run'[q].at = "checked"
               PROVE  \E seed \in Seeds : \E keys \in Keys :
                        WalletOf(q)' = <<Both(seed) \cup keys>>
    BY DEF WalletHasOneSeed, Seeds, Keys, Both
  <2>1. CASE q = p
    BY <1>2, <1>5, <2>1
  <2>2. CASE q # p
    <3>1. run[q].at = "checked"
      BY <1>2, <2>2
    <3>2. \E seed \in Seeds : \E keys \in Keys :
            WalletOf(q) = <<Both(seed) \cup keys>>
      BY <3>1 DEF IInv, WInv, WalletHasOneSeed, Seeds, Keys, Both
    <3> QED BY <1>5, <3>2
  <2> QED BY <2>1, <2>2
<1> QED BY <1>3, <1>4, <1>6, <1>7, <1>8 DEF IInv, WInv

LEMMA LoadWalletKeeps ==
  ASSUME IInv, NEW p \in Command, LoadWallet(p)
  PROVE  IInv'
<1>1. /\ UNCHANGED <<up, wallets, files>>
      /\ run[p].at = "load_wallet" /\ run[p].at \in WalletSteps
  BY DEF LoadWallet, WalletSteps
<1>2. CASE End(p)
  BY <1>1, <1>2, EndLeaves
<1>3. CASE WalletOf(p) # <<>> /\ Go(p, "list_descriptors")
  BY <1>1, <1>3, WalletGoesOn
<1> QED BY <1>2, <1>3 DEF LoadWallet

(* The wallets of the node's own tools have three descriptors, of which    *)
(* two are of taproot and none is a recovery key.                          *)
LEMMA ForeignIsNotOrd == ~IsOrdWallet(Foreign)
<1> DEFINE a == Tr("core", FALSE)
<1> DEFINE b == Tr("core", TRUE)
<1> DEFINE c == [kind |-> "wpkh", seed |-> "core", internal |-> FALSE]
<1>1. Foreign = {a, b, c} /\ a # b /\ a # c /\ b # c
  BY DEF Foreign, Tr
<1>2. OfKind("rawtr", Foreign) = {}
  BY DEF OfKind, Foreign, Tr
<1> HIDE DEF a, b, c
<1>3. IsFiniteSet({a}) /\ Cardinality({a}) = 1
  BY FS_Singleton
<1>4. IsFiniteSet({a} \cup {b}) /\ Cardinality({a} \cup {b}) = 2
  BY <1>1, <1>3, FS_AddElement
<1>5. Cardinality(({a} \cup {b}) \cup {c}) = 3
  <2>1. c \notin {a} \cup {b}
    BY <1>1
  <2>2. Cardinality(({a} \cup {b}) \cup {c}) = Cardinality({a} \cup {b}) + 1
    BY <1>4, <2>1, FS_AddElement
  <2> QED BY <1>4, <2>2
<1>6. Foreign = ({a} \cup {b}) \cup {c}
  BY <1>1
<1>7. Cardinality({}) = 0
  BY FS_EmptySet
<1> QED BY <1>2, <1>5, <1>6, <1>7 DEF IsOrdWallet

(* A wallet with two descriptors of taproot has both of its seed.          *)
LEMMA OrdWalletHasBoth ==
  ASSUME NEW w \in Wallet, w # <<>>, IsOrdWallet(w[1])
  PROVE  \E seed \in Seeds : \E keys \in Keys : w = <<Both(seed) \cup keys>>
<1>1. w # <<Foreign>>
  BY ForeignIsNotOrd
<1>2. PICK seed \in Seeds : w \in WalletOfSeed(seed)
  BY <1>1 DEF Wallet
<1>3. PICK half \in SUBSET Both(seed), keys \in Keys : w = <<half \cup keys>>
  BY <1>2 DEF WalletOfSeed
<1>4. OfKind("tr", half \cup keys) = half
  <2>1. \A x \in half : x.kind = "tr"
    BY DEF Both, Tr
  <2>2. \A x \in keys : x.kind = "rawtr"
    BY DEF Keys
  <2> QED BY <2>1, <2>2 DEF OfKind
<1>5. Cardinality(half) = 2
  BY <1>3, <1>4 DEF IsOrdWallet
<1> DEFINE a == Tr(seed, FALSE)
<1> DEFINE b == Tr(seed, TRUE)
<1>6. half \subseteq {a, b} /\ Both(seed) = {a, b}
  BY DEF Both
<1> HIDE DEF a, b
<1>7. Cardinality({}) = 0 /\ Cardinality({a}) = 1 /\ Cardinality({b}) = 1
  BY FS_EmptySet, FS_Singleton
<1>8. ASSUME NEW S, Cardinality(S) < 2
      PROVE  half # S
  BY <1>5, <1>8
<1>9. half # {} /\ half # {a} /\ half # {b}
  <2>1. Cardinality({}) < 2 /\ Cardinality({a}) < 2 /\ Cardinality({b}) < 2
    BY <1>7
  <2> QED BY <1>8, <2>1
<1>10. half = {a, b}
  BY <1>6, <1>9
<1> QED BY <1>3, <1>6, <1>10

LEMMA ListDescriptorsKeeps ==
  ASSUME IInv, NEW p \in Command, ListDescriptors(p)
  PROVE  IInv'
<1>1. /\ UNCHANGED <<up, wallets, files>>
      /\ run[p].at = "list_descriptors" /\ run[p].at \in WalletSteps
  BY DEF ListDescriptors, WalletSteps, node_vars
<1>2. CASE End(p)
  BY <1>1, <1>2, EndLeaves
<1>3. CASE IsOrdWallet(WalletOf(p)[1]) /\ Go(p, "checked")
  <2>1. WalletOf(p) # <<>> /\ Server(p) \in Port
    BY <1>1 DEF IInv, WInv, WalletsAreThere
  <2>2. run[p].options.wallet \in Name
    BY <1>1, RunForms, OptionsGiven DEF IInv, WInv, OfWallet
  <2>3. WalletOf(p) \in Wallet
    BY <2>1, <2>2 DEF IInv, WInv, TypeOK, WalletOf
  <2>4. \E seed \in Seeds : \E keys \in Keys : WalletOf(p) = <<Both(seed) \cup keys>>
    BY <1>3, <2>1, <2>3, OrdWalletHasBoth
  <2> QED BY <1>1, <1>3, <2>4, WalletGoesOn
<1> QED BY <1>2, <1>3 DEF ListDescriptors

-----------------------------------------------------------------------------
(* Steps that change a wallet                                              *)

(* A wallet command's wallet.                                              *)
LEMMA WalletIsTyped ==
  ASSUME IInv, NEW p \in Command, run[p].at \in WalletSteps
  PROVE  /\ Server(p) \in Port /\ run[p].options.wallet \in Name
         /\ WalletOf(p) \in Wallet
<1>1. run[p].options \in Options
  BY RunForms DEF IInv, WInv, OfWallet
<1>2. run[p].options.wallet \in Name
  BY <1>1, OptionsGiven
<1>3. Server(p) \in Port
  BY DEF IInv, WInv, WalletsAreThere
<1> QED BY <1>2, <1>3 DEF IInv, WInv, TypeOK, WalletOf

(* Setting a wallet sets it for the commands that use it, and no other.    *)
LEMMA SetWalletSets ==
  ASSUME IInv, NEW p \in Command, run[p].at \in WalletSteps,
         NEW D, <<D>> \in Wallet, SetWallet(p, D),
         \A q \in Command : q # p => run'[q] = run[q],
         run'[p].options = run[p].options
  PROVE  /\ wallets' \in [Port -> [Name -> Wallet]]
         /\ \A q \in Command : run[q].at \in WalletSteps =>
              WalletOf(q)' = IF SameWallet(p, q) THEN <<D>> ELSE WalletOf(q)
<1> DEFINE n == Server(p)
<1> DEFINE m == run[p].options.wallet
<1>1. n \in Port /\ m \in Name /\ wallets \in [Port -> [Name -> Wallet]]
  BY WalletIsTyped DEF IInv, WInv, TypeOK
<1>2. wallets' = [wallets EXCEPT ![n] = [wallets[n] EXCEPT ![m] = <<D>>]]
  BY DEF SetWallet
<1>3. wallets' \in [Port -> [Name -> Wallet]]
  BY <1>1, <1>2
<1>4. \A i \in Port, j \in Name :
        wallets'[i][j] = IF i = n /\ j = m THEN <<D>> ELSE wallets[i][j]
  BY <1>1, <1>2
<1>5. ASSUME NEW q \in Command, run[q].at \in WalletSteps
      PROVE  WalletOf(q)' = IF SameWallet(p, q) THEN <<D>> ELSE WalletOf(q)
  <2>1. Server(q) \in Port /\ run[q].options.wallet \in Name
    BY <1>5, WalletIsTyped
  <2>2. run'[q].options = run[q].options
    OBVIOUS
  <2>3. WalletOf(q)' = wallets'[Server(q)][run[q].options.wallet]
    BY <2>2 DEF WalletOf, Server
  <2>4. WalletOf(q) = wallets[Server(q)][run[q].options.wallet]
    BY DEF WalletOf
  <2>5. SameWallet(p, q) <=> Server(q) = n /\ run[q].options.wallet = m
    BY DEF SameWallet
  <2> HIDE DEF n, m
  <2> QED BY <1>4, <2>1, <2>3, <2>4, <2>5
<1> QED BY <1>3, <1>5

(* A wallet is made for one command, which fills it.                       *)
LEMMA CreateWalletKeeps ==
  ASSUME IInv, NEW p \in Command, CreateWallet(p)
  PROVE  IInv'
<1>1. /\ TypeOK /\ UNCHANGED <<up, files>>
      /\ run[p].at = "create_wallet" /\ run[p].at \in WalletSteps
  BY DEF CreateWallet, WalletSteps, IInv, WInv
<1>2. CASE WalletOf(p) # <<>>
  BY <1>1, <1>2, EndLeaves DEF CreateWallet
<1>3. CASE WalletOf(p) = <<>>
  <2>1. SetWallet(p, {}) /\ Go(p, "import_receive")
    BY <1>3 DEF CreateWallet
  <2>2. /\ run' \in [Command -> RunState]
        /\ run'[p].at = "import_receive" /\ run'[p].command = run[p].command
        /\ run'[p].options = run[p].options
        /\ \A q \in Command : q # p => run'[q] = run[q]
    BY <1>1, <2>1, GoKeeps DEF WalletSteps
  <2>3. \A seed : <<{}>> \in WalletOfSeed(seed)
    <3>1. {} \in Keys
      BY DEF Keys
    <3>2. \A seed : {} \in SUBSET Both(seed)
      OBVIOUS
    <3>3. {} = {} \cup {}
      OBVIOUS
    <3> QED BY <3>1, <3>2, <3>3 DEF WalletOfSeed
  <2>4. <<{}>> \in Wallet
    BY <2>3 DEF Wallet, Seeds
  <2>5. /\ wallets' \in [Port -> [Name -> Wallet]]
        /\ \A q \in Command : run[q].at \in WalletSteps =>
             WalletOf(q)' = IF SameWallet(p, q) THEN <<{}>> ELSE WalletOf(q)
    BY <1>1, <2>1, <2>2, <2>4, SetWalletSets
  <2>6. TypeOK'
    BY <1>1, <2>2, <2>5 DEF TypeOK
  <2>7. FInv'
    BY <1>1, <2>2, <2>6, IndexesAside
  <2>8. \A q \in Command : SameWallet(p, q) => WalletOf(q) = <<>>
    BY <1>3 DEF SameWallet, WalletOf
  <2>9. \A q \in Command : /\ Server(q)' = Server(q) /\ Seed(q)' = Seed(q)
                           /\ run'[q].options = run[q].options
    BY <2>2 DEF Server, Seed
  <2>10. SameWallet(p, p)
    BY DEF SameWallet
  <2>11. WalletsAreThere'
    <3>1. {"list_descriptors", "import_receive"} \subseteq WalletSteps
      BY DEF WalletSteps
    <3> SUFFICES ASSUME NEW q \in Command
                 PROVE  /\ run'[q].at \in WalletSteps => Server(q)' \in Port
                        /\ run'[q].at = "list_descriptors" => WalletOf(q)' # <<>>
      BY DEF WalletsAreThere
    <3>2. CASE q = p
      BY <1>1, <2>2, <2>9, <3>2 DEF IInv, WInv, WalletsAreThere
    <3>3. CASE q # p
      <4>1. run'[q].at = run[q].at /\ <<{}>> # <<>>
        BY <2>2, <3>3
      <4>2. /\ run[q].at \in WalletSteps => Server(q) \in Port
            /\ run[q].at = "list_descriptors" => WalletOf(q) # <<>>
        BY DEF IInv, WInv, WalletsAreThere
      <4> QED BY <2>5, <2>9, <3>1, <4>1, <4>2
    <3> QED BY <3>2, <3>3
  <2>12. ASSUME NEW q \in Command, q # p, Importing(q)
         PROVE  ~SameWallet(p, q) /\ WalletOf(q)' = WalletOf(q)
    <3>1. WalletOf(q) \in WalletOfSeed(Seed(q)) /\ run[q].at \in WalletSteps
      BY <2>12 DEF IInv, WInv, ImportsOfOneSeed, Importing, WalletSteps
    <3>2. WalletOf(q) # <<>>
      BY <3>1 DEF WalletOfSeed
    <3> QED BY <2>5, <2>8, <3>1, <3>2
  <2>13. ImportsOfOneSeed'
    <3>1. \A q \in Command : q # p => (Importing(q)' <=> Importing(q))
      BY <2>2 DEF Importing
    <3>2. \A q, r \in Command : SameWallet(q, r)' <=> SameWallet(q, r)
      BY <2>9 DEF SameWallet
    <3> SUFFICES ASSUME NEW q \in Command, Importing(q)'
                 PROVE  /\ WalletOf(q)' \in WalletOfSeed(Seed(q))
                        /\ \A r \in Command :
                             Importing(r)' /\ SameWallet(q, r) => q = r
      BY <2>9, <3>2 DEF ImportsOfOneSeed
    <3>3. CASE q = p
      <4>1. WalletOf(p)' = <<{}>>
        BY <1>1, <2>5, <2>10
      <4> QED BY <2>3, <2>12, <3>1, <3>3, <4>1
    <3>4. CASE q # p
      <4>1. Importing(q)
        BY <3>1, <3>4
      <4>2. WalletOf(q)' \in WalletOfSeed(Seed(q)) /\ ~SameWallet(p, q)
        BY <2>12, <3>4, <4>1 DEF IInv, WInv, ImportsOfOneSeed
      <4>3. ~SameWallet(q, p)
        BY <4>2 DEF SameWallet
      <4> QED BY <3>1, <4>1, <4>2, <4>3 DEF IInv, WInv, ImportsOfOneSeed
    <3> QED BY <3>3, <3>4
  <2>14. WalletHasOneSeed'
    <3> SUFFICES ASSUME NEW q \in Command, run'[q].at = "checked"
                 PROVE  \E seed \in Seeds : \E keys \in Keys :
                          WalletOf(q)' = <<Both(seed) \cup keys>>
      BY DEF WalletHasOneSeed, Seeds, Keys, Both
    <3>1. run[q].at = "checked" /\ run[q].at \in WalletSteps
      BY <2>2 DEF WalletSteps
    <3>2. PICK seed \in Seeds, keys \in Keys : WalletOf(q) = <<Both(seed) \cup keys>>
      BY <3>1 DEF IInv, WInv, WalletHasOneSeed, Seeds, Keys, Both
    <3>3. WalletOf(q)' = WalletOf(q)
      BY <2>5, <2>8, <3>1, <3>2
    <3> QED BY <3>2, <3>3
  <2> QED BY <2>6, <2>7, <2>11, <2>13, <2>14 DEF IInv, WInv
<1> QED BY <1>2, <1>3

(* A step that adds descriptors to a wallet that its command fills or uses.*)
LEMMA AddingKeeps ==
  ASSUME IInv, TypeOK', FInv', NEW p \in Command, run[p].at \in WalletSteps,
         \A q \in Command : /\ run'[q].options = run[q].options
                            /\ run'[q].command = run[q].command,
         \A q \in Command : Importing(q)' => Importing(q),
         \A q \in Command : run'[q].at \in WalletSteps => run[q].at \in WalletSteps,
         \A q \in Command : run'[q].at = run[q].at
           \/ run'[q].at \notin {"list_descriptors", "checked"},
         NEW D,
         \A q \in Command : run[q].at \in WalletSteps =>
           WalletOf(q)' = IF SameWallet(p, q) THEN <<D>> ELSE WalletOf(q),
         \A q \in Command : Importing(q) /\ SameWallet(p, q) =>
           <<D>> \in WalletOfSeed(Seed(q)),
         \A q \in Command : run[q].at = "checked" /\ SameWallet(p, q) =>
           \E seed \in Seeds : \E keys \in Keys : <<D>> = <<Both(seed) \cup keys>>
  PROVE  IInv'
<1>1. \A q \in Command : Server(q)' = Server(q) /\ Seed(q)' = Seed(q)
  BY DEF Server, Seed
<1>2. WalletsAreThere'
  <2> SUFFICES ASSUME NEW q \in Command
               PROVE  /\ run'[q].at \in WalletSteps => Server(q)' \in Port
                      /\ run'[q].at = "list_descriptors" => WalletOf(q)' # <<>>
    BY DEF WalletsAreThere
  <2>1. run'[q].at \in WalletSteps => Server(q)' \in Port
    BY <1>1 DEF IInv, WInv, WalletsAreThere
  <2>2. ASSUME run'[q].at = "list_descriptors" PROVE WalletOf(q)' # <<>>
    <3>1. run[q].at = "list_descriptors" /\ run[q].at \in WalletSteps
      BY <2>2 DEF WalletSteps
    <3>2. WalletOf(q) # <<>>
      BY <3>1 DEF IInv, WInv, WalletsAreThere
    <3> QED BY <3>1, <3>2
  <2> QED BY <2>1, <2>2
<1>3. ImportsOfOneSeed'
  <2>1. \A q, r \in Command : SameWallet(q, r)' <=> SameWallet(q, r)
    BY <1>1 DEF SameWallet
  <2> SUFFICES ASSUME NEW q \in Command, Importing(q)
               PROVE  /\ WalletOf(q)' \in WalletOfSeed(Seed(q))
                      /\ \A r \in Command : Importing(r) /\ SameWallet(q, r) => q = r
    BY <1>1, <2>1 DEF ImportsOfOneSeed
  <2>2. run[q].at \in WalletSteps /\ WalletOf(q) \in WalletOfSeed(Seed(q))
    BY DEF IInv, WInv, ImportsOfOneSeed, Importing, WalletSteps
  <2>3. WalletOf(q)' \in WalletOfSeed(Seed(q))
    BY <2>2
  <2> QED BY <2>3 DEF IInv, WInv, ImportsOfOneSeed
<1>4. WalletHasOneSeed'
  <2> SUFFICES ASSUME NEW q \in Command, run'[q].at = "checked"
               PROVE  \E seed \in Seeds : \E keys \in Keys :
                        WalletOf(q)' = <<Both(seed) \cup keys>>
    BY DEF WalletHasOneSeed, Seeds, Keys, Both
  <2>1. run[q].at = "checked" /\ run[q].at \in WalletSteps
    BY DEF WalletSteps
  <2>2. \E seed \in Seeds : \E keys \in Keys : WalletOf(q) = <<Both(seed) \cup keys>>
    BY <2>1 DEF IInv, WInv, WalletHasOneSeed, Seeds, Keys, Both
  <2> QED BY <2>1, <2>2
<1> QED BY <1>2, <1>3, <1>4 DEF IInv, WInv, FInv

(* A recovery key is added to a wallet that was checked.                   *)
LEMMA BackupRecoveryKeyKeeps ==
  ASSUME IInv, NEW p \in Command, BackupRecoveryKey(p)
  PROVE  IInv'
<1> DEFINE key == [kind |-> "rawtr", seed |-> p, internal |-> FALSE]
<1> DEFINE D == WalletOf(p)[1] \cup {key}
<1>1. /\ TypeOK /\ UNCHANGED <<up, files, run>> /\ SetWallet(p, D)
      /\ run[p].at = "checked" /\ run[p].at \in WalletSteps
  BY DEF BackupRecoveryKey, WalletSteps, IInv, WInv
<1>2. PICK seed \in Seeds, keys \in Keys : WalletOf(p) = <<Both(seed) \cup keys>>
  BY <1>1 DEF IInv, WInv, WalletHasOneSeed, Seeds, Keys, Both
<1>3. ASSUME NEW s, NEW half \in SUBSET Both(s), NEW ks \in Keys
      PROVE  /\ ks \cup {key} \in Keys
             /\ <<half \cup (ks \cup {key})>> \in WalletOfSeed(s)
  <2>2. key \in [kind : {"rawtr"}, seed : Command, internal : {FALSE}]
    OBVIOUS
  <2> HIDE DEF key
  <2>1. ks \cup {key} \in Keys
    BY <2>2 DEF Keys
  <2> QED BY <2>1 DEF WalletOfSeed
<1>4. D = Both(seed) \cup (keys \cup {key})
  BY <1>2
<1>5. Both(seed) \in SUBSET Both(seed)
  OBVIOUS
<1>6. keys \cup {key} \in Keys /\ <<D>> \in WalletOfSeed(seed)
  BY <1>3, <1>4, <1>5
<1>7. <<D>> \in Wallet
  BY <1>6 DEF Wallet
<1> HIDE DEF D
<1>8. /\ wallets' \in [Port -> [Name -> Wallet]]
      /\ \A q \in Command : run[q].at \in WalletSteps =>
           WalletOf(q)' = IF SameWallet(p, q) THEN <<D>> ELSE WalletOf(q)
  BY <1>1, <1>7, SetWalletSets
<1>9. TypeOK'
  BY <1>1, <1>8 DEF TypeOK
<1>10. FInv'
  BY <1>1, <1>9, IndexesAside
<1>11. ASSUME NEW q \in Command, Importing(q), SameWallet(p, q)
       PROVE  <<D>> \in WalletOfSeed(Seed(q))
  <2>1. WalletOf(q) = WalletOf(p)
    BY <1>11 DEF SameWallet, WalletOf
  <2>2. WalletOf(p) \in WalletOfSeed(Seed(q))
    BY <1>11, <2>1 DEF IInv, WInv, ImportsOfOneSeed
  <2>3. PICK half \in SUBSET Both(Seed(q)), ks \in Keys : WalletOf(p) = <<half \cup ks>>
    BY <2>2 DEF WalletOfSeed
  <2>4. D = half \cup (ks \cup {key})
    BY <2>3 DEF D
  <2> QED BY <1>3, <2>4
<1>12. \E s \in Seeds : \E ks \in Keys : <<D>> = <<Both(s) \cup ks>>
  BY <1>4, <1>6
<1>13. \A q \in Command : Importing(q)' => Importing(q)
  BY <1>1 DEF Importing
<1> HIDE DEF key
<1> QED BY <1>1, <1>8, <1>9, <1>10, <1>11, <1>12, <1>13, AddingKeeps

(* An import adds a descriptor of the command's seed, or none.             *)
LEMMA ImportKeeps ==
  ASSUME IInv, NEW p \in Command, NEW at \in {"import_receive", "import_change"},
         NEW change \in BOOLEAN, NEW next \in {"import_change", "created_wallet"},
         Import(p, at, change, next)
  PROVE  IInv'
<1> DEFINE tr == Tr(Seed(p), change)
<1>1. /\ TypeOK /\ UNCHANGED <<up, files>> /\ Go(p, next)
      /\ run[p].at = at /\ run[p].at \in WalletSteps /\ next \in WalletSteps
      /\ Importing(p)
  BY DEF Import, WalletSteps, IInv, WInv, Importing
<1>2. /\ run' \in [Command -> RunState]
      /\ run'[p].at = next /\ run'[p].command = run[p].command
      /\ run'[p].options = run[p].options
      /\ \A q \in Command : q # p => run'[q] = run[q]
  BY <1>1, GoKeeps
<1>3. WalletOf(p) \in WalletOfSeed(Seed(p)) /\ Seed(p) \in Seeds
  BY <1>1 DEF IInv, WInv, ImportsOfOneSeed, Seed, Seeds
<1>4. PICK half \in SUBSET Both(Seed(p)), keys \in Keys : WalletOf(p) = <<half \cup keys>>
  BY <1>3 DEF WalletOfSeed
<1>5. tr \in Both(Seed(p))
  BY DEF Both
<1> HIDE DEF tr
<1>6. \E D : /\ D = half \cup keys \/ D = (half \cup {tr}) \cup keys
             /\ (wallets' = wallets /\ WalletOf(p) = <<D>>) \/ SetWallet(p, D)
  <2>1. CASE wallets' = wallets
    BY <1>4, <2>1
  <2>2. CASE SetWallet(p, WalletOf(p)[1] \cup {tr})
    <3>1. WalletOf(p)[1] \cup {tr} = (half \cup {tr}) \cup keys
      BY <1>4
    <3> QED BY <2>2, <3>1
  <2> QED BY <2>1, <2>2 DEF Import, tr
<1>7. PICK D : /\ D = half \cup keys \/ D = (half \cup {tr}) \cup keys
               /\ (wallets' = wallets /\ WalletOf(p) = <<D>>) \/ SetWallet(p, D)
  BY <1>6
<1>8. PICK now \in SUBSET Both(Seed(p)) : D = now \cup keys /\ half \subseteq now
  <2>1. half \cup {tr} \in SUBSET Both(Seed(p))
    BY <1>5
  <2> QED BY <1>7, <2>1
<1>9. <<D>> \in WalletOfSeed(Seed(p)) /\ <<D>> \in Wallet
  BY <1>3, <1>8 DEF WalletOfSeed, Wallet
<1>10. /\ wallets' \in [Port -> [Name -> Wallet]]
       /\ \A q \in Command : run[q].at \in WalletSteps =>
            WalletOf(q)' = IF SameWallet(p, q) THEN <<D>> ELSE WalletOf(q)
  <2>1. CASE SetWallet(p, D)
    BY <1>1, <1>2, <1>9, <2>1, SetWalletSets
  <2>2. CASE wallets' = wallets /\ WalletOf(p) = <<D>>
    <3>1. \A q \in Command : run'[q].options = run[q].options
      BY <1>2
    <3>2. \A q \in Command : WalletOf(q)' = WalletOf(q)
      BY <2>2, <3>1 DEF WalletOf, Server
    <3>3. \A q \in Command : SameWallet(p, q) => WalletOf(q) = WalletOf(p)
      BY DEF SameWallet, WalletOf
    <3> QED BY <1>1, <2>2, <3>2, <3>3 DEF TypeOK
  <2> QED BY <1>7, <2>1, <2>2
<1>11. TypeOK'
  BY <1>1, <1>2, <1>10 DEF TypeOK
<1>12. FInv'
  BY <1>1, <1>2, <1>11, IndexesAside
<1>13. ASSUME NEW q \in Command, Importing(q), SameWallet(p, q)
       PROVE  <<D>> \in WalletOfSeed(Seed(q))
  <2>1. q = p
    BY <1>1, <1>13 DEF IInv, WInv, ImportsOfOneSeed
  <2> QED BY <1>9, <2>1
<1>14. ASSUME NEW q \in Command, run[q].at = "checked", SameWallet(p, q)
       PROVE  \E seed \in Seeds : \E ks \in Keys : <<D>> = <<Both(seed) \cup ks>>
  <2>1. WalletOf(q) = WalletOf(p)
    BY <1>14 DEF SameWallet, WalletOf
  <2>2. PICK seed \in Seeds, ks \in Keys : WalletOf(p) = <<Both(seed) \cup ks>>
    BY <1>14, <2>1 DEF IInv, WInv, WalletHasOneSeed, Seeds, Keys, Both
  <2>3. Both(seed) \cup ks = half \cup keys
    BY <1>4, <2>2
  <2>4. Both(seed) \subseteq half
    <3>1. \A x \in Both(seed) : x.kind = "tr"
      BY DEF Both, Tr
    <3>2. \A x \in keys : x.kind = "rawtr"
      BY DEF Keys
    <3> QED BY <2>3, <3>1, <3>2
  <2>5. Tr(seed, FALSE) \in Both(Seed(p)) /\ Both(seed) \subseteq Both(Seed(p))
    BY <2>4 DEF Both
  <2>6. seed = Seed(p)
    BY <2>5 DEF Both, Tr
  <2>7. now = Both(seed)
    BY <1>8, <2>4, <2>6
  <2> QED BY <1>8, <2>2, <2>7
<1>15. \A q \in Command : Importing(q)' => Importing(q)
  BY <1>1, <1>2 DEF Importing
<1>16. \A q \in Command : /\ run'[q].options = run[q].options
                          /\ run'[q].command = run[q].command
                          /\ run'[q].at \in WalletSteps => run[q].at \in WalletSteps
  BY <1>1, <1>2
<1>17. \A q \in Command : run'[q].at = run[q].at
                           \/ run'[q].at \notin {"list_descriptors", "checked"}
  BY <1>2
<1> QED BY <1>1, <1>10, <1>11, <1>12, <1>13, <1>14, <1>15, <1>16, <1>17, AddingKeeps

-----------------------------------------------------------------------------
(* Steps of a command that indexes                                         *)

(* Such a step is none of a command that uses a wallet.                    *)
LEMMA WalletsAside ==
  ASSUME IInv, NEW p \in Command, TypeOK', wallets' = wallets,
         run'[p].at \notin WalletSteps,
         \A q \in Command : q # p => run'[q] = run[q]
  PROVE  WInv'
<1>1. WalletsLeft
  BY DEF WalletsLeft
<1> QED BY <1>1, WalletsStay DEF IInv

(* A command that opens an index has it for itself.                        *)
LEMMA OpenKeeps ==
  ASSUME IInv, NEW p \in Command, Open(p)
  PROVE  IInv'
<1> DEFINE o == run[p].options
<1> DEFINE f == IndexPath(o)
<1> DEFINE cookie == IF CookieExists(o) THEN CookieFile(o) ELSE None
<1>1. /\ TypeOK /\ UNCHANGED <<up, wallets>> /\ run[p].at = "open"
  BY DEF Open, node_vars, IInv, WInv
<1>2. o \in Options /\ run[p].command \in Commands
  BY <1>1, RunForms
<1>3. f \in Path /\ CookieFile(o) \in Cookie
  BY <1>2, OptionsGiven
<1>4. cookie \in Cookie
  BY <1>3 DEF Cookie
<1>5. CASE End(p) /\ files' = files
  BY <1>1, <1>5, EndLeaves
<1>6. ASSUME NEW r \in RunState, run' = [run EXCEPT ![p] = r],
             r.at \in {"created", "index"}, r.options = o, r.cookie = cookie,
             cookie # None \/ RpcUrl(o).parses,
             \A q \in Command : ~Holds(q, f),
             files' \in [Path -> File],
             \A g \in Path : g # f => files'[g] = files[g],
             r.at = "index" => files'[f].is = "index" /\ files'[f].flags = r.flags,
             files'[f] = files[f] \/ files'[f].is # "index"
      PROVE  IInv'
  <2>1. /\ run'[p] = r
        /\ \A q \in Command : q # p => run'[q] = run[q]
    BY <1>1, <1>6 DEF TypeOK
  <2>2. TypeOK'
    BY <1>1, <1>6 DEF TypeOK
  <2>3. run'[p].at \notin WalletSteps
    BY <1>6, <2>1 DEF WalletSteps
  <2>4. WInv'
    BY <1>1, <2>1, <2>2, <2>3, WalletsAside
  <2>5. \A q \in Command : \A g : q # p => (Holds(q, g)' <=> Holds(q, g))
    BY <2>1 DEF Holds
  <2>6. \A g : Holds(p, g)' => g = f
    BY <1>6, <2>1 DEF Holds
  <2>7. IndexesAreHeldOnce'
    <3>1. \A q, t \in Command, g \in Path : Holds(q, g)' /\ Holds(t, g)' => q = t
      <4> SUFFICES ASSUME NEW q \in Command, NEW t \in Command, NEW g \in Path,
                          Holds(q, g)', Holds(t, g)', q # t
                   PROVE  FALSE
        OBVIOUS
      <4>1. CASE q = p
        BY <1>6, <2>5, <2>6, <4>1
      <4>2. CASE t = p
        BY <1>6, <2>5, <2>6, <4>2
      <4>3. CASE q # p /\ t # p
        BY <2>5, <4>3 DEF IInv, FInv, IndexesAreHeldOnce
      <4> QED BY <4>1, <4>2, <4>3
    <3>2. ASSUME NEW q \in Command, run'[q].at = "index"
          PROVE  /\ files'[IndexPath(run'[q].options)].is = "index"
                 /\ files'[IndexPath(run'[q].options)].flags = run'[q].flags
      <4>1. CASE q = p
        BY <1>6, <2>1, <3>2, <4>1
      <4>2. CASE q # p
        <5>1. run[q].at = "index" /\ run'[q] = run[q]
          BY <2>1, <3>2, <4>2
        <5>2. run[q].options \in Options
          BY <1>1, <5>1, RunForms, IndexingHas
        <5>3. IndexPath(run[q].options) \in Path /\ IndexPath(run[q].options) # f
          BY <1>6, <5>1, <5>2, OptionsGiven DEF Holds
        <5>4. /\ files[IndexPath(run[q].options)].is = "index"
              /\ files[IndexPath(run[q].options)].flags = run[q].flags
          BY <5>1 DEF IInv, FInv, IndexesAreHeldOnce
        <5> QED BY <1>6, <5>1, <5>3, <5>4
      <4> QED BY <4>1, <4>2
    <3> QED BY <3>1, <3>2 DEF IndexesAreHeldOnce
  <2>8. CookiesAreGiven'
    <3> SUFFICES ASSUME NEW q \in Command, run'[q].at \in {"created", "index"},
                        run'[q].options.rpc_url = None
                 PROVE  run'[q].cookie \in {CookieFile(run'[q].options), Stale} \ {None}
      BY DEF CookiesAreGiven
    <3>1. CASE q = p
      BY <1>6, <2>1, <3>1 DEF RpcUrl
    <3>2. CASE q # p
      BY <2>1, <3>2 DEF IInv, FInv, CookiesAreGiven
    <3> QED BY <3>1, <3>2
  <2>9. BlocksOfAnIndexAgree'
    <3>1. \A g \in Path : files'[g].is = "index" => files'[g] = files[g]
      BY <1>6
    <3> QED BY <3>1 DEF IInv, FInv, BlocksOfAnIndexAgree
  <2> QED BY <2>2, <2>4, <2>7, <2>8, <2>9 DEF IInv, FInv
<1>7. CASE /\ cookie # None \/ RpcUrl(o).parses
           /\ \A q \in Command : ~Holds(q, f)
           /\ files' = [files EXCEPT ![f] = Empty]
           /\ run' = [run EXCEPT ![p] =
                [at |-> "created", command |-> "index", options |-> o, cookie |-> cookie]]
  <2> DEFINE r == [at |-> "created", command |-> "index", options |-> o, cookie |-> cookie]
  <2>1. r \in RunState
    BY <1>2, <1>4 DEF RunState, Commands
  <2>2. /\ files' \in [Path -> File] /\ files'[f].is # "index"
        /\ \A g \in Path : g # f => files'[g] = files[g]
    BY <1>1, <1>3, <1>7 DEF TypeOK, File, Empty
  <2>3. r.at = "created" /\ r.options = o /\ r.cookie = cookie
    OBVIOUS
  <2> HIDE DEF f, cookie, o, r
  <2> QED BY <1>6, <1>7, <2>1, <2>2, <2>3 DEF r
<1>8. CASE /\ cookie # None \/ RpcUrl(o).parses
           /\ \A q \in Command : ~Holds(q, f)
           /\ files[f].is = "index"
           /\ run' = [run EXCEPT ![p] =
                OpenedIndex(o, cookie, FlagsOfExisting(o, files[f]))]
           /\ files' = files
  <2> DEFINE flags == FlagsOfExisting(o, files[f])
  <2> DEFINE r == OpenedIndex(o, cookie, flags)
  <2>1. files[f].flags \in FlagSets /\ flags = files[f].flags
    <3>1. files[f] \in File
      BY <1>1, <1>3 DEF TypeOK
    <3> QED BY <1>8, <3>1 DEF File, Absent, Empty, Old, FlagsOfExisting
  <2>2. r \in Indexing /\ r \in RunState
    BY <1>2, <1>4, <2>1 DEF Indexing, RunState
  <2>3. r.at = "index" /\ r.options = o /\ r.cookie = cookie /\ r.flags = flags
    BY DEF OpenedIndex
  <2>4. files' \in [Path -> File]
    BY <1>1, <1>8 DEF TypeOK
  <2> HIDE DEF f, cookie, o, r, flags
  <2> QED BY <1>6, <1>8, <2>1, <2>2, <2>3, <2>4 DEF r, flags
<1> QED BY <1>5, <1>7, <1>8 DEF Open

(* A new index has the flags of the command that builds it, and no blocks. *)
LEMMA BuildKeeps ==
  ASSUME IInv, NEW p \in Command, Build(p)
  PROVE  IInv'
<1> DEFINE o == run[p].options
<1> DEFINE f == IndexPath(o)
<1> DEFINE flags == FlagsOf(o)
<1> DEFINE r == OpenedIndex(o, run[p].cookie, flags)
<1>1. /\ TypeOK /\ UNCHANGED <<up, wallets>> /\ run[p].at = "created"
      /\ files' = [files EXCEPT ![f] = Index(flags, <<>>)]
      /\ run' = [run EXCEPT ![p] = r]
  BY DEF Build, node_vars, IInv, WInv
<1>2. o \in Options /\ run[p].cookie \in Cookie
  BY <1>1, RunForms
<1>3. f \in Path /\ flags \in FlagSets
  BY <1>2, OptionsGiven
<1>4. r \in Indexing /\ r \in RunState
  BY <1>2, <1>3 DEF Indexing, RunState
<1>5. /\ r.at = "index" /\ r.options = o /\ r.cookie = run[p].cookie
      /\ r.flags = flags
  BY DEF OpenedIndex
<1>6. <<>> \in Seq(Block)
  BY EmptySeq
<1>7. Index(flags, <<>>) \in File
  BY <1>3, <1>6 DEF File, Index
<1>8. Holds(p, f)
  BY <1>1 DEF Holds
<1> HIDE DEF r, f, flags
<1>9. /\ run'[p] = r /\ \A q \in Command : q # p => run'[q] = run[q]
      /\ files'[f] = Index(flags, <<>>)
      /\ \A g \in Path : g # f => files'[g] = files[g]
  BY <1>1, <1>3 DEF TypeOK
<1>10. TypeOK'
  BY <1>1, <1>4, <1>7 DEF TypeOK
<1>11. WInv'
  <2>1. run'[p].at \notin WalletSteps
    BY <1>5, <1>9 DEF WalletSteps
  <2> QED BY <1>1, <1>9, <1>10, <2>1, WalletsAside
<1>12. \A q \in Command : \A g : Holds(q, g)' <=> Holds(q, g)
  BY <1>1, <1>5, <1>9 DEF Holds
<1>13. IndexesAreHeldOnce'
  <2>1. ASSUME NEW q \in Command, run'[q].at = "index"
        PROVE  /\ files'[IndexPath(run'[q].options)].is = "index"
               /\ files'[IndexPath(run'[q].options)].flags = run'[q].flags
    <3>1. CASE q = p
      BY <1>5, <1>9, <3>1 DEF f, Index
    <3>2. CASE q # p
      <4>1. run[q].at = "index" /\ run'[q] = run[q]
        BY <1>9, <2>1, <3>2
      <4>2. run[q].options \in Options
        BY <1>1, <4>1, RunForms, IndexingHas
      <4>3. Holds(q, IndexPath(run[q].options))
        BY <4>1 DEF Holds
      <4>4. IndexPath(run[q].options) \in Path /\ IndexPath(run[q].options) # f
        BY <1>8, <3>2, <4>2, <4>3, OptionsGiven DEF IInv, FInv, IndexesAreHeldOnce
      <4>5. /\ files[IndexPath(run[q].options)].is = "index"
            /\ files[IndexPath(run[q].options)].flags = run[q].flags
        BY <4>1 DEF IInv, FInv, IndexesAreHeldOnce
      <4> QED BY <1>9, <4>1, <4>4, <4>5
    <3> QED BY <3>1, <3>2
  <2> QED BY <1>12, <2>1 DEF IInv, FInv, IndexesAreHeldOnce
<1>14. CookiesAreGiven'
  <2> SUFFICES ASSUME NEW q \in Command, run'[q].at \in {"created", "index"},
                      run'[q].options.rpc_url = None
               PROVE  run'[q].cookie \in {CookieFile(run'[q].options), Stale} \ {None}
    BY DEF CookiesAreGiven
  <2>1. CASE q = p
    BY <1>1, <1>5, <1>9, <2>1 DEF IInv, FInv, CookiesAreGiven
  <2>2. CASE q # p
    BY <1>9, <2>2 DEF IInv, FInv, CookiesAreGiven
  <2> QED BY <2>1, <2>2
<1>15. BlocksOfAnIndexAgree'
  <2>1. files'[f].blocks = <<>> /\ DOMAIN (files'[f].blocks) = {}
    BY <1>9 DEF Index
  <2> SUFFICES ASSUME NEW g \in Path, files'[g].is = "index"
               PROVE
        /\ \A i \in DOMAIN files'[g].blocks :
             files'[g].blocks[i].flags = files'[g].flags
        /\ \A i, j \in DOMAIN files'[g].blocks :
             files'[g].blocks[i].chain = files'[g].blocks[j].chain
        /\ \A i \in DOMAIN files'[g].blocks : files'[g].blocks[i].default =>
             g = Append(JoinWithDataDir(files'[g].blocks[i].chain,
                                        "~/.local/share/ord"), "index.redb")
    BY DEF BlocksOfAnIndexAgree
  <2>2. CASE g = f
    BY <2>1, <2>2
  <2>3. CASE g # f
    BY <1>9, <2>3 DEF IInv, FInv, BlocksOfAnIndexAgree
  <2> QED BY <2>2, <2>3
<1> QED BY <1>10, <1>11, <1>13, <1>14, <1>15 DEF IInv, FInv

(* Each chain has its directory.                                           *)
LEMMA DirectoriesDiffer ==
  ASSUME NEW c \in Chain, NEW d \in Chain, NEW dir,
         JoinWithDataDir(c, dir) = JoinWithDataDir(d, dir)
  PROVE  c = d
BY DEF Chain, JoinWithDataDir

(* No node writes the cookie that has no node.                             *)
LEMMA StaleIsOfNoNode ==
  ASSUME NEW n \in Port
  PROVE  CookieOf(n) # Stale
BY DEF CookieOf, Stale, JoinWithDataDir

(* What a command with the default options indexes is of the chain that    *)
(* its index is for: its cookie would not open another chain's node.       *)
LEMMA DefaultIsOfItsChain ==
  ASSUME IInv, NEW p \in Command, run[p].at = "index", Reaches(p),
         run[p].options.rpc_url = None, run[p].options.cookie_file = None,
         run[p].options.index = None, run[p].options.data_dir = None
  PROVE  IndexPath(run[p].options) =
           Append(JoinWithDataDir(Node[Server(p)].chain, "~/.local/share/ord"),
                  "index.redb")
<1> DEFINE o == run[p].options
<1> DEFINE n == Server(p)
<1>1. n \in Port /\ run[p].cookie \in {None, CookieOf(n)}
  BY DEF Reaches, IInv, WInv, TypeOK
<1>2. run[p].cookie \in {CookieFile(o), Stale} \ {None}
  BY DEF IInv, FInv, CookiesAreGiven
<1>3. CookieFile(o) = CookieOf(n)
  BY <1>1, <1>2, StaleIsOfNoNode
<1>4. o \in Options
  BY RunForms, IndexingHas DEF IInv, WInv
<1>5. ChainOf(o) \in Chain /\ Node[n].chain \in Chain
  BY <1>1, <1>4, OptionsGiven, StartupAssumption
<1>6. JoinWithDataDir(ChainOf(o), "~/.craftcoin") =
        JoinWithDataDir(Node[n].chain, "~/.craftcoin")
  BY <1>3 DEF CookieFile, CookieOf, UnwrapOr
<1>7. ChainOf(o) = Node[n].chain
  BY <1>5, <1>6, DirectoriesDiffer
<1>8. IndexPath(o) = Append(JoinWithDataDir(ChainOf(o), "~/.local/share/ord"),
                            "index.redb")
  BY DEF IndexPath, DataDir, UnwrapOr
<1> QED BY <1>7, <1>8

(* A block is of the chain of the last, with the flags of the index.       *)
LEMMA IndexBlockKeeps ==
  ASSUME IInv, NEW p \in Command, IndexBlock(p)
  PROVE  IInv'
<1> DEFINE o == run[p].options
<1> DEFINE f == IndexPath(o)
<1> DEFINE blocks == files[f].blocks
<1> DEFINE block == [chain |-> Node[Server(p)].chain, flags |-> run[p].flags,
                     default |-> /\ o.rpc_url = None /\ o.cookie_file = None
                                 /\ o.index = None /\ o.data_dir = None]
<1>1. /\ TypeOK /\ UNCHANGED <<up, wallets>> /\ run[p].at = "index" /\ Reaches(p)
  BY DEF IndexBlock, node_vars, IInv, WInv
<1>2. CASE End(p) /\ files' = files
  BY <1>1, <1>2, EndLeaves
<1>3. CASE /\ Follows(block, blocks) /\ run' = run
           /\ files' = [files EXCEPT ![f].blocks = Append(@, block)]
  <2>1. o \in Options /\ run[p].flags \in FlagSets
    BY <1>1, RunForms, IndexingHas
  <2>2. f \in Path /\ files[f] \in File
    BY <1>1, <2>1, OptionsGiven DEF TypeOK
  <2>3. files[f].is = "index" /\ files[f].flags = run[p].flags
    BY <1>1 DEF IInv, FInv, IndexesAreHeldOnce
  <2>4. files[f] \in [is : {"index"}, flags : FlagSets, blocks : Seq(Block)]
    BY <2>2, <2>3 DEF File, Absent, Empty, Old
  <2>5. Server(p) \in Port
    BY <1>1 DEF Reaches, TypeOK
  <2>6. block \in Block
    <3>1. Node[Server(p)].chain \in Chain
      BY <2>5, StartupAssumption
    <3> QED BY <2>1, <3>1 DEF Block
  <2>7. block.chain = Node[Server(p)].chain /\ block.flags = files[f].flags
    BY <2>3
  <2>8. block.default =>
          f = Append(JoinWithDataDir(block.chain, "~/.local/share/ord"), "index.redb")
    BY <1>1, DefaultIsOfItsChain
  <2> DEFINE more == Append(blocks, block)
  <2>9. files' = [files EXCEPT ![f] = [files[f] EXCEPT !.blocks = more]]
    BY <1>3
  <2>10. blocks \in Seq(Block)
    BY <2>4
  <2> HIDE DEF block
  <2>11. /\ more \in Seq(Block) /\ Len(blocks) \in Nat
         /\ DOMAIN blocks = 1 .. Len(blocks)
         /\ DOMAIN more = 1 .. Len(blocks) + 1
         /\ \A i \in 1 .. Len(blocks) : more[i] = blocks[i]
         /\ more[Len(blocks) + 1] = block
    BY <2>6, <2>10, AppendProperties, LenProperties
  <2> HIDE DEF more
  <2>12. [files[f] EXCEPT !.blocks = more] \in File
    BY <2>4, <2>11 DEF File
  <2>13. /\ files' \in [Path -> File]
         /\ files'[f].is = "index" /\ files'[f].flags = files[f].flags
         /\ files'[f].blocks = more
         /\ \A g \in Path : g # f => files'[g] = files[g]
    BY <1>1, <2>2, <2>4, <2>9, <2>12 DEF TypeOK
  <2>14. TypeOK'
    BY <1>1, <1>3, <2>13 DEF TypeOK
  <2>15. WInv'
    BY <1>1, <1>3, <2>14, WalletsStay DEF IInv, WalletsLeft
  <2>16. IndexesAreHeldOnce'
    <3>1. ASSUME NEW q \in Command, run[q].at = "index"
          PROVE  /\ files'[IndexPath(run[q].options)].is = "index"
                 /\ files'[IndexPath(run[q].options)].flags = run[q].flags
      <4>1. IndexPath(run[q].options) \in Path
        BY <1>1, <3>1, RunForms, IndexingHas, OptionsGiven
      <4>2. /\ files[IndexPath(run[q].options)].is = "index"
            /\ files[IndexPath(run[q].options)].flags = run[q].flags
        BY <3>1 DEF IInv, FInv, IndexesAreHeldOnce
      <4> HIDE DEF f
      <4> QED BY <2>13, <4>1, <4>2
    <3> QED BY <1>3, <3>1 DEF IInv, FInv, IndexesAreHeldOnce, Holds
  <2>17. CookiesAreGiven'
    BY <1>3 DEF IInv, FInv, CookiesAreGiven
  <2>18. /\ \A i \in DOMAIN blocks : blocks[i].flags = files[f].flags
         /\ \A i, j \in DOMAIN blocks : blocks[i].chain = blocks[j].chain
         /\ \A i \in DOMAIN blocks : blocks[i].default =>
              f = Append(JoinWithDataDir(blocks[i].chain, "~/.local/share/ord"),
                         "index.redb")
    BY <2>2, <2>3 DEF IInv, FInv, BlocksOfAnIndexAgree
  <2>19. \A i \in DOMAIN blocks : blocks[i].chain = block.chain
    <3>1. CASE blocks = <<>>
      BY <3>1
    <3>2. CASE blocks # <<>>
      <4>1. blocks[Len(blocks)].chain = block.chain
        BY <1>3, <3>2 DEF Follows
      <4>2. Len(blocks) \in DOMAIN blocks
        <5>1. Len(blocks) # 0
          BY <2>10, <3>2, EmptySeq
        <5> QED BY <2>11, <5>1
      <4> QED BY <2>18, <4>1, <4>2
    <3> QED BY <3>1, <3>2
  <2>20. BlocksOfAnIndexAgree'
    <3> SUFFICES ASSUME NEW g \in Path, files'[g].is = "index"
                 PROVE
          /\ \A i \in DOMAIN files'[g].blocks :
               files'[g].blocks[i].flags = files'[g].flags
          /\ \A i, j \in DOMAIN files'[g].blocks :
               files'[g].blocks[i].chain = files'[g].blocks[j].chain
          /\ \A i \in DOMAIN files'[g].blocks : files'[g].blocks[i].default =>
               g = Append(JoinWithDataDir(files'[g].blocks[i].chain,
                                          "~/.local/share/ord"), "index.redb")
      BY DEF BlocksOfAnIndexAgree
    <3>1. CASE g # f
      BY <2>13, <3>1 DEF IInv, FInv, BlocksOfAnIndexAgree
    <3>2. CASE g = f
      <4>1. \A i \in DOMAIN more :
              more[i] = block \/ (i \in DOMAIN blocks /\ more[i] = blocks[i])
        BY <2>11
      <4>2. ASSUME NEW i \in DOMAIN more
            PROVE  /\ more[i].flags = files[f].flags /\ more[i].chain = block.chain
                   /\ more[i].default =>
                        f = Append(JoinWithDataDir(more[i].chain,
                                                   "~/.local/share/ord"), "index.redb")
        <5> HIDE DEF f, blocks
        <5> QED BY <2>7, <2>8, <2>18, <2>19, <4>1
      <4> HIDE DEF f, blocks
      <4> QED BY <2>13, <3>2, <4>2
    <3> QED BY <3>1, <3>2
  <2> QED BY <2>14, <2>15, <2>16, <2>17, <2>20 DEF IInv, FInv
<1> QED BY <1>2, <1>3 DEF IndexBlock

-----------------------------------------------------------------------------
(* The theorems                                                            *)

(* No command has begun, and the indexes are those of older versions.      *)
LEMMA InitIsGood == Init => IInv
<1> SUFFICES ASSUME Init PROVE IInv
  OBVIOUS
<1>1. \A p \in Command : run[p].at = "idle"
  BY DEF Init
<1>2. TypeOK
  <2>1. wallets \in [Port -> [Name -> Wallet]]
    BY DEF Init, Wallet
  <2>2. files \in [Path -> File]
    BY DEF Init, File
  <2>3. run \in [Command -> RunState]
    BY DEF Init, RunState
  <2> QED BY <2>1, <2>2, <2>3 DEF Init, TypeOK
<1>3. WalletsAreThere /\ ImportsOfOneSeed /\ WalletHasOneSeed
  BY <1>1 DEF WalletsAreThere, WalletSteps, ImportsOfOneSeed, Importing, WalletHasOneSeed
<1>4. IndexesAreHeldOnce /\ CookiesAreGiven
  BY <1>1 DEF IndexesAreHeldOnce, Holds, CookiesAreGiven
<1>5. BlocksOfAnIndexAgree
  <2>1. \A f \in Path : files[f].is # "index"
    BY DEF Init, Absent, Old
  <2> QED BY <2>1 DEF BlocksOfAnIndexAgree
<1> QED BY <1>2, <1>3, <1>4, <1>5 DEF IInv, WInv, FInv

(* Every step of a command or a node keeps the invariant.                  *)
LEMMA StepKeeps == IInv /\ [Next]_vars => IInv'
<1> SUFFICES ASSUME IInv, [Next]_vars PROVE IInv'
  OBVIOUS
<1>1. ASSUME NEW p \in Command, Step(p) PROVE IInv'
  <2>1. CASE ImportReceive(p)
    BY <2>1, ImportKeeps DEF ImportReceive
  <2>2. CASE ImportChange(p)
    BY <2>2, ImportKeeps DEF ImportChange
  <2> QED BY <1>1, <2>1, <2>2, StartKeeps, StopKeeps, OpenKeeps, BuildKeeps,
             IndexBlockKeeps, ConnectKeeps, LoadWalletKeeps, ListDescriptorsKeeps,
             BackupRecoveryKeyKeeps, CreateWalletKeeps DEF Step
<1>2. ASSUME NEW n \in Port, NodeStarts(n) \/ NodeStops(n) PROVE IInv'
  BY <1>2, NodeStartsKeeps, NodeStopsKeeps
<1>3. CASE UNCHANGED vars
  BY <1>3, StutterKeeps
<1> QED BY <1>1, <1>2, <1>3 DEF Next

(* The invariant holds in every reachable state.                           *)
LEMMA InvariantHolds == Spec => []IInv
BY InitIsGood, StepKeeps, PTL DEF Spec

(* Whatever commands make, fill, check and use wallets of one name beside  *)
(* each other, wherever they break off and whatever nodes stop meanwhile:  *)
(* a wallet that passed the check has the two descriptors of one seed.     *)
THEOREM CheckedWalletsHaveOneSeed == Spec => []WalletHasOneSeed
<1>1. IInv => WalletHasOneSeed
  BY DEF IInv, WInv
<1> QED BY <1>1, InvariantHolds, PTL

(* Whatever options commands are given: the blocks of an index are of one  *)
(* chain and were indexed with the flags that the index was built with.    *)
THEOREM IndexesAreOfOneKind == Spec => []BlocksOfAnIndexAgree
<1>1. IInv => BlocksOfAnIndexAgree
  BY DEF IInv, FInv
<1> QED BY <1>1, InvariantHolds, PTL
=============================================================================
