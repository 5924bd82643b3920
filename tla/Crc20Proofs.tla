----------------------------- MODULE Crc20Proofs -----------------------------
(* Theorems about the CRC20 ledger, for all ticks, scripts, inscriptions   *)
(* and amounts.                                                            *)
EXTENDS Crc20Ledger, SumTheorems, SequenceTheorems

(* A message of a new inscription: it lies where it was made, and nothing  *)
(* has been reserved with it.                                              *)
NewOK(m) ==
  /\ m.body \in Body
  /\ \E i \in born, s \in Script :
       /\ m.id = {i} /\ m.to = {s}
       /\ genesis[i] = {s}
       /\ i \notin inscribeTransfer

(* A message of a first move: the reservation is still there.              *)
MoveOK(m) ==
  /\ m.body = [op |-> "move"]
  /\ \E i \in inscribeTransfer, s \in Script :
       /\ m.id = {i} /\ m.from = {s}
       /\ \A l \in log : l.id = i => l.owner = s

MessageOK(m) == m = Silent \/ NewOK(m) \/ MoveOK(m)

MessagesOK ==
  /\ \A k \in 1 .. Len(messages) : MessageOK(messages[k])
  /\ \A k, l \in 1 .. Len(messages) :
       k # l => messages[k].id \cap messages[l].id = {}

LogOK ==
  /\ IsFiniteSet(log)
  /\ \A l \in log : l.amount > 0 /\ Deployed(l.tick)
  /\ inscribeTransfer \subseteq born
  /\ ~index_crc20 => log = {} /\ messages = << >>

IInv ==
  TypeOK /\ MessagesOK /\ LogOK /\ Conserved /\ HoldersAreOwners
    /\ ReservationsAreLive

-----------------------------------------------------------------------------
(* Records of the messages                                                 *)

(* What is in the body of a crc20 inscription.                             *)
LEMMA BodyFields ==
  ASSUME NEW b \in Body
  PROVE  /\ b.tick \in Tick
         /\ b.op \in {"deploy", "mint", "transfer"}
         /\ b.op = "deploy" => b.supply \in Nat /\ b.limit \in Nat
         /\ b.op # "deploy" => b.amount \in Nat
BY LedgerAssumption DEF Body, Amount

(* The one member of a singleton.                                          *)
LEMMA OnlyMember ==
  ASSUME NEW x
  PROVE  Only({x}) = x
BY DEF Only

(* The message at the head of the queue.                                   *)
LEMMA HeadOK ==
  ASSUME TypeOK, MessagesOK, messages # << >>
  PROVE  /\ MessageOK(message)
         /\ body.op # "ignored" => NewOK(message) \/ MoveOK(message)
<1>1. 1 \in 1 .. Len(messages) /\ message = messages[1]
  BY EmptySeq, LenProperties, HeadTailProperties DEF TypeOK, message
<1>2. MessageOK(message)
  BY <1>1 DEF MessagesOK
<1>3. body.op # "ignored" => message # Silent
  BY DEF Silent, Ignored, body
<1>. QED BY <1>2, <1>3 DEF MessageOK

(* A deploy, mint or transfer that is about to execute.                    *)
LEMMA NewHead ==
  ASSUME TypeOK, MessagesOK, messages # << >>,
         body.op \in {"deploy", "mint", "transfer"}
  PROVE  /\ body \in Body
         /\ to \in Script
         /\ \E i \in born : /\ message.id = {i}
                            /\ genesis[i] = {to}
                            /\ i \notin inscribeTransfer
<1>1. NewOK(message)
  <2>1. body.op # "ignored" /\ body # [op |-> "move"]
    OBVIOUS
  <2>. QED BY <2>1, HeadOK DEF MoveOK, body
<1>. QED BY <1>1, OnlyMember DEF NewOK, to, body

(* A first move that is about to execute.                                  *)
LEMMA MoveHead ==
  ASSUME TypeOK, MessagesOK, messages # << >>, body.op = "move"
  PROVE  /\ from \in Script
         /\ \E i \in inscribeTransfer :
              /\ message.id = {i}
              /\ message.from = {from}
              /\ \A l \in log : l.id = i => l.owner = from
<1>1. MoveOK(message)
  <2>1. body.op # "ignored" /\ body \notin Body
    BY BodyFields
  <2>. QED BY <2>1, HeadOK DEF NewOK, body
<1>2. PICK i \in inscribeTransfer, s \in Script :
        /\ message.id = {i} /\ message.from = {s}
        /\ \A l \in log : l.id = i => l.owner = s
  BY <1>1 DEF MoveOK
<1>3. from = s
  BY <1>2, OnlyMember DEF from
<1>. QED BY <1>2, <1>3

-----------------------------------------------------------------------------
(* The queue of messages after a turn                                      *)

(* The messages left keep their places but for the first.                  *)
LEMMA AfterTurn ==
  ASSUME TypeOK, MessagesOK, messages # << >>, messages' = Tail(messages)
  PROVE  /\ messages' \in Seq(Message)
         /\ Len(messages') = Len(messages) - 1
         /\ \A k \in 1 .. Len(messages') :
              /\ k + 1 \in 1 .. Len(messages)
              /\ messages'[k] = messages[k + 1]
              /\ messages'[k].id \cap message.id = {}
<1>1. /\ messages' \in Seq(Message)
      /\ Len(messages') = Len(messages) - 1
      /\ \A k \in 1 .. Len(messages') : messages'[k] = messages[k + 1]
  BY HeadTailProperties DEF TypeOK
<1>2. 1 \in 1 .. Len(messages) /\ message = messages[1]
  BY EmptySeq, LenProperties, HeadTailProperties DEF TypeOK, message
<1>3. ASSUME NEW k \in 1 .. Len(messages')
      PROVE  /\ k + 1 \in 1 .. Len(messages)
             /\ messages[k + 1].id \cap message.id = {}
  <2>1. k + 1 \in 1 .. Len(messages) /\ k + 1 # 1
    BY <1>1, LenProperties DEF TypeOK
  <2>. QED BY <2>1, <1>2 DEF MessagesOK
<1>. QED BY <1>1, <1>3

(* The messages left stay sound when a turn disturbs only what belongs to  *)
(* the inscription of its own message.                                     *)
LEMMA MessagesStep ==
  ASSUME TypeOK, MessagesOK, messages # << >>, messages' = Tail(messages),
         born' = born, genesis' = genesis,
         \A i \in Id \ message.id :
           i \in inscribeTransfer' <=> i \in inscribeTransfer,
         \A l \in log' : l \in log \/ l.id \in message.id
  PROVE  MessagesOK'
<1>1. ASSUME NEW k \in 1 .. Len(messages')
      PROVE  MessageOK(messages[k])'
  <2>0. PICK m : m = messages[k + 1]
    OBVIOUS
  <2>1. /\ k + 1 \in 1 .. Len(messages)
        /\ messages'[k] = m
        /\ m.id \cap message.id = {}
    BY <2>0, AfterTurn
  <2>2. MessageOK(m)
    BY <2>0, <2>1 DEF MessagesOK
  <2>3. CASE m = Silent
    BY <2>1, <2>3 DEF MessageOK, Silent, Ignored
  <2>4. CASE NewOK(m)
    <3>1. PICK i \in born, s \in Script : /\ m.id = {i} /\ m.to = {s}
                                          /\ genesis[i] = {s}
                                          /\ i \notin inscribeTransfer
      BY <2>4 DEF NewOK
    <3>2. i \in Id \ message.id
      BY <2>1, <3>1 DEF TypeOK
    <3>3. m.body \in Body /\ i \notin inscribeTransfer'
      BY <2>4, <3>1, <3>2 DEF NewOK
    <3>4. NewOK(m)'
      BY <3>1, <3>3 DEF NewOK
    <3>. QED BY <2>1, <3>4 DEF MessageOK
  <2>5. CASE MoveOK(m)
    <3>1. PICK i \in inscribeTransfer, s \in Script :
                 /\ m.id = {i} /\ m.from = {s}
                 /\ \A l \in log : l.id = i => l.owner = s
      BY <2>5 DEF MoveOK
    <3>2. i \in Id \ message.id
      BY <2>1, <3>1 DEF TypeOK
    <3>3. i \in inscribeTransfer' /\ \A l \in log' : l.id = i => l.owner = s
      BY <3>1, <3>2
    <3>. QED BY <2>1, <2>5, <3>1, <3>3 DEF MessageOK, MoveOK
  <2>. QED BY <2>2, <2>3, <2>4, <2>5 DEF MessageOK
<1>2. ASSUME NEW k \in 1 .. Len(messages'), NEW l \in 1 .. Len(messages'),
             k # l
      PROVE  messages'[k].id \cap messages'[l].id = {}
  <2>1. /\ messages'[k] = messages[k + 1] /\ messages'[l] = messages[l + 1]
        /\ k + 1 \in 1 .. Len(messages) /\ l + 1 \in 1 .. Len(messages)
    BY AfterTurn
  <2>2. k + 1 # l + 1
    BY <1>2
  <2>. QED BY <2>1, <2>2 DEF MessagesOK
<1>. QED BY <1>1, <1>2 DEF MessagesOK

(* A move that waits behind the head of the queue goes on waiting.         *)
LEMMA MovingOn ==
  ASSUME TypeOK, MessagesOK, messages # << >>, messages' = Tail(messages),
         NEW l, Moving(l), message.id # {l.id} \/ body.op # "move"
  PROVE  Moving(l)'
<1>1. PICK k \in 1 .. Len(messages) :
        /\ messages[k].id = {l.id}
        /\ messages[k].body.op = "move"
        /\ messages[k].from = {l.owner}
  BY DEF Moving
<1>2. message = messages[1]
  BY HeadTailProperties DEF TypeOK, message
<1>3. k # 1
  BY <1>1, <1>2 DEF body
<1>4. Len(messages') = Len(messages) - 1 /\ Len(messages) \in Nat
  BY AfterTurn, LenProperties DEF TypeOK
<1>5. k - 1 \in 1 .. Len(messages') /\ (k - 1) + 1 = k
  BY <1>3, <1>4
<1>6. messages'[k - 1] = messages[k]
  BY <1>5, AfterTurn
<1>. QED BY <1>1, <1>5, <1>6 DEF Moving

(* A turn that is not a move keeps every reservation waiting.              *)
LEMMA LiveStep ==
  ASSUME TypeOK, MessagesOK, messages # << >>, messages' = Tail(messages),
         body.op # "move", genesis' = genesis,
         ReservationsAreLive, log' = log,
         inscribeTransfer' = inscribeTransfer
  PROVE  ReservationsAreLive'
<1>1. ASSUME NEW l \in log
      PROVE  genesis'[l.id] = {l.owner} \/ Moving(l)'
  BY MovingOn DEF ReservationsAreLive
<1>. QED BY <1>1 DEF ReservationsAreLive

-----------------------------------------------------------------------------
(* What a step does to the sums                                            *)

(* Sums over the same balances, tokens and reservations stay as they are.  *)
LEMMA ConservedStays ==
  ASSUME Conserved, UNCHANGED <<tokens, balances, log>>
  PROVE  Conserved'
BY DEF Conserved, Held, Reserved

(* The sum of a token when m leaves the account of s and n enters r's.     *)
LEMMA HeldMoves ==
  ASSUME TypeOK, TypeOK', NEW t \in Tick, NEW s \in Script, NEW r \in Script,
         NEW m \in Int, NEW n \in Int,
         \A x \in Script : balances'[<<x, t>>].overall =
           (balances[<<x, t>>].overall - (IF x = s THEN m ELSE 0))
             + (IF x = r THEN n ELSE 0)
  PROVE  Held(t)' = (Held(t) - m) + n
<1> DEFINE f == [x \in Script |-> balances[<<x, t>>].overall]
           g == [x \in Script |-> f[x] - (IF x = s THEN m ELSE 0)]
           h == [x \in Script |-> balances'[<<x, t>>].overall]
<1>1. \A x \in Script : f[x] \in Int /\ g[x] \in Int /\ h[x] \in Int
  BY DEF TypeOK, Account, Balance
<1>2. /\ g[s] - f[s] = 0 - m
      /\ \A x \in Script : x # s => g[x] = f[x]
  BY <1>1
<1>3. /\ h[r] - g[r] = n
      /\ \A x \in Script : x # r => h[x] = g[x]
  BY <1>1
<1>4. Held(t) = SumFunctionOnSet(f, Script) /\ Held(t)' = SumFunctionOnSet(h, Script)
  BY DEF Held
<1> HIDE DEF f, g, h
<1>5. SumFunctionOnSet(g, Script) = SumFunctionOnSet(f, Script) + (g[s] - f[s])
  <2>1. \A x \in Script : f[x] \in Int /\ g[x] \in Int
    BY <1>1
  <2>2. \A x \in Script : x # s => g[x] = f[x]
    BY <1>2
  <2> QED BY <2>1, <2>2, SumChange, ScriptAssumption
<1>6. SumFunctionOnSet(h, Script) = SumFunctionOnSet(g, Script) + (h[r] - g[r])
  <2>1. \A x \in Script : g[x] \in Int /\ h[x] \in Int
    BY <1>1
  <2>2. \A x \in Script : x # r => h[x] = g[x]
    BY <1>3
  <2> QED BY <2>1, <2>2, SumChange, ScriptAssumption
<1>7. SumFunctionOnSet(f, Script) \in Int
  BY <1>1, SumIsInt, ScriptAssumption
<1> QED BY <1>2, <1>3, <1>4, <1>5, <1>6, <1>7

(* One more reservation is one more term in the sum of its account.        *)
LEMMA ReservedAdds ==
  ASSUME NEW L, IsFiniteSet(L), NEW n, n \notin L,
         \A l \in L \cup {n} : l.amount \in Nat, NEW a
  PROVE  /\ Reserved(L, a) \in Nat
         /\ Reserved(L \cup {n}, a) =
              Reserved(L, a) + (IF <<n.owner, n.tick>> = a THEN n.amount ELSE 0)
<1> DEFINE M == L \cup {n}
           f == [l \in L |-> l.amount]
           g == [l \in M |-> l.amount]
           F == {l \in L : <<l.owner, l.tick>> = a}
           G == {l \in M : <<l.owner, l.tick>> = a}
<1>1. /\ \A l \in F : f[l] \in Nat /\ g[l] = f[l]
      /\ g[n] = n.amount /\ n.amount \in Nat
      /\ n \notin F
      /\ G = IF <<n.owner, n.tick>> = a THEN F \cup {n} ELSE F
  OBVIOUS
<1>2. Reserved(L, a) = SumFunctionOnSet(f, F)
      /\ Reserved(L \cup {n}, a) = SumFunctionOnSet(g, G)
  BY DEF Reserved
<1>3. IsFiniteSet(F)
  BY FS_Subset
<1> HIDE DEF f, g, F, G, M
<1>4. SumFunctionOnSet(f, F) \in Nat
  BY <1>1, <1>3, SumOfNaturals
<1>5. SumFunctionOnSet(g, F) = SumFunctionOnSet(f, F)
  BY <1>1, <1>3, SumEqual
<1>6. SumFunctionOnSet(g, F \cup {n}) = g[n] + SumFunctionOnSet(g, F)
  BY <1>1, <1>3, SumAdd
<1> QED BY <1>1, <1>2, <1>4, <1>5, <1>6

(* No reservation is larger than the sum of its account.                   *)
LEMMA ReservedCovers ==
  ASSUME NEW L, IsFiniteSet(L), \A l \in L : l.amount \in Nat, NEW n \in L
  PROVE  n.amount <= Reserved(L, <<n.owner, n.tick>>)
<1> DEFINE f == [l \in L |-> l.amount]
           F == {l \in L : <<l.owner, l.tick>> = <<n.owner, n.tick>>}
<1>1. n \in F /\ f[n] = n.amount /\ \A l \in F : f[l] \in Nat
  OBVIOUS
<1>2. Reserved(L, <<n.owner, n.tick>>) = SumFunctionOnSet(f, F)
  BY DEF Reserved
<1>3. IsFiniteSet(F)
  BY FS_Subset
<1> HIDE DEF f, F
<1> QED BY <1>1, <1>2, <1>3, SumOfNaturals

-----------------------------------------------------------------------------
(* The steps of the ledger keep the invariant                              *)

(* A resolved first move finds its reservation, and the balance of the     *)
(* sender covers it.                                                       *)
LEMMA ReservationPays == IInv => FirstMovePays
<1>. SUFFICES ASSUME IInv, messages # << >>, body.op = "move"
              PROVE  \E l \in Transferables : TransferAccepted(l)
  BY DEF FirstMovePays
<1>1. PICK i \in inscribeTransfer :
        /\ message.id = {i}
        /\ \A l \in log : l.id = i => l.owner = from
  BY MoveHead DEF IInv
<1>2. PICK l \in log : l.id = i
  BY <1>1 DEF IInv, ReservationsAreLive
<1>3. l.owner = from /\ l \in Transferables
  BY <1>1, <1>2 DEF Transferables
<1>4. /\ l \in TransferableLog /\ Deployed(l.tick)
      /\ <<from, l.tick>> \in Account
      /\ balances[<<from, l.tick>>] \in Balance
  BY <1>2, <1>3 DEF IInv, TypeOK, LogOK, TransferableLog, Account
<1>5. l.amount <= Reserved(log, <<from, l.tick>>)
  <2>1. \A m \in log : m.amount \in Nat
    BY DEF IInv, TypeOK, TransferableLog
  <2>. QED BY <1>2, <1>3, <2>1, ReservedCovers DEF IInv, LogOK
<1>6. l.amount <= balances[<<from, l.tick>>].transferable
  BY <1>4, <1>5 DEF IInv, Conserved
<1>7. balances[<<from, l.tick>>].transferable
        <= balances[<<from, l.tick>>].overall
  BY <1>4 DEF IInv, Conserved
<1>8. l.amount \in Nat
  BY <1>4 DEF TransferableLog
<1>9. TransferAccepted(l)
  BY <1>4, <1>6, <1>7, <1>8 DEF TransferAccepted, Balance
<1>. QED BY <1>3, <1>9

(* A deployment adds a token that was not there.                           *)
LEMMA DeployStep == IInv /\ ProcessDeploy => IInv'
<1>. SUFFICES ASSUME IInv, ProcessDeploy PROVE IInv'
  OBVIOUS
<1>1. /\ messages # << >> /\ messages' = Tail(messages)
      /\ body.op = "deploy"
      /\ UNCHANGED <<options, born, genesis, stuck, balances, holders, log,
                     inscribeTransfer>>
  BY DEF ProcessDeploy, Turn, inscriptions
<1>2. /\ body \in Body /\ body.tick \in Tick
      /\ body.supply \in Nat \ {0} /\ body.limit \in Nat
  BY <1>1, NewHead, BodyFields, LedgerAssumption
     DEF ProcessDeploy, DeployAccepted, IInv
<1>3. /\ tokens' \in [Tick -> TokenInfo]
      /\ \A t \in Tick : Deployed(t) => Deployed(t)'
  BY <1>2 DEF ProcessDeploy, DeployAccepted, Deployed, IInv, TypeOK, TokenInfo
<1>4. TypeOK'
  BY <1>1, <1>3, AfterTurn DEF IInv, TypeOK
<1>5. MessagesOK'
  BY <1>1, MessagesStep DEF IInv
<1>6. LogOK'
  <2>1. \A l \in log : l.tick \in Tick
    BY DEF IInv, TypeOK, TransferableLog
  <2>2. ~index_crc20 => FALSE
    BY <1>1 DEF IInv, LogOK
  <2>. QED BY <1>1, <1>3, <2>1, <2>2 DEF IInv, LogOK, index_crc20
<1>7. Conserved'
  <2>1. ASSUME NEW t \in Tick
        PROVE  Held(t)' = tokens'[t].minted /\ tokens'[t].minted <= tokens'[t].supply
    <3>1. Held(t)' = Held(t) /\ Held(t) = tokens[t].minted
      BY <1>1 DEF IInv, Conserved, Held
    <3>2. tokens[t].minted \in Nat /\ tokens[t].supply \in Nat
          /\ tokens[t].minted <= tokens[t].supply
      BY DEF IInv, Conserved, TypeOK, TokenInfo
    <3>3. t = body.tick => tokens[t].supply = 0
      BY DEF ProcessDeploy, DeployAccepted, Deployed
    <3>4. tokens' = [tokens EXCEPT ![body.tick] =
                  [supply |-> body.supply, limit |-> body.limit, minted |-> 0]]
      BY DEF ProcessDeploy
    <3>. QED BY <1>2, <3>1, <3>2, <3>3, <3>4 DEF IInv, TypeOK
  <2>2. ASSUME NEW a \in Account
        PROVE  /\ balances'[a].transferable = Reserved(log, a)'
               /\ balances'[a].transferable <= balances'[a].overall
    BY <1>1 DEF IInv, Conserved, Reserved
  <2>. QED BY <2>1, <2>2 DEF Conserved
<1>8. HoldersAreOwners'
  BY <1>1 DEF IInv, HoldersAreOwners
<1>9. ReservationsAreLive'
  BY <1>1, LiveStep DEF IInv
<1>. QED BY <1>4, <1>5, <1>6, <1>7, <1>8, <1>9 DEF IInv

(* What a mint does: n units appear in one account.                        *)
LEMMA MintEffect ==
  ASSUME IInv, ProcessMint
  PROVE  /\ to \in Script /\ body.tick \in Tick
         /\ holders' = holders \cup {<<body.tick, to>>}
         /\ tokens' \in [Tick -> TokenInfo]
         /\ balances' \in [Account -> Balance]
         /\ \A t \in Tick : tokens'[t].supply = tokens[t].supply
         /\ \A b \in Account : balances'[b].transferable
                                 = balances[b].transferable
         /\ \E n \in Nat \ {0} :
              /\ tokens[body.tick].minted + n <= tokens[body.tick].supply
              /\ \A t \in Tick : tokens'[t].minted =
                   tokens[t].minted + (IF t = body.tick THEN n ELSE 0)
              /\ \A b \in Account : balances'[b].overall =
                   balances[b].overall + (IF b = <<to, body.tick>> THEN n ELSE 0)
<1>. DEFINE n == Minted(body.amount, tokens[body.tick])
            a == <<to, body.tick>>
<1>1. messages # << >> /\ body.op = "mint"
  BY DEF ProcessMint, Turn
<1>2. /\ to \in Script /\ body.tick \in Tick /\ a \in Account
      /\ body.amount \in Nat /\ tokens[body.tick] \in TokenInfo
  BY <1>1, NewHead, BodyFields DEF IInv, Account, TypeOK
<1>3. /\ n \in Nat \ {0}
      /\ tokens[body.tick].minted + n <= tokens[body.tick].supply
  BY <1>2 DEF ProcessMint, MintAccepted, Minted, TokenInfo
<1>4. /\ balances' = [balances EXCEPT ![a].overall = @ + n]
      /\ tokens' = [tokens EXCEPT ![body.tick].minted = @ + n]
      /\ holders' = holders \cup {<<body.tick, to>>}
  BY DEF ProcessMint
<1>. HIDE DEF n, a
<1>5. /\ tokens' \in [Tick -> TokenInfo]
      /\ \A t \in Tick : tokens'[t].supply = tokens[t].supply
      /\ \A t \in Tick : tokens'[t].minted =
           tokens[t].minted + (IF t = body.tick THEN n ELSE 0)
  <2>1. PICK more : more = [tokens[body.tick] EXCEPT !.minted = @ + n]
    OBVIOUS
  <2>2. /\ more \in TokenInfo
        /\ more.supply = tokens[body.tick].supply
        /\ more.minted = tokens[body.tick].minted + n
    BY <1>2, <1>3, <2>1 DEF TokenInfo
  <2>3. tokens' = [tokens EXCEPT ![body.tick] = more]
    BY <1>4, <2>1
  <2>4. /\ tokens \in [Tick -> TokenInfo]
        /\ \A t \in Tick : tokens[t].minted \in Nat
    BY DEF IInv, TypeOK, TokenInfo
  <2>. QED BY <1>2, <1>3, <2>2, <2>3, <2>4
<1>6. /\ balances' \in [Account -> Balance]
      /\ \A b \in Account : balances'[b].transferable = balances[b].transferable
      /\ \A b \in Account : balances'[b].overall =
           balances[b].overall + (IF b = a THEN n ELSE 0)
  <2>1. PICK paid : paid = [balances[a] EXCEPT !.overall = @ + n]
    OBVIOUS
  <2>2. balances \in [Account -> Balance] /\ balances[a] \in Balance
    BY <1>2 DEF IInv, TypeOK
  <2>3. /\ paid \in Balance
        /\ paid.overall = balances[a].overall + n
        /\ paid.transferable = balances[a].transferable
    BY <1>3, <2>1, <2>2 DEF Balance
  <2>4. balances' = [balances EXCEPT ![a] = paid]
    BY <1>4, <2>1
  <2>5. \A b \in Account : balances[b].overall \in Nat
    BY <2>2 DEF Balance
  <2>. QED BY <1>2, <1>3, <2>2, <2>3, <2>4, <2>5
<1>. QED BY <1>2, <1>3, <1>4, <1>5, <1>6 DEF a

(* A mint pays somebody.                                                   *)
LEMMA MintStep == IInv /\ ProcessMint => IInv'
<1>. SUFFICES ASSUME IInv, ProcessMint PROVE IInv'
  OBVIOUS
<1>. DEFINE a == <<to, body.tick>>
<1>1. /\ messages # << >> /\ messages' = Tail(messages)
      /\ body.op = "mint"
      /\ UNCHANGED <<options, born, genesis, stuck, log, inscribeTransfer>>
  BY DEF ProcessMint, Turn, inscriptions
<1>2. to \in Script /\ body.tick \in Tick /\ a \in Account
  BY MintEffect DEF Account
<1>4. holders' = holders \cup {<<body.tick, to>>}
  BY MintEffect
<1>5. /\ tokens' \in [Tick -> TokenInfo]
      /\ \A t \in Tick : Deployed(t) => Deployed(t)'
  BY MintEffect DEF Deployed
<1>6. /\ balances' \in [Account -> Balance]
      /\ \A b \in Account :
           /\ balances'[b].transferable = balances[b].transferable
           /\ balances'[b].overall >= balances[b].overall
           /\ b # a => balances'[b].overall = balances[b].overall
      /\ balances'[a].overall > 0
  <2>1. \A b \in Account : balances[b].overall \in Nat
    BY DEF IInv, TypeOK, Balance
  <2>. QED BY <1>2, <2>1, MintEffect
<1>7. TypeOK'
  BY <1>1, <1>2, <1>4, <1>5, <1>6, AfterTurn DEF IInv, TypeOK
<1>8. MessagesOK'
  BY <1>1, MessagesStep DEF IInv
<1>9. LogOK'
  <2>1. \A l \in log : l.tick \in Tick
    BY DEF IInv, TypeOK, TransferableLog
  <2>2. ~index_crc20 => FALSE
    BY <1>1 DEF IInv, LogOK
  <2>. QED BY <1>1, <1>5, <2>1, <2>2 DEF IInv, LogOK, index_crc20
<1>10. Conserved'
  <2>1. PICK n \in Nat \ {0} :
          /\ tokens[body.tick].minted + n <= tokens[body.tick].supply
          /\ \A t \in Tick : tokens'[t].minted =
               tokens[t].minted + (IF t = body.tick THEN n ELSE 0)
          /\ \A b \in Account : balances'[b].overall =
               balances[b].overall + (IF b = <<to, body.tick>> THEN n ELSE 0)
    BY MintEffect
  <2>2. ASSUME NEW t \in Tick
        PROVE  Held(t)' = tokens'[t].minted /\ tokens'[t].minted <= tokens'[t].supply
    <3>1. PICK k \in Nat : k = IF t = body.tick THEN n ELSE 0
      BY <2>1
    <3>2. ASSUME NEW x \in Script
          PROVE  balances'[<<x, t>>].overall =
                   (balances[<<x, t>>].overall - (IF x = to THEN 0 ELSE 0))
                     + (IF x = to THEN k ELSE 0)
      <4>1. <<x, t>> \in Account /\ balances[<<x, t>>].overall \in Nat
        BY DEF Account, IInv, TypeOK, Balance
      <4>. QED BY <2>1, <3>1, <4>1
    <3>3. Held(t)' = (Held(t) - 0) + k
      BY <1>2, <1>7, <3>2, HeldMoves DEF IInv
    <3>4. tokens'[t].minted = tokens[t].minted + k
      BY <2>1, <3>1
    <3>5. /\ Held(t) = tokens[t].minted /\ tokens[t].minted \in Nat
          /\ tokens[t].minted <= tokens[t].supply
      BY DEF IInv, Conserved, TypeOK, TokenInfo
    <3>6. tokens'[t].supply = tokens[t].supply /\ tokens[t].supply \in Nat
      BY MintEffect DEF IInv, TypeOK, TokenInfo
    <3>. QED BY <2>1, <3>1, <3>3, <3>4, <3>5, <3>6
  <2>3. ASSUME NEW b \in Account
        PROVE  /\ balances'[b].transferable = Reserved(log, b)'
               /\ balances'[b].transferable <= balances'[b].overall
    <3>1. /\ balances[b].transferable = Reserved(log, b)
          /\ balances[b].transferable <= balances[b].overall
          /\ balances[b].transferable \in Nat /\ balances[b].overall \in Nat
          /\ balances'[b].overall \in Nat
      BY <1>6 DEF IInv, Conserved, TypeOK, Balance
    <3>2. Reserved(log, b)' = Reserved(log, b)
      BY <1>1
    <3>. QED BY <1>6, <3>1, <3>2
  <2>. QED BY <2>2, <2>3 DEF Conserved
<1>11. HoldersAreOwners'
  <2>. SUFFICES ASSUME NEW t \in Tick, NEW s \in Script
                PROVE  <<t, s>> \in holders' <=> balances'[<<s, t>>].overall > 0
    BY DEF HoldersAreOwners
  <2>1. <<t, s>> \in holders <=> balances[<<s, t>>].overall > 0
    BY DEF IInv, HoldersAreOwners
  <2>2. CASE <<s, t>> = a
    BY <1>4, <1>6, <2>2
  <2>3. CASE <<s, t>> # a
    BY <1>4, <1>6, <2>1, <2>3 DEF Account
  <2>. QED BY <2>2, <2>3
<1>12. ReservationsAreLive'
  BY <1>1, LiveStep DEF IInv
<1>. QED BY <1>7, <1>8, <1>9, <1>10, <1>11, <1>12 DEF IInv

ReservedBy(i) ==
  [id |-> i, owner |-> to, tick |-> body.tick, amount |-> body.amount]

(* What inscribing a transfer does: an amount that was available becomes   *)
(* the reservation of a new inscription.                                   *)
LEMMA ReserveEffect ==
  ASSUME IInv, ProcessInscribeTransfer
  PROVE  \E i \in born \ inscribeTransfer :
           LET a == <<to, body.tick>>
           IN  /\ message.id = {i} /\ genesis[i] = {to} /\ i \in Id
               /\ to \in Script /\ body.tick \in Tick /\ a \in Account
               /\ body.amount \in Nat \ {0} /\ Deployed(body.tick)
               /\ balances[a] \in Balance
               /\ balances[a].transferable + body.amount
                    <= balances[a].overall
               /\ log' = log \cup {ReservedBy(i)}
               /\ inscribeTransfer' = inscribeTransfer \cup {i}
               /\ balances' \in [Account -> Balance]
               /\ \A b \in Account : b # a => balances'[b] = balances[b]
               /\ balances'[a].transferable
                    = balances[a].transferable + body.amount
               /\ \A b \in Account : balances'[b].overall = balances[b].overall
               /\ \A l \in log : l.id # i
<1>1. messages # << >> /\ body.op = "transfer"
  BY DEF ProcessInscribeTransfer, Turn
<1>2. PICK i \in born : /\ message.id = {i}
                        /\ genesis[i] = {to}
                        /\ i \notin inscribeTransfer
  BY <1>1, NewHead DEF IInv
<1>. DEFINE a == <<to, body.tick>>
<1>3. /\ to \in Script /\ body.tick \in Tick /\ a \in Account
      /\ body.amount \in Nat \ {0} /\ i \in Id /\ Deployed(body.tick)
      /\ balances[a] \in Balance
      /\ balances[a].transferable + body.amount <= balances[a].overall
  <2>1. /\ to \in Script /\ body.tick \in Tick /\ a \in Account
        /\ body.amount \in Nat /\ i \in Id
    BY <1>1, <1>2, NewHead, BodyFields DEF IInv, Account, TypeOK
  <2>2. balances[a] \in Balance /\ tokens[body.tick] \in TokenInfo
    BY <2>1 DEF IInv, TypeOK
  <2>3. /\ Deployed(body.tick)
        /\ body.amount \in 1 .. tokens[body.tick].supply
        /\ body.amount <= Available(balances[a])
    BY DEF ProcessInscribeTransfer, InscribeTransferAccepted
  <2>. HIDE DEF a
  <2>. QED BY <2>1, <2>2, <2>3 DEF Available, Balance, TokenInfo
<1>4. /\ balances' = [balances EXCEPT ![a].transferable = @ + body.amount]
      /\ log' = log \cup {ReservedBy(i)}
      /\ inscribeTransfer' = inscribeTransfer \cup {i}
  BY <1>2, OnlyMember DEF ProcessInscribeTransfer, ReservedBy
<1>5. /\ balances' \in [Account -> Balance]
      /\ \A b \in Account : b # a => balances'[b] = balances[b]
      /\ balances'[a].transferable = balances[a].transferable + body.amount
      /\ \A b \in Account : balances'[b].overall = balances[b].overall
  <2>1. balances \in [Account -> Balance]
    BY DEF IInv, TypeOK
  <2>. DEFINE held == [balances[a] EXCEPT !.transferable = @ + body.amount]
  <2>2. balances' = [balances EXCEPT ![a] = held]
    BY <1>4
  <2>3. /\ held \in Balance
        /\ held.overall = balances[a].overall
        /\ held.transferable = balances[a].transferable + body.amount
    BY <1>3 DEF Balance
  <2>. HIDE DEF held, a
  <2>. QED BY <1>3, <2>1, <2>2, <2>3
<1>6. \A l \in log : l.id # i
  BY <1>2 DEF IInv, ReservationsAreLive
<1>. QED BY <1>2, <1>3, <1>4, <1>5, <1>6 DEF a

(* A reservation takes what is available and becomes an entry of the log.  *)
LEMMA InscribeTransferStep == IInv /\ ProcessInscribeTransfer => IInv'
<1>. SUFFICES ASSUME IInv, ProcessInscribeTransfer PROVE IInv'
  OBVIOUS
<1>1. /\ messages # << >> /\ messages' = Tail(messages)
      /\ body.op = "transfer"
      /\ UNCHANGED <<options, born, genesis, stuck, tokens, holders>>
  BY DEF ProcessInscribeTransfer, Turn, inscriptions
<1>2. PICK i \in born \ inscribeTransfer :
        LET a == <<to, body.tick>>
        IN  /\ message.id = {i} /\ genesis[i] = {to} /\ i \in Id
            /\ to \in Script /\ body.tick \in Tick /\ a \in Account
            /\ body.amount \in Nat \ {0} /\ Deployed(body.tick)
            /\ balances[a] \in Balance
            /\ balances[a].transferable + body.amount <= balances[a].overall
            /\ log' = log \cup {ReservedBy(i)}
            /\ inscribeTransfer' = inscribeTransfer \cup {i}
            /\ balances' \in [Account -> Balance]
            /\ \A b \in Account : b # a => balances'[b] = balances[b]
            /\ balances'[a].transferable
                 = balances[a].transferable + body.amount
            /\ \A b \in Account : balances'[b].overall = balances[b].overall
            /\ \A l \in log : l.id # i
  BY ReserveEffect
<1>. DEFINE a == <<to, body.tick>>
            new == [id |-> i, owner |-> to, tick |-> body.tick,
                    amount |-> body.amount]
<1>3. /\ to \in Script /\ body.tick \in Tick /\ a \in Account
      /\ body.amount \in Nat \ {0} /\ i \in Id /\ Deployed(body.tick)
      /\ balances[a] \in Balance
      /\ balances[a].transferable + body.amount <= balances[a].overall
  BY <1>2
<1>4. log' = log \cup {new} /\ inscribeTransfer' = inscribeTransfer \cup {i}
  BY <1>2 DEF ReservedBy
<1>5. /\ balances' \in [Account -> Balance]
      /\ \A b \in Account : b # a => balances'[b] = balances[b]
      /\ balances'[a].transferable = balances[a].transferable + body.amount
      /\ \A b \in Account : balances'[b].overall = balances[b].overall
  BY <1>2
<1>6. \A l \in log : l.id # i
  BY <1>2
<1>7. TypeOK'
  <2>1. new \in TransferableLog
    BY <1>3 DEF TransferableLog
  <2>. HIDE DEF new
  <2>. QED BY <1>1, <1>2, <1>3, <1>4, <1>5, <2>1, AfterTurn DEF IInv, TypeOK
<1>8. MessagesOK'
  <2>1. \A l \in log' : l \in log \/ l.id \in message.id
    BY <1>2, <1>4
  <2>. QED BY <1>1, <1>2, <1>4, <2>1, MessagesStep DEF IInv
<1>9. LogOK'
  <2>1. ~index_crc20 => FALSE
    BY <1>1 DEF IInv, LogOK
  <2>2. IsFiniteSet(log')
    BY <1>4, FS_AddElement DEF IInv, LogOK
  <2>. QED BY <1>1, <1>2, <1>3, <1>4, <2>1, <2>2
       DEF IInv, LogOK, Deployed, index_crc20
<1>10. Conserved'
  <2>1. ASSUME NEW t \in Tick
        PROVE  Held(t)' = tokens'[t].minted /\ tokens'[t].minted <= tokens'[t].supply
    <3>1. \A x \in Script : balances'[<<x, t>>].overall
                             = balances[<<x, t>>].overall
      BY <1>5 DEF Account
    <3>2. Held(t)' = Held(t)
      BY <3>1 DEF Held
    <3>. QED BY <1>1, <3>2 DEF IInv, Conserved
  <2>2. ASSUME NEW b \in Account
        PROVE  /\ balances'[b].transferable = Reserved(log', b)
               /\ balances'[b].transferable <= balances'[b].overall
    <3>1. /\ balances[b].transferable = Reserved(log, b)
          /\ balances[b].transferable <= balances[b].overall
      BY DEF IInv, Conserved
    <3>2. Reserved(log', b) = Reserved(log, b)
            + (IF <<new.owner, new.tick>> = b THEN new.amount ELSE 0)
      <4>1. new \notin log /\ \A l \in log \cup {new} : l.amount \in Nat
        BY <1>3, <1>6 DEF IInv, TypeOK, TransferableLog
      <4>. HIDE DEF new
      <4>. QED BY <1>4, <4>1, ReservedAdds DEF IInv, LogOK
    <3>3. <<new.owner, new.tick>> = a /\ new.amount = body.amount
      OBVIOUS
    <3>4. balances[b].transferable \in Nat
      BY DEF IInv, TypeOK, Balance
    <3>. HIDE DEF a, new
    <3>5. CASE b = a
      BY <1>3, <1>5, <3>1, <3>2, <3>3, <3>4, <3>5
    <3>6. CASE b # a
      BY <1>5, <3>1, <3>2, <3>3, <3>4, <3>6
    <3>. QED BY <3>5, <3>6
  <2>. QED BY <2>1, <2>2 DEF Conserved
<1>11. HoldersAreOwners'
  <2>1. \A t \in Tick, s \in Script : <<s, t>> \in Account
    BY DEF Account
  <2>. QED BY <1>1, <1>5, <2>1 DEF IInv, HoldersAreOwners
<1>12. ReservationsAreLive'
  <2>1. ASSUME NEW l \in log
        PROVE  genesis'[l.id] = {l.owner} \/ Moving(l)'
    BY <1>1, MovingOn DEF IInv, ReservationsAreLive
  <2>2. genesis'[new.id] = {new.owner} /\ new.id = i
    BY <1>1, <1>2
  <2>. HIDE DEF new
  <2>3. \A l \in log' : genesis'[l.id] = {l.owner} \/ Moving(l)'
    BY <1>4, <2>1, <2>2
  <2>4. \A j \in inscribeTransfer' : \E l \in log' : l.id = j
    BY <1>4, <2>2 DEF IInv, ReservationsAreLive
  <2>5. \A l \in log' : l.id \in inscribeTransfer'
    BY <1>4, <2>2 DEF IInv, ReservationsAreLive
  <2>6. \A l, m \in log' : l.id = m.id => l = m
    BY <1>4, <1>6, <2>2 DEF IInv, ReservationsAreLive
  <2>. QED BY <2>3, <2>4, <2>5, <2>6 DEF ReservationsAreLive
<1>. QED BY <1>7, <1>8, <1>9, <1>10, <1>11, <1>12 DEF IInv

(* What a first move does: the amount of one reservation leaves the        *)
(* sender's account, reserved part and all, and enters the receiver's.     *)
LEMMA PayEffect ==
  ASSUME IInv, ProcessTransfer
  PROVE  \E e \in log, r \in Script :
           /\ message.id = {e.id} /\ e.id \in inscribeTransfer
           /\ e.owner = from /\ e.tick \in Tick /\ e.amount \in Nat \ {0}
           /\ from \in Script /\ r \in Script
           /\ log' = log \ {e}
           /\ inscribeTransfer' = inscribeTransfer \ {e.id}
           /\ holders' = HoldersAfter(from, r, e)
           /\ e.amount <= balances[<<from, e.tick>>].overall
           /\ e.amount <= balances[<<from, e.tick>>].transferable
           /\ balances' \in [Account -> Balance]
           /\ \A c \in Account : balances'[c].transferable =
                IF c = <<from, e.tick>> THEN balances[c].transferable - e.amount
                                        ELSE balances[c].transferable
           /\ \A c \in Account : balances'[c].overall =
                (balances[c].overall
                   - (IF c = <<from, e.tick>> THEN e.amount ELSE 0))
                + (IF c = <<r, e.tick>> THEN e.amount ELSE 0)
<1>1. messages # << >> /\ body.op = "move"
  BY DEF ProcessTransfer, Turn
<1>2. PICK i \in inscribeTransfer : /\ message.id = {i}
                                    /\ message.from = {from}
  BY <1>1, MoveHead DEF IInv
<1>3. PICK r : r = IF message.to = {} THEN from ELSE to
  OBVIOUS
<1>4. PICK e \in Transferables :
        /\ TransferAccepted(e)
        /\ balances' = Pay(from, r, e)
        /\ holders' = HoldersAfter(from, r, e)
        /\ log' = log \ {e}
  BY <1>3 DEF ProcessTransfer
<1>5. /\ e \in log /\ e.id = i /\ e.owner = from
      /\ e.tick \in Tick /\ e.amount \in Nat \ {0}
      /\ from \in Script
  BY <1>2, <1>4 DEF Transferables, IInv, TypeOK, LogOK, TransferableLog
<1>6. r \in Script
  <2>1. message.to \in Receiver
    <3>1. 1 \in 1 .. Len(messages) /\ message = messages[1]
      BY <1>1, EmptySeq, LenProperties, HeadTailProperties
         DEF IInv, TypeOK, message
    <3>2. message \in Message
      BY <3>1, ElementOfSeq DEF IInv, TypeOK
    <3>. QED BY <3>2 DEF Message
  <2>2. message.to # {} => to \in Script
    BY <2>1, OnlyMember DEF Receiver, to
  <2>. QED BY <1>3, <1>5, <2>2
<1>. DEFINE a == <<from, e.tick>>
            b == <<r, e.tick>>
<1>7. /\ a \in Account /\ b \in Account
      /\ balances[a] \in Balance /\ balances[b] \in Balance
      /\ e.amount <= balances[a].overall
      /\ e.amount <= balances[a].transferable
  BY <1>4, <1>5, <1>6 DEF TransferAccepted, Account, IInv, TypeOK
<1>8. /\ balances' \in [Account -> Balance]
      /\ \A c \in Account :
           balances'[c].transferable =
             IF c = a THEN balances[c].transferable - e.amount
                      ELSE balances[c].transferable
      /\ \A c \in Account :
           balances'[c].overall =
             (balances[c].overall - (IF c = a THEN e.amount ELSE 0))
               + (IF c = b THEN e.amount ELSE 0)
  <2>1. balances \in [Account -> Balance]
    BY DEF IInv, TypeOK
  <2>2. PICK p : p = [balances EXCEPT ![a].overall = @ - e.amount,
                                      ![a].transferable = @ - e.amount]
    OBVIOUS
  <2>3. PICK left : left = [[balances[a] EXCEPT !.overall = @ - e.amount]
                              EXCEPT !.transferable = @ - e.amount]
    OBVIOUS
  <2>4. /\ left \in Balance
        /\ left.overall = balances[a].overall - e.amount
        /\ left.transferable = balances[a].transferable - e.amount
    <3>1. PICK mid : mid = [balances[a] EXCEPT !.overall = @ - e.amount]
      OBVIOUS
    <3>. HIDE DEF a
    <3>2. /\ mid \in Balance
          /\ mid.overall = balances[a].overall - e.amount
          /\ mid.transferable = balances[a].transferable
      BY <1>5, <1>7, <3>1 DEF Balance
    <3>3. left = [mid EXCEPT !.transferable = @ - e.amount]
      BY <2>3, <3>1
    <3>. QED BY <1>5, <1>7, <3>2, <3>3 DEF Balance
  <2>5. p = [balances EXCEPT ![a] = left]
    BY <1>7, <2>1, <2>2, <2>3
  <2>6. balances' = [p EXCEPT ![b].overall = @ + e.amount]
    BY <1>4, <2>2 DEF Pay
  <2>. HIDE DEF a, b
  <2>7. /\ p \in [Account -> Balance] /\ p[a] = left
        /\ \A c \in Account : c # a => p[c] = balances[c]
    BY <1>7, <2>1, <2>4, <2>5
  <2>8. PICK got : got = [p[b] EXCEPT !.overall = @ + e.amount]
    OBVIOUS
  <2>9. p[b] \in Balance
    BY <1>7, <2>7
  <2>10. /\ got \in Balance
         /\ got.overall = p[b].overall + e.amount
         /\ got.transferable = p[b].transferable
    BY <1>5, <2>8, <2>9 DEF Balance
  <2>11. balances' = [p EXCEPT ![b] = got]
    BY <2>6, <2>8
  <2>12. /\ balances' \in [Account -> Balance] /\ balances'[b] = got
         /\ \A c \in Account : c # b => balances'[c] = p[c]
    BY <1>7, <2>7, <2>10, <2>11
  <2>13. \A c \in Account : balances[c].overall \in Nat
    BY <2>1 DEF Balance
  <2>14. \A c \in Account :
           balances'[c].transferable =
             IF c = a THEN balances[c].transferable - e.amount
                      ELSE balances[c].transferable
    BY <1>7, <2>4, <2>7, <2>10, <2>12
  <2>15. \A c \in Account :
           balances'[c].overall =
             (balances[c].overall - (IF c = a THEN e.amount ELSE 0))
               + (IF c = b THEN e.amount ELSE 0)
    BY <1>5, <1>7, <2>4, <2>7, <2>10, <2>12, <2>13
  <2>. QED BY <2>12, <2>14, <2>15
<1>9. /\ log' = log \ {e}
      /\ inscribeTransfer' = inscribeTransfer \ {i}
      /\ \A l \in log' : l \in log /\ l.id # i
  BY <1>2, <1>4, <1>5 DEF ProcessTransfer, IInv, ReservationsAreLive
<1>. QED BY <1>2, <1>4, <1>5, <1>6, <1>7, <1>8, <1>9 DEF a, b

(* A first move pays the receiver what was reserved.                       *)
LEMMA TransferStep == IInv /\ ProcessTransfer => IInv'
<1>. SUFFICES ASSUME IInv, ProcessTransfer PROVE IInv'
  OBVIOUS
<1>1. /\ messages # << >> /\ messages' = Tail(messages)
      /\ body.op = "move"
      /\ UNCHANGED <<options, born, genesis, stuck, tokens>>
  BY DEF ProcessTransfer, Turn, inscriptions
<1>2. PICK e \in log, r \in Script :
        /\ message.id = {e.id} /\ e.id \in inscribeTransfer
        /\ e.owner = from /\ e.tick \in Tick /\ e.amount \in Nat \ {0}
        /\ from \in Script /\ r \in Script
        /\ log' = log \ {e}
        /\ inscribeTransfer' = inscribeTransfer \ {e.id}
        /\ holders' = HoldersAfter(from, r, e)
        /\ e.amount <= balances[<<from, e.tick>>].overall
        /\ e.amount <= balances[<<from, e.tick>>].transferable
        /\ balances' \in [Account -> Balance]
        /\ \A c \in Account : balances'[c].transferable =
             IF c = <<from, e.tick>> THEN balances[c].transferable - e.amount
                                     ELSE balances[c].transferable
        /\ \A c \in Account : balances'[c].overall =
             (balances[c].overall
                - (IF c = <<from, e.tick>> THEN e.amount ELSE 0))
             + (IF c = <<r, e.tick>> THEN e.amount ELSE 0)
  BY PayEffect
<1>. DEFINE a == <<from, e.tick>>
            b == <<r, e.tick>>
            i == e.id
<1>4. holders' = HoldersAfter(from, r, e)
  BY <1>2
<1>5. /\ e \in log /\ e.id = i /\ e.owner = from
      /\ e.tick \in Tick /\ e.amount \in Nat \ {0}
      /\ from \in Script
  BY <1>2
<1>6. r \in Script
  OBVIOUS
<1>7. /\ a \in Account /\ b \in Account
      /\ balances[a] \in Balance /\ balances[b] \in Balance
      /\ e.amount <= balances[a].overall
      /\ e.amount <= balances[a].transferable
  BY <1>2 DEF Account, IInv, TypeOK
<1>8. /\ balances' \in [Account -> Balance]
      /\ \A c \in Account :
           balances'[c].transferable =
             IF c = a THEN balances[c].transferable - e.amount
                      ELSE balances[c].transferable
      /\ \A c \in Account :
           balances'[c].overall =
             (balances[c].overall - (IF c = a THEN e.amount ELSE 0))
               + (IF c = b THEN e.amount ELSE 0)
  BY <1>2
<1>9. /\ log' = log \ {e}
      /\ inscribeTransfer' = inscribeTransfer \ {i}
      /\ \A l \in log' : l \in log /\ l.id # i
  BY <1>2 DEF IInv, ReservationsAreLive
<1>10. TypeOK'
  <2>1. holders' \subseteq Tick \X Script
    BY <1>4, <1>5, <1>6 DEF HoldersAfter, IInv, TypeOK
  <2>. QED BY <1>1, <1>8, <1>9, <2>1, AfterTurn DEF IInv, TypeOK
<1>11. MessagesOK'
  <2>1. \A j \in Id \ message.id : j \in inscribeTransfer' <=> j \in inscribeTransfer
    BY <1>2, <1>9
  <2>. QED BY <1>1, <1>9, <2>1, MessagesStep DEF IInv
<1>12. LogOK'
  <2>1. ~index_crc20 => FALSE
    BY <1>1 DEF IInv, LogOK
  <2>2. IsFiniteSet(log')
    BY <1>9, FS_RemoveElement DEF IInv, LogOK
  <2>. QED BY <1>1, <1>9, <2>1, <2>2
       DEF IInv, LogOK, Deployed, index_crc20
<1>13. Conserved'
  <2>1. ASSUME NEW t \in Tick
        PROVE  Held(t)' = tokens'[t].minted /\ tokens'[t].minted <= tokens'[t].supply
    <3>1. PICK k \in Nat : k = IF t = e.tick THEN e.amount ELSE 0
      BY <1>5
    <3>2. ASSUME NEW x \in Script
          PROVE  balances'[<<x, t>>].overall =
                   (balances[<<x, t>>].overall - (IF x = from THEN k ELSE 0))
                     + (IF x = r THEN k ELSE 0)
      <4>1. <<x, t>> \in Account /\ balances[<<x, t>>].overall \in Nat
        BY DEF Account, IInv, TypeOK, Balance
      <4>. QED BY <1>5, <1>8, <3>1, <4>1
    <3>3. Held(t)' = (Held(t) - k) + k
      BY <1>5, <1>10, <3>2, HeldMoves DEF IInv
    <3>4. /\ Held(t) = tokens[t].minted /\ tokens[t].minted \in Nat
          /\ tokens[t].minted <= tokens[t].supply
      BY DEF IInv, Conserved, TypeOK, TokenInfo
    <3>. QED BY <1>1, <3>3, <3>4
  <2>2. ASSUME NEW c \in Account
        PROVE  /\ balances'[c].transferable = Reserved(log', c)
               /\ balances'[c].transferable <= balances'[c].overall
    <3>1. /\ balances[c].transferable \in Nat /\ balances[c].overall \in Nat
          /\ balances[c].transferable <= balances[c].overall
          /\ balances[c].transferable = Reserved(log, c)
      BY DEF IInv, TypeOK, Balance, Conserved
    <3>2. /\ Reserved(log', c) \in Nat
          /\ Reserved(log, c) = Reserved(log', c)
               + (IF <<e.owner, e.tick>> = c THEN e.amount ELSE 0)
      <4>1. e \notin log' /\ log = log' \cup {e} /\ IsFiniteSet(log')
        BY <1>5, <1>9, <1>12 DEF LogOK
      <4>2. \A l \in log : l.amount \in Nat
        BY DEF IInv, TypeOK, TransferableLog
      <4>. QED BY <4>1, <4>2, ReservedAdds
    <3>3. <<e.owner, e.tick>> = a
      BY <1>5
    <3>. HIDE DEF a, b
    <3>. QED BY <1>5, <1>8, <3>1, <3>2, <3>3
  <2>. QED BY <2>1, <2>2 DEF Conserved
<1>14. HoldersAreOwners'
  <2>. SUFFICES ASSUME NEW t \in Tick, NEW s \in Script
                PROVE  <<t, s>> \in holders' <=> balances'[<<s, t>>].overall > 0
    BY DEF HoldersAreOwners
  <2>0. <<s, t>> \in Account
    BY DEF Account
  <2>1. <<t, s>> \in holders <=> balances[<<s, t>>].overall > 0
    BY DEF IInv, HoldersAreOwners
  <2>2. balances[<<s, t>>].overall \in Nat
    BY <2>0 DEF IInv, TypeOK, Balance
  <2>3. CASE <<s, t>> = b
    <3>1. <<t, s>> \in holders'
      BY <1>4, <2>3 DEF HoldersAfter
    <3>2. balances'[<<s, t>>].overall > 0
      <4>1. balances[b].overall >= (IF b = a THEN e.amount ELSE 0)
        BY <1>5, <1>7 DEF Balance
      <4>. HIDE DEF a, b
      <4>. QED BY <1>5, <1>8, <2>0, <2>2, <2>3, <4>1
    <3>. QED BY <3>1, <3>2
  <2>4. CASE <<s, t>> # b /\ <<s, t>> = a
    <3>1. from # r /\ s = from /\ t = e.tick
      BY <2>4
    <3>2. <<t, s>> \in holders' <=>
            <<t, s>> \in holders /\ balances[a].overall # e.amount
      BY <1>4, <3>1 DEF HoldersAfter
    <3>3. balances'[a].overall = balances[a].overall - e.amount
      <4>1. balances[a].overall \in Nat
        BY <1>7 DEF Balance
      <4>. HIDE DEF a, b
      <4>. QED BY <1>5, <1>7, <1>8, <2>4, <4>1
    <3>4. balances[a].overall \in Nat /\ balances[a].overall >= e.amount
      BY <1>7 DEF Balance
    <3>. HIDE DEF a, b
    <3>. QED BY <1>5, <2>1, <2>4, <3>2, <3>3, <3>4
  <2>5. CASE <<s, t>> # b /\ <<s, t>> # a
    <3>1. <<t, s>> \in holders' <=> <<t, s>> \in holders
      BY <1>4, <2>5 DEF HoldersAfter
    <3>2. balances'[<<s, t>>].overall = balances[<<s, t>>].overall
      <4>. HIDE DEF a, b
      <4>. QED BY <1>8, <2>0, <2>2, <2>5
    <3>. QED BY <2>1, <3>1, <3>2
  <2>. QED BY <2>3, <2>4, <2>5
<1>15. ReservationsAreLive'
  <2>1. ASSUME NEW l \in log'
        PROVE  genesis'[l.id] = {l.owner} \/ Moving(l)'
    <3>1. l \in log /\ message.id # {l.id}
      BY <1>2, <1>9
    <3>. QED BY <1>1, <3>1, MovingOn DEF IInv, ReservationsAreLive
  <2>2. \A j \in inscribeTransfer' : \E l \in log' : l.id = j
    BY <1>5, <1>9 DEF IInv, ReservationsAreLive
  <2>3. \A l \in log' : l.id \in inscribeTransfer'
    BY <1>9 DEF IInv, ReservationsAreLive
  <2>. QED BY <1>9, <2>1, <2>2, <2>3 DEF IInv, ReservationsAreLive
<1>. QED BY <1>10, <1>11, <1>12, <1>13, <1>14, <1>15 DEF IInv

(* A message without effect; it cannot be a first move.                    *)
LEMMA RejectStep == IInv /\ Reject => IInv'
<1>. SUFFICES ASSUME IInv, Reject PROVE IInv'
  OBVIOUS
<1>1. /\ messages # << >> /\ messages' = Tail(messages)
      /\ UNCHANGED <<options, born, genesis, stuck, tables>>
  BY DEF Reject, Turn, inscriptions
<1>2. body.op # "move"
  <2>1. body.op = "move" => \A l \in Transferables : ~TransferAccepted(l)
    BY DEF Reject, Turn
  <2>. QED BY <1>1, <2>1, ReservationPays DEF FirstMovePays
<1>3. TypeOK'
  BY <1>1, AfterTurn DEF IInv, TypeOK, tables
<1>4. MessagesOK'
  BY <1>1, MessagesStep DEF IInv, tables
<1>5. LogOK'
  <2>1. ~index_crc20 => FALSE
    BY <1>1 DEF IInv, LogOK
  <2>. QED BY <1>1, <2>1 DEF IInv, LogOK, Deployed, index_crc20, tables
<1>6. Conserved' /\ HoldersAreOwners'
  BY <1>1, ConservedStays DEF IInv, HoldersAreOwners, tables
<1>7. ReservationsAreLive'
  BY <1>1, <1>2, LiveStep DEF IInv, tables
<1>. QED BY <1>3, <1>4, <1>5, <1>6, <1>7 DEF IInv

(* A block that cannot be indexed changes nothing.                         *)
LEMMA IdleStep == IInv /\ (Fail \/ UNCHANGED vars) => IInv'
<1>. SUFFICES ASSUME IInv, Fail \/ UNCHANGED vars PROVE IInv'
  OBVIOUS
<1>1. /\ UNCHANGED <<options, inscriptions, messages, tables>>
      /\ stuck' \in BOOLEAN
  BY DEF Fail, vars, IInv, TypeOK
<1>2. TypeOK'
  BY <1>1 DEF IInv, TypeOK, inscriptions, tables
<1>3. MessagesOK'
  <2>1. ASSUME NEW k \in 1 .. Len(messages)
        PROVE  MessageOK(messages[k])'
    <3>1. MessageOK(messages[k])
      BY DEF IInv, MessagesOK
    <3>2. PICK m : m = messages[k]
      OBVIOUS
    <3>3. NewOK(m) <=> NewOK(m)'
      BY <1>1 DEF NewOK, inscriptions, tables
    <3>4. MoveOK(m) <=> MoveOK(m)'
      BY <1>1 DEF MoveOK, tables
    <3>5. messages'[k] = m
      BY <1>1, <3>2
    <3>. QED BY <3>1, <3>2, <3>3, <3>4, <3>5 DEF MessageOK, Silent, Ignored
  <2>. QED BY <1>1, <2>1 DEF IInv, MessagesOK
<1>4. LogOK'
  BY <1>1 DEF IInv, LogOK, Deployed, index_crc20, inscriptions, tables
<1>5. Conserved' /\ HoldersAreOwners'
  BY <1>1, ConservedStays DEF IInv, HoldersAreOwners, tables
<1>6. ReservationsAreLive'
  BY <1>1 DEF IInv, ReservationsAreLive, Moving, inscriptions, tables
<1>. QED BY <1>2, <1>3, <1>4, <1>5, <1>6 DEF IInv

-----------------------------------------------------------------------------
(* A transaction                                                           *)

OpsOK(ops) ==
  /\ ops \in Seq(NewOp \cup TransferOp)
  /\ \A k \in 1 .. Len(ops) :
       \/ ops[k] \in NewOp /\ ops[k].id \notin born
       \/ ops[k] \in TransferOp /\ ops[k].id \in born

(* The operations of a transaction make inscriptions that are not there    *)
(* yet and move inscriptions that are.                                     *)
LEMMA TransactionOps ==
  ASSUME Transaction
  PROVE  \E ops : OpsOK(ops) /\ IndexTransaction(ops)
<1>1. PICK first \in First, moves \in Moves : IndexTransaction(first \o moves)
  BY DEF Transaction
<1>2. PICK n \in 0 .. MaxMoves :
        moves \in [1 .. n -> {o \in TransferOp : o.id \in born}]
  BY DEF Moves
<1>3. n \in Nat
  BY LedgerAssumption
<1>4. /\ moves \in Seq(NewOp \cup TransferOp) /\ Len(moves) = n
      /\ \A k \in 1 .. Len(moves) :
           moves[k] \in TransferOp /\ moves[k].id \in born
  BY <1>2, <1>3
<1>5. /\ first \in Seq(NewOp \cup TransferOp)
      /\ \A k \in 1 .. Len(first) :
           first[k] \in NewOp /\ first[k].id \notin born
  <2>1. CASE first = << >>
    BY <2>1
  <2>2. CASE \E o \in NewOp : o.id \notin born /\ first = <<o>>
    BY <2>2
  <2>. QED BY <2>1, <2>2 DEF First
<1>6. OpsOK(first \o moves)
  <2>1. /\ first \o moves \in Seq(NewOp \cup TransferOp)
        /\ Len(first \o moves) = Len(first) + Len(moves)
        /\ \A k \in 1 .. Len(first) + Len(moves) :
             (first \o moves)[k] = IF k <= Len(first) THEN first[k]
                                   ELSE moves[k - Len(first)]
    BY <1>4, <1>5, ConcatProperties
  <2>2. Len(first) \in Nat
    BY <1>5, LenProperties
  <2>3. ASSUME NEW k \in 1 .. Len(first \o moves)
        PROVE  \/ /\ (first \o moves)[k] \in NewOp
                  /\ (first \o moves)[k].id \notin born
               \/ /\ (first \o moves)[k] \in TransferOp
                  /\ (first \o moves)[k].id \in born
    <3>1. CASE k <= Len(first)
      BY <1>5, <2>1, <2>2, <3>1
    <3>2. CASE ~(k <= Len(first))
      <4>1. k - Len(first) \in 1 .. Len(moves)
        BY <1>3, <1>4, <2>1, <2>2, <3>2
      <4>. QED BY <1>4, <2>1, <3>2, <4>1
    <3>. QED BY <3>1, <3>2
  <2>. QED BY <2>1, <2>3 DEF OpsOK
<1>. QED BY <1>1, <1>6

(* Where a new inscription lies after its transaction, and a moved one.    *)
LEMMA WhereItLands ==
  ASSUME TypeOK, NEW ops, OpsOK(ops), IndexTransaction(ops)
  PROVE  /\ \A k \in 1 .. Len(ops) :
              /\ ops[k].id \in Id /\ ops[k].to \in Receiver
              /\ ops[k] \in NewOp =>
                   ops[k].action = "new" /\ genesis'[ops[k].id] = ops[k].to
              /\ ops[k] \in TransferOp =>
                   ops[k].action = "transfer" /\ genesis'[ops[k].id] = {}
         /\ \A i \in Id \ Ids(ops) : genesis'[i] = genesis[i]
         /\ genesis' \in [Id -> Receiver]
<1>1. ASSUME NEW k \in 1 .. Len(ops)
      PROVE  /\ ops[k].id \in Id /\ ops[k].to \in Receiver
             /\ ops[k].id \in Ids(ops)
             /\ ops[k] \in NewOp => ops[k].action = "new"
             /\ ops[k] \in TransferOp => ops[k].action = "transfer"
             /\ ops[k] \in NewOp \/ ops[k] \in TransferOp
  BY DEF OpsOK, NewOp, TransferOp, Ids
<1>2. \A k, l \in 1 .. Len(ops) : k # l => ops[k].id # ops[l].id
  BY DEF IndexTransaction
<1>3. genesis' = [i \in Id |-> IF i \in Ids(ops) THEN Landed(ops, i)
                                                ELSE genesis[i]]
  BY DEF IndexTransaction
<1>4. ASSUME NEW k \in 1 .. Len(ops), ops[k] \in NewOp
      PROVE  Landed(ops, ops[k].id) = ops[k].to
  <2>1. {l \in 1 .. Len(ops) : ops[l].id = ops[k].id /\ ops[l].action = "new"}
          = {k}
    BY <1>1, <1>2, <1>4
  <2>. QED BY <2>1 DEF Landed
<1>5. ASSUME NEW k \in 1 .. Len(ops), ops[k] \in TransferOp
      PROVE  Landed(ops, ops[k].id) = {}
  <2>1. {l \in 1 .. Len(ops) : ops[l].id = ops[k].id /\ ops[l].action = "new"}
          = {}
    BY <1>1, <1>2, <1>5
  <2>. QED BY <2>1 DEF Landed
<1>6. \A i \in Ids(ops) : Landed(ops, i) \in Receiver
  <2>1. ASSUME NEW k \in 1 .. Len(ops)
        PROVE  Landed(ops, ops[k].id) \in Receiver
    BY <1>1, <1>4, <1>5 DEF Receiver
  <2>. QED BY <2>1 DEF Ids
<1>7. genesis' \in [Id -> Receiver]
  BY <1>3, <1>6 DEF TypeOK
<1>8. \A k \in 1 .. Len(ops) :
        /\ ops[k] \in NewOp => genesis'[ops[k].id] = ops[k].to
        /\ ops[k] \in TransferOp => genesis'[ops[k].id] = {}
  BY <1>1, <1>3, <1>4, <1>5
<1>9. \A i \in Id \ Ids(ops) : genesis'[i] = genesis[i]
  BY <1>3
<1>. QED BY <1>1, <1>7, <1>8, <1>9

(* Every operation resolves to a sound message of its own inscription.     *)
LEMMA ResolveOK ==
  ASSUME IInv, NEW ops, OpsOK(ops), IndexTransaction(ops),
         NEW k \in 1 .. Len(ops)
  PROVE  \E m \in Message :
           /\ m = Resolve(ops[k])
           /\ m.id \subseteq {ops[k].id}
           /\ m = Silent \/ NewOK(m)' \/ MoveOK(m)'
<1>. DEFINE o == ops[k]
<1>1. /\ UNCHANGED <<log, inscribeTransfer>>
      /\ born' = born \cup Ids(ops) /\ o.id \in Ids(ops)
  BY DEF IndexTransaction, tables, Ids
<1>2. Silent \in Message
  BY DEF Silent, Message, Receiver
<1>3. o.id \in Id /\ o.to \in Receiver
  BY WhereItLands DEF IInv
<1>4. PICK m : m = Resolve(o)
  OBVIOUS
<1>5. CASE o \in NewOp /\ o.id \notin born
  <2>1. m = NewMessage(o) /\ genesis'[o.id] = o.to
    BY <1>4, <1>5, WhereItLands DEF Resolve, IInv
  <2>2. CASE o.to = {}
    BY <1>2, <1>4, <2>1, <2>2 DEF NewMessage, Silent
  <2>3. CASE o.to # {}
    <3>1. m = [id |-> {o.id}, from |-> {}, to |-> o.to, body |-> o.body]
      BY <2>1, <2>3 DEF NewMessage
    <3>2. o.body \in Body
      BY <1>5 DEF NewOp
    <3>3. m \in Message
      BY <1>3, <3>1, <3>2 DEF Message, Receiver
    <3>4. PICK s \in Script : o.to = {s}
      BY <1>3, <2>3 DEF Receiver
    <3>5. o.id \in born' /\ o.id \notin inscribeTransfer'
      BY <1>1, <1>5 DEF IInv, LogOK
    <3>6. NewOK(m)'
      BY <2>1, <3>1, <3>2, <3>4, <3>5 DEF NewOK
    <3>. QED BY <1>4, <3>1, <3>3, <3>6
  <2>. QED BY <2>2, <2>3
<1>6. CASE o \in TransferOp /\ o.id \in born
  <2>1. m = TransferMessage(o)
    BY <1>4, <1>6, WhereItLands DEF Resolve, IInv
  <2>2. CASE ~(o.id \in inscribeTransfer /\ genesis[o.id] # {})
    BY <1>2, <1>4, <2>1, <2>2 DEF TransferMessage, Silent
  <2>3. CASE o.id \in inscribeTransfer /\ genesis[o.id] # {}
    <3>1. m = [id |-> {o.id}, from |-> genesis[o.id], to |-> o.to,
               body |-> [op |-> "move"]]
      BY <2>1, <2>3 DEF TransferMessage
    <3>2. PICK s \in Script : genesis[o.id] = {s}
      BY <1>3, <2>3 DEF IInv, TypeOK, Receiver
    <3>3. m \in Message
      BY <1>3, <3>1, <3>2 DEF Message, Receiver
    <3>4. \A l \in log : l.id = o.id => l.owner = s
      <4>1. messages = << >>
        BY DEF IndexTransaction
      <4>2. \A l \in log : ~Moving(l)
        BY <4>1 DEF Moving
      <4>3. \A l \in log : genesis[l.id] = {l.owner}
        BY <4>2 DEF IInv, ReservationsAreLive
      <4>. QED BY <3>2, <4>3
    <3>5. MoveOK(m)'
      BY <1>1, <2>3, <3>1, <3>2, <3>4 DEF MoveOK
    <3>. QED BY <1>4, <3>1, <3>3, <3>5
  <2>. QED BY <2>2, <2>3
<1>. QED BY <1>5, <1>6 DEF OpsOK

(* A transaction moves inscriptions and leaves the tables alone.           *)
LEMMA TransactionStep == IInv /\ Transaction => IInv'
<1>. SUFFICES ASSUME IInv, Transaction PROVE IInv'
  OBVIOUS
<1>1. PICK ops : OpsOK(ops) /\ IndexTransaction(ops)
  BY TransactionOps
<1>2. /\ messages = << >>
      /\ UNCHANGED <<options, tokens, balances, holders, log, inscribeTransfer,
                     stuck>>
      /\ born' = born \cup Ids(ops)
      /\ \A k, l \in 1 .. Len(ops) : k # l => ops[k].id # ops[l].id
  BY <1>1 DEF IndexTransaction, tables
<1>3. Len(ops) \in Nat
  BY <1>1, LenProperties DEF OpsOK
<1>4. CASE ~index_crc20
  <2>1. messages' = << >> /\ log = {}
    BY <1>1, <1>2, <1>4 DEF IndexTransaction, IInv, LogOK
  <2>2. TypeOK'
    BY <1>1, <1>2, <2>1, WhereItLands DEF IInv, TypeOK, Ids
  <2>3. MessagesOK'
    BY <2>1 DEF MessagesOK
  <2>4. LogOK'
    BY <1>2, <1>4, <2>1 DEF IInv, LogOK, Deployed, index_crc20
  <2>5. Conserved' /\ HoldersAreOwners' /\ ReservationsAreLive'
    BY <1>2, <2>1, ConservedStays
       DEF IInv, HoldersAreOwners, ReservationsAreLive
  <2>. QED BY <2>2, <2>3, <2>4, <2>5 DEF IInv
<1>5. CASE index_crc20
  <2>1. messages' = [k \in 1 .. Len(ops) |-> Resolve(ops[k])]
    BY <1>1, <1>5 DEF IndexTransaction
  <2>2. \A k \in 1 .. Len(ops) :
          /\ messages'[k] \in Message
          /\ messages'[k].id \subseteq {ops[k].id}
          /\ messages'[k] = Resolve(ops[k])
    BY <1>1, <2>1, ResolveOK
  <2>3. messages' \in Seq(Message) /\ Len(messages') = Len(ops)
    BY <1>3, <2>1, <2>2
  <2>4. TypeOK'
    <3>1. Ids(ops) \subseteq Id
      BY <1>1, WhereItLands DEF IInv, Ids
    <3>. QED BY <1>1, <1>2, <2>3, <3>1, WhereItLands DEF IInv, TypeOK
  <2>5. MessagesOK'
    <3>1. ASSUME NEW k \in 1 .. Len(messages')
          PROVE  MessageOK(messages[k])'
      <4>1. PICK m \in Message :
              /\ m = Resolve(ops[k])
              /\ m = Silent \/ NewOK(m)' \/ MoveOK(m)'
        BY <1>1, <2>3, ResolveOK
      <4>2. messages'[k] = m
        BY <2>2, <2>3, <4>1
      <4>. QED BY <4>1, <4>2 DEF MessageOK, Silent, Ignored
    <3>2. \A k, l \in 1 .. Len(messages') :
            k # l => messages'[k].id \cap messages'[l].id = {}
      BY <1>2, <2>2, <2>3
    <3>. QED BY <3>1, <3>2 DEF MessagesOK
  <2>6. LogOK'
    BY <1>2, <1>5 DEF IInv, LogOK, Deployed, index_crc20
  <2>7. Conserved' /\ HoldersAreOwners'
    BY <1>2, ConservedStays DEF IInv, HoldersAreOwners
  <2>8. ReservationsAreLive'
    <3>1. ASSUME NEW l \in log
          PROVE  genesis'[l.id] = {l.owner} \/ Moving(l)'
      <4>1. genesis[l.id] = {l.owner} /\ l.id \in inscribeTransfer
        BY <1>2 DEF IInv, ReservationsAreLive, Moving
      <4>2. l.id \in born /\ l.id \in Id
        BY <4>1 DEF IInv, LogOK, TypeOK
      <4>3. CASE l.id \notin Ids(ops)
        BY <1>1, <4>1, <4>2, <4>3, WhereItLands DEF IInv
      <4>4. CASE l.id \in Ids(ops)
        <5>1. PICK k \in 1 .. Len(ops) : ops[k].id = l.id
          BY <4>4 DEF Ids
        <5>2. ops[k] \in TransferOp
          BY <1>1, <4>2, <5>1 DEF OpsOK
        <5>3. messages'[k] = TransferMessage(ops[k])
          BY <1>1, <2>2, <5>2, WhereItLands DEF Resolve, IInv
        <5>4. messages'[k] = [id |-> {l.id}, from |-> {l.owner},
                              to |-> ops[k].to, body |-> [op |-> "move"]]
          BY <4>1, <5>1, <5>3 DEF TransferMessage
        <5>5. k \in 1 .. Len(messages')
          BY <2>3
        <5>. QED BY <5>4, <5>5 DEF Moving
      <4>. QED BY <4>3, <4>4
    <3>. QED BY <1>2, <3>1 DEF IInv, ReservationsAreLive
  <2>. QED BY <2>4, <2>5, <2>6, <2>7, <2>8 DEF IInv
<1>. QED BY <1>4, <1>5

-----------------------------------------------------------------------------
(* The invariant and what it gives                                         *)

(* An empty ledger satisfies the invariant.                                *)
LEMMA InitOK == Init => IInv
<1>. SUFFICES ASSUME Init PROVE IInv
  OBVIOUS
<1>1. TypeOK
  <2>1. << >> \in Seq(Message)
    BY EmptySeq
  <2>2. [a \in Account |-> [overall |-> 0, transferable |-> 0]]
          \in [Account -> Balance]
    BY DEF Balance
  <2>3. [t \in Tick |-> [supply |-> 0, limit |-> 0, minted |-> 0]]
          \in [Tick -> TokenInfo]
    BY DEF TokenInfo
  <2>. HIDE DEF Message, Account, Balance, TokenInfo
  <2>. QED BY <2>1, <2>2, <2>3 DEF Init, TypeOK, Receiver
<1>2. MessagesOK /\ LogOK
  BY FS_EmptySet DEF Init, MessagesOK, LogOK
<1>3. Conserved
  <2>1. ASSUME NEW t \in Tick
        PROVE  Held(t) = tokens[t].minted /\ tokens[t].minted <= tokens[t].supply
    <3>1. tokens[t].minted = 0 /\ tokens[t].supply = 0
      BY DEF Init
    <3>. DEFINE f == [s \in Script |-> balances[<<s, t>>].overall]
    <3>2. \A s \in Script : f[s] = 0
      BY DEF Init, Account
    <3>3. Held(t) = SumFunctionOnSet(f, Script)
      BY DEF Held
    <3>. HIDE DEF f
    <3>4. SumFunctionOnSet(f, Script) = 0
      BY <3>2, SumOfZeros, ScriptAssumption
    <3>. QED BY <3>1, <3>3, <3>4
  <2>2. ASSUME NEW a \in Account
        PROVE  /\ balances[a].transferable = Reserved(log, a)
               /\ balances[a].transferable <= balances[a].overall
    <3>1. balances[a].transferable = 0 /\ balances[a].overall = 0
      BY DEF Init
    <3>. DEFINE f == [l \in log |-> l.amount]
    <3>2. Reserved(log, a) = SumFunctionOnSet(f, {})
      <4>1. {l \in log : <<l.owner, l.tick>> = a} = {}
        BY DEF Init
      <4>. QED BY <4>1 DEF Reserved
    <3>. HIDE DEF f
    <3>3. Reserved(log, a) = 0
      BY <3>2, SumEmpty
    <3>. QED BY <3>1, <3>3
  <2>. QED BY <2>1, <2>2 DEF Conserved
<1>4. HoldersAreOwners
  BY DEF Init, HoldersAreOwners, Account
<1>5. ReservationsAreLive
  BY DEF Init, ReservationsAreLive
<1>. QED BY <1>1, <1>2, <1>3, <1>4, <1>5 DEF IInv

(* The invariant is inductive.                                             *)
LEMMA NextOK == IInv /\ [Next]_vars => IInv'
BY TransactionStep, DeployStep, MintStep, InscribeTransferStep, TransferStep,
   RejectStep, IdleStep DEF Next

(* The invariant holds in every reachable state.                           *)
LEMMA Invariance == Spec => []IInv
BY InitOK, NextOK, PTL DEF Spec

(* Every state of the ledger is well formed.                               *)
THEOREM Crc20TypeCorrect == Spec => []TypeOK
<1>1. IInv => TypeOK
  BY DEF IInv
<1>. QED BY <1>1, Invariance, PTL

(* The holders listed for a token are the scripts that own some of it.     *)
THEOREM HoldersCorrect == Spec => []HoldersAreOwners
<1>1. IInv => HoldersAreOwners
  BY DEF IInv
<1>. QED BY <1>1, Invariance, PTL

(* No reserved amount is stranded: its inscription can still be moved for  *)
(* the first time, and the tables that must then be found are there.       *)
THEOREM ReservationsStayLive == Spec => []ReservationsAreLive
<1>1. IInv => ReservationsAreLive
  BY DEF IInv
<1>. QED BY <1>1, Invariance, PTL

(* Tokens are neither made nor lost: the balances of a token add up to     *)
(* what has been minted of it, and the reservations of an account to its   *)
(* transferable balance.                                                   *)
THEOREM TokensAreConserved == Spec => []Conserved
<1>1. IInv => Conserved
  BY DEF IInv
<1>. QED BY <1>1, Invariance, PTL

(* A first move is never rejected: the reservations of an account fit into *)
(* its transferable balance.                                               *)
THEOREM FirstMoveAlwaysPays == Spec => []FirstMovePays
BY ReservationPays, Invariance, PTL

-----------------------------------------------------------------------------
(* The ledger implements a ledger of notes                                 *)

(* A step of the handlers is a step of TokenNotes, or leaves it alone.     *)
LEMMA NotesStep ==
  IInv /\ [Next]_vars => [Notes!LedgerNext]_(Notes!ledger)
<1>. SUFFICES ASSUME IInv, [Next]_vars
              PROVE  [Notes!LedgerNext]_(Notes!ledger)
  OBVIOUS
<1>1. ASSUME UNCHANGED <<tokens, balances, log>>
      PROVE  UNCHANGED Notes!ledger
  BY <1>1 DEF Notes!ledger
<1>2. CASE Transaction
  BY <1>1, <1>2 DEF Transaction, IndexTransaction, tables
<1>3. CASE Reject \/ Fail \/ UNCHANGED vars
  BY <1>1, <1>3 DEF Reject, Fail, vars, tables
<1>. DEFINE cap == [t \in Tick |-> tokens[t].supply]
            issued == [t \in Tick |-> tokens[t].minted]
            available == [a \in Account |-> balances[a].overall
                                              - balances[a].transferable]
<1>0. /\ \A a \in Account : /\ balances[a].overall \in Nat
                            /\ balances[a].transferable \in Nat
                            /\ balances[a].transferable <= balances[a].overall
      /\ \A t \in Tick : tokens[t].supply \in Nat /\ tokens[t].minted \in Nat
  BY DEF IInv, TypeOK, Balance, TokenInfo, Conserved
<1>4. CASE ProcessDeploy
  <2>1. PICK t \in Tick :
          /\ tokens[t].supply = 0
          /\ tokens' = [tokens EXCEPT ![t] = [supply |-> body.supply,
                                    limit |-> body.limit, minted |-> 0]]
          /\ body.supply \in Nat \ {0}
          /\ UNCHANGED <<balances, log>>
    <3>1. messages # << >> /\ body.op = "deploy"
      BY <1>4 DEF ProcessDeploy, Turn
    <3>2. body.tick \in Tick /\ body.supply \in Nat
      BY <3>1, NewHead, BodyFields DEF IInv
    <3>3. tokens[body.tick].supply = 0 /\ body.supply # 0
      BY <1>4, <3>2, LedgerAssumption
         DEF ProcessDeploy, DeployAccepted, Deployed
    <3>. QED BY <1>4, <3>2, <3>3 DEF ProcessDeploy
  <2>. QED
    <3>1. cap'[t] = body.supply /\ cap' = [cap EXCEPT ![t] = cap'[t]]
      BY <2>1 DEF IInv, TypeOK
    <3>2. UNCHANGED <<balances, log>>
      BY <2>1
    <3>3. issued' = issued
      <4>1. tokens[t].minted = 0
        BY <1>0, <2>1 DEF IInv, Conserved
      <4>2. \A u \in Tick : tokens'[u].minted = tokens[u].minted
        BY <2>1, <4>1 DEF IInv, TypeOK
      <4>. QED BY <4>2
    <3>4. Notes!Create(t)
      BY <2>1, <3>1, <3>2, <3>3 DEF Notes!Create
    <3>. QED BY <3>4 DEF Notes!LedgerNext
<1>5. CASE ProcessMint
  <2>1. PICK o \in Script, t \in Tick : o = to /\ t = body.tick
    BY <1>5, MintEffect
  <2>2. PICK n \in Nat \ {0} :
          /\ tokens[t].minted + n <= tokens[t].supply
          /\ \A u \in Tick : tokens'[u].minted =
               tokens[u].minted + (IF u = t THEN n ELSE 0)
          /\ \A b \in Account : balances'[b].overall =
               balances[b].overall + (IF b = <<o, t>> THEN n ELSE 0)
    BY <1>5, <2>1, MintEffect
  <2>3. /\ \A u \in Tick : tokens'[u].supply = tokens[u].supply
        /\ \A b \in Account : balances'[b].transferable = balances[b].transferable
    BY <1>5, MintEffect
  <2>4. log' = log /\ cap' = cap
    BY <1>5, <2>3 DEF ProcessMint
  <2>5. /\ issued'[t] = issued[t] + n
        /\ issued'[t] > issued[t] /\ issued'[t] <= cap[t]
        /\ issued' = [issued EXCEPT ![t] = issued'[t]]
    <3>1. issued'[t] = issued[t] + n
      BY <2>2
    <3>2. issued'[t] > issued[t] /\ issued'[t] <= cap[t]
      BY <1>0, <2>2, <3>1
    <3>3. \A u \in Tick : issued'[u] = [issued EXCEPT ![t] = issued'[t]][u]
      BY <1>0, <2>2
    <3>. QED BY <3>1, <3>2, <3>3
  <2>6. available' = [available EXCEPT ![<<o, t>>] = @ + n]
    <3>1. ASSUME NEW b \in Account
          PROVE  available'[b] =
                   [available EXCEPT ![<<o, t>>] = @ + n][b]
      BY <1>0, <2>2, <2>3
    <3>. QED BY <3>1
  <2>7. issued'[t] - issued[t] = n
    BY <1>0, <2>5
  <2>8. Notes!Issue(o, t)
    BY <2>4, <2>5, <2>6, <2>7 DEF Notes!Issue
  <2>. QED BY <2>8 DEF Notes!LedgerNext
<1>6. CASE ProcessInscribeTransfer
  <2>1. PICK i \in born \ inscribeTransfer, o \in Script, t \in Tick :
          /\ o = to /\ t = body.tick
          /\ i \in Id
          /\ body.amount \in Nat \ {0}
          /\ balances[<<o, t>>].transferable + body.amount
               <= balances[<<o, t>>].overall
          /\ log' = log \cup {ReservedBy(i)}
          /\ \A b \in Account : b # <<o, t>> => balances'[b] = balances[b]
          /\ balances'[<<o, t>>].transferable
               = balances[<<o, t>>].transferable + body.amount
          /\ \A b \in Account : balances'[b].overall = balances[b].overall
          /\ \A l \in log : l.id # i
    BY <1>6, ReserveEffect
  <2>2. PICK n \in Nat \ {0} : n = body.amount
    BY <2>1
  <2>3. log' = log \cup {[id |-> i, owner |-> o, tick |-> t, amount |-> n]}
    BY <2>1, <2>2 DEF ReservedBy
  <2>4. cap' = cap /\ issued' = issued
    BY <1>6 DEF ProcessInscribeTransfer
  <2>5. <<o, t>> \in Account
    BY DEF Account
  <2>6. /\ available[<<o, t>>] - available'[<<o, t>>] = n
        /\ n \in 1 .. available[<<o, t>>]
    BY <1>0, <2>1, <2>2, <2>5
  <2>7. available' = [available EXCEPT ![<<o, t>>] = @ - n]
    <3>1. ASSUME NEW b \in Account
          PROVE  available'[b] =
                   [available EXCEPT ![<<o, t>>] = @ - n][b]
      BY <1>0, <2>1, <2>2
    <3>. QED BY <3>1
  <2>8. Notes!Write(i, o, t)
    BY <2>1, <2>3, <2>4, <2>6, <2>7 DEF Notes!Write
  <2>. QED BY <2>1, <2>8 DEF Notes!LedgerNext
<1>7. CASE ProcessTransfer
  <2>1. PICK e \in log, r \in Script, o \in Script :
          /\ o = from
          /\ e.tick \in Tick /\ e.amount \in Nat \ {0}
          /\ log' = log \ {e}
          /\ e.amount <= balances[<<o, e.tick>>].overall
          /\ e.amount <= balances[<<o, e.tick>>].transferable
          /\ \A c \in Account : balances'[c].transferable =
               IF c = <<o, e.tick>> THEN balances[c].transferable - e.amount
                                    ELSE balances[c].transferable
          /\ \A c \in Account : balances'[c].overall =
               (balances[c].overall
                  - (IF c = <<o, e.tick>> THEN e.amount ELSE 0))
               + (IF c = <<r, e.tick>> THEN e.amount ELSE 0)
    BY <1>7, PayEffect, ZenonT(60)
  <2>2. cap' = cap /\ issued' = issued
    BY <1>7 DEF ProcessTransfer
  <2>3. available' = [available EXCEPT ![<<r, e.tick>>] = @ + e.amount]
    <3>1. ASSUME NEW b \in Account
          PROVE  available'[b] =
                   [available EXCEPT ![<<r, e.tick>>] = @ + e.amount][b]
      BY <1>0, <2>1
    <3>. QED BY <3>1
  <2>4. Notes!Redeem(e, r)
    BY <2>1, <2>2, <2>3 DEF Notes!Redeem
  <2>. QED BY <2>4 DEF Notes!LedgerNext
<1>. QED BY <1>2, <1>3, <1>4, <1>5, <1>6, <1>7 DEF Next

(* The handlers implement a ledger of notes: tokens are issued within the  *)
(* cap and leave an account only by what its owner reserved, once.         *)
THEOREM ImplementsTokenNotes == Spec => LedgerIsTokenNotes
<1>1. Init => Notes!LedgerInit
  BY DEF Init, Notes!LedgerInit, Account
<1>. QED BY <1>1, NotesStep, Invariance, PTL
     DEF Spec, LedgerIsTokenNotes, Notes!LedgerSpec

=============================================================================
