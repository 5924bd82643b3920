-------------------------------- MODULE SatFlow --------------------------------
(***************************************************************************)
(* What a sat index promises: ordinal theory, stated sat by sat and by     *)
(* position, with no ranges and no tables.  Every sat mined is at one      *)
(* place.  A transaction lines its inputs up and its outputs under them:   *)
(* the sat at a position goes to the output over that position, and the    *)
(* sats beyond the last output queue up behind the subsidy.  The coinbase  *)
(* shares that queue out in the same way, and what it leaves is lost.      *)
(***************************************************************************)
EXTENDS Ordinals

CONSTANTS
  OutPoint,         \* the outputs of transactions
  Queue,            \* the place of subsidy and fees until the coinbase
  Lost              \* the place of what the coinbase leaves

VARIABLES
  mined,            \* the number of sats so far
  at,               \* at[s]: the place sat s is at, and its offset there
  size              \* size[o]: the number of sats at a place in use

flow == <<mined, at, size>>

Place == OutPoint \cup {Queue, Lost}

FlowInit ==
  /\ mined = 0
  /\ at = << >>
  /\ size = [p \in {Queue, Lost} |-> 0]

(* The subsidy of a block is put in the queue.                             *)
Mine(n) ==
  /\ size[Queue] = 0
  /\ mined' = mined + n
  /\ at' = [s \in 0 .. mined + n - 1 |->
              IF s < mined THEN at[s]
              ELSE [outpoint |-> Queue, offset |-> s - mined]]
  /\ size' = [size EXCEPT ![Queue] = n]

(* Sats at the places ins are moved to new outputs of the given values,    *)
(* and those beyond them to the end of rest.                               *)
Share(ins, outs, values, rest) ==
  LET inSizes == [i \in DOMAIN ins |-> size[ins[i]]]
      Position(place) ==
        StartOf(inSizes, CHOOSE i \in DOMAIN ins : ins[i] = place.outpoint)
          + place.offset
      Under(p) == {j \in DOMAIN outs : p < StartOf(values, j) + values[j]}
      NewPlace(p) ==
        IF Under(p) # {}
        THEN [outpoint |-> outs[Min(Under(p))],
              offset |-> p - StartOf(values, Min(Under(p)))]
        ELSE [outpoint |-> rest, offset |-> size[rest] + p - Total(values)]
      Moved(place) == IF place.outpoint \in ToSet(ins)
                      THEN NewPlace(Position(place)) ELSE place
  IN  /\ Total(values) <= Total(inSizes)
      /\ at' = [s \in DOMAIN at |-> Moved(at[s])]
      /\ size' = [p \in ((DOMAIN size) \ (ToSet(ins) \ {Queue})) \cup ToSet(outs) |->
                    CASE p \in ToSet(outs) ->
                           values[CHOOSE j \in DOMAIN outs : outs[j] = p]
                      [] p = rest ->
                           size[rest] + Total(inSizes) - Total(values)
                      [] p = Queue /\ Queue \in ToSet(ins) -> 0
                      [] OTHER -> size[p]]
      /\ UNCHANGED mined

New(outs, values) ==
  /\ IsInjective(outs)
  /\ ToSet(outs) \subseteq OutPoint \ DOMAIN size
  /\ DOMAIN values = DOMAIN outs

Spend(ins, outs, values) ==
  /\ IsInjective(ins)
  /\ ToSet(ins) \subseteq (DOMAIN size) \ {Queue, Lost}
  /\ New(outs, values)
  /\ Share(ins, outs, values, Queue)

Collect(outs, values) ==
  /\ New(outs, values)
  /\ Share(<<Queue>>, outs, values, Lost)

(* The places a step gives up and those it brings are the inputs and the   *)
(* outputs of its transaction, in an order of its own.                     *)
FlowNext ==
  \/ mined' > mined /\ Mine(mined' - mined)
  \/ \E ins \in SetToSeqs((DOMAIN size) \ (DOMAIN size')),
        outs \in SetToSeqs((DOMAIN size') \ (DOMAIN size)) :
       LET values == [j \in DOMAIN outs |-> size'[outs[j]]]
       IN  \/ ins # << >> /\ Spend(ins, outs, values)
           \/ ins = << >> /\ Collect(outs, values)

FlowSpec == FlowInit /\ [][FlowNext]_flow
===============================================================================
