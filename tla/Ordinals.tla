------------------------------- MODULE Ordinals -------------------------------
(***************************************************************************)
(* Ordinal arithmetic: the numbering of sats by epochs (epoch.rs,          *)
(* height.rs, sat.rs), and sequences of half-open sat ranges <<start, end>>.*)
(* The table of epochs is a constant; Dogecoin's has 8 rows, and a run has *)
(* one of its own with the same shape.                                     *)
(***************************************************************************)
EXTENDS Integers, Sequences, FiniteSets, SequencesExt, FiniteSetsExt, Functions

CONSTANTS
  EpochHeight,      \* Epoch::starting_height
  EpochSubsidy,     \* Epoch::subsidy
  EpochSat,         \* Epoch::STARTING_SATS
  BaseLimit,        \* 2^51: what the start of a stored range can say,
  DeltaLimit        \* 2^37:   and what its size can

Epochs == DOMAIN EpochSat

ASSUME EpochAssumption ==
  /\ EpochSat \in Seq(Nat) /\ EpochSat # << >>
  /\ EpochHeight \in [Epochs -> Nat]
  /\ EpochSubsidy \in [Epochs -> Nat \ {0}]
  /\ EpochHeight[1] = 0 /\ EpochSat[1] = 0
  /\ \A e \in Epochs \ {1} :
       /\ EpochHeight[e] > EpochHeight[e - 1]
       /\ EpochSat[e] = EpochSat[e - 1]
            + (EpochHeight[e] - EpochHeight[e - 1]) * EpochSubsidy[e - 1]

ASSUME LimitAssumption == BaseLimit \in Nat \ {0} /\ DeltaLimit \in Nat \ {0}

EpochOfHeight(h) == Max({e \in Epochs : EpochHeight[e] <= h})
EpochOfSat(s) == Max({e \in Epochs : EpochSat[e] <= s})

Subsidy(h) == EpochSubsidy[EpochOfHeight(h)]

StartingSat(h) ==
  LET e == EpochOfHeight(h)
  IN  EpochSat[e] + (h - EpochHeight[e]) * EpochSubsidy[e]

(* A sat is uncommon when it is the first one of its block.                *)
IsCommon(s) ==
  LET e == EpochOfSat(s)
  IN  (s - EpochSat[e]) % EpochSubsidy[e] # 0

-----------------------------------------------------------------------------
(* Sums of values, and where the i-th of them starts.                      *)
StartOf(values, i) ==
  LET start[j \in 1 .. i] == IF j = 1 THEN 0 ELSE start[j - 1] + values[j - 1]
  IN  start[i]
Total(values) == StartOf(values, Len(values) + 1)

Sizes(ranges) == [i \in DOMAIN ranges |-> ranges[i][2] - ranges[i][1]]
RangesTotal(ranges) == Total(Sizes(ranges))

(* The bits of two numbers together: m | n.                                *)
OrBits(m, n) ==
  LET or[a \in Nat, b \in Nat] ==
        IF a = 0 \/ b = 0 THEN a + b
        ELSE Max({a % 2, b % 2}) + 2 * or[a \div 2, b \div 2]
  IN  or[m, n]

(* What SatRange::load makes of what SatRange::store wrote.  The bits of   *)
(* the size lie above the 51 of the start, so that a larger start puts its *)
(* upper bits among them; and of those of the size 37 are kept.            *)
Stored(ranges) ==
  [i \in DOMAIN ranges |->
     LET base == ranges[i][1] % BaseLimit
         delta == OrBits(Sizes(ranges)[i], ranges[i][1] \div BaseLimit)
     IN  <<base, base + (delta % DeltaLimit)>>]

(* The sats number from up to to - 1 of a sequence of ranges, as ranges:   *)
(* what popping ranges off the front, and pushing back what is left of one *)
(* that is too large, hands out (updater.rs:624-652).  A range of no sats  *)
(* is popped too, by the output that has still to be filled.               *)
Slice(ranges, from, to) ==
  LET Start(i) == StartOf(Sizes(ranges), i)
      Low(i) == Max({from, Start(i)})
      High(i) == Min({to, Start(i + 1)})
      Popped(i) == from <= Start(i) /\ Start(i) < to
      touched == {i \in DOMAIN ranges :
                    Low(i) < High(i) \/ (Sizes(ranges)[i] = 0 /\ Popped(i))}
      Piece(i) == <<ranges[i][1] + Low(i) - Start(i),
                    ranges[i][1] + High(i) - Start(i)>>
  IN  [k \in 1 .. Cardinality(touched) |-> Piece(Min(touched) + k - 1)]

(* The sat at an offset of a sequence of ranges: a set of at most one.     *)
SatAt(ranges, offset) ==
  UNION {LET start == StartOf(Sizes(ranges), i)
         IN  IF offset \in start .. start + Sizes(ranges)[i] - 1
             THEN {ranges[i][1] + offset - start} ELSE {}
           : i \in DOMAIN ranges}

(* The offsets at which a sat lies in a sequence of ranges.                *)
OffsetsOf(ranges, s) ==
  {StartOf(Sizes(ranges), i) + s - ranges[i][1] : i \in
     {j \in DOMAIN ranges : ranges[j][1] <= s /\ s < ranges[j][2]}}
===============================================================================
