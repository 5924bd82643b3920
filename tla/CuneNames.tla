------------------------------- MODULE CuneNames -------------------------------
(***************************************************************************)
(* Names of cunes (src/src/cunes/cune.rs, spaced_cune.rs): the number of a *)
(* cune and its letters, the names that may be etched at a height, and the *)
(* spacers shown between letters.  A letter is a number below Letters, 26  *)
(* in the code; a name is a sequence of letters.                           *)
(***************************************************************************)
EXTENDS Integers, FiniteSets, Sequences, SequencesExt

CONSTANTS
  Letters,          \* letters of the alphabet
  CuneMax,          \* u128::MAX
  NameOfMax,        \* the name Display writes for u128::MAX
  Reserved,         \* RESERVED
  FirstCuneHeight,  \* Chain::first_cune_height
  Halving,          \* SUBSIDY_HALVING_INTERVAL_10X
  Lengths           \* 12, the letters of the names allowed at first

ASSUME HalvingAssumption == Halving \in Nat /\ Halving % Lengths = 0

(* Cune::STEPS: the number of names of at most so many letters.            *)
Steps[length \in Nat] ==
  IF length = 0 THEN 0 ELSE (Steps[length - 1] + 1) * Letters

(* Display: the digits of n + 1 without a zero, the last one first.        *)
LettersOf[n \in Nat] ==
  IF n = 0 THEN << >>
  ELSE Append(LettersOf[(n - 1) \div Letters], (n - 1) % Letters)

Name(n) == IF n = CuneMax THEN NameOfMax ELSE LettersOf[n + 1]

(* FromStr.  The product and the last sum are checked; the increment       *)
(* before them is not, and a name that goes on behind that of the greatest *)
(* number starts from 0 again.                                             *)
CuneOf(name) ==
  LET Step(n, i) == IF i = 1 THEN n ELSE (n + 1) % (CuneMax + 1)
      Read(option, i) ==
        {Step(n, i) * Letters + name[i] : n \in option} \cap 0 .. CuneMax
  IN  FoldLeft(Read, {0}, [i \in DOMAIN name |-> i])

(* minimum_at_height.                                                      *)
Interval == Halving \div Lengths

(* A version that forgets that names are for the next block.               *)
MinimumAtOwnHeight(height) ==
  LET progress == height - FirstCuneHeight
      length == Lengths - progress \div Interval
      start == Steps[length]
      end == Steps[length - 1]
  IN  IF height < FirstCuneHeight THEN Steps[Lengths]
      ELSE IF height >= FirstCuneHeight + Halving THEN 0
      ELSE start - ((start - end) * (progress % Interval)) \div Interval

MinimumAtHeight(height) ==
  LET offset == height + 1
      progress == offset - FirstCuneHeight
      length == Lengths - progress \div Interval
      start == Steps[length]
      end == Steps[length - 1]
  IN  IF offset < FirstCuneHeight THEN Steps[Lengths]
      ELSE IF offset >= FirstCuneHeight + Halving THEN 0
      ELSE start - ((start - end) * (progress % Interval)) \div Interval

IsReserved(n) == n >= Reserved

(* Cune::reserved; beyond the numbers there are, it panics.                *)
ReservedCune(n) == {Reserved + n} \cap 0 .. CuneMax

-----------------------------------------------------------------------------
(* Spaced names: sequences of letters and Spacer.  Bit i - 1 of spacers, a *)
(* set here, that holds i, stands for a spacer behind the letter i.        *)
Spacer == Letters

Spaced(n, spacers) ==
  LET name == Name(n)
  IN  FlattenSeq([i \in DOMAIN name |->
        IF i < Len(name) /\ i \in spacers THEN <<name[i], Spacer>>
        ELSE <<name[i]>>])

(* FromStr of SpacedCune; the error is the empty set.                      *)
SpacedCuneOf(text) ==
  LET name == SelectSeq(text, LAMBDA c : c # Spacer)
      Before(i) == Cardinality({j \in 1 .. i : text[j] # Spacer})
      at == {i \in DOMAIN text : text[i] = Spacer}
      spacers == {Before(i) : i \in at}
  IN  IF \/ 0 \in spacers                                 \* leading
         \/ Cardinality(spacers) < Cardinality(at)        \* double
         \/ \E i \in spacers \cup {0} : i >= Len(name)    \* trailing
      THEN {}
      ELSE {[cune |-> n, spacers |-> spacers] : n \in CuneOf(name)}
===============================================================================
