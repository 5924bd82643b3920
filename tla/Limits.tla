--------------------------------- MODULE Limits ---------------------------------
(***************************************************************************)
(* The limits of the integer types that values are read into; a run has    *)
(* smaller ones of the same order.                                         *)
(***************************************************************************)
EXTENDS Naturals

CONSTANTS
  IntegerMax,   \* u128::MAX
  U64Max,       \* u64::MAX
  U32Max,       \* u32::MAX
  Chars         \* the numbers char::from_u32 accepts

ASSUME LimitsAssumption ==
  /\ {IntegerMax, U64Max, U32Max} \subseteq Nat
  /\ U32Max <= U64Max /\ U64Max <= IntegerMax
  /\ Chars \subseteq 0 .. U32Max - 1
=================================================================================
