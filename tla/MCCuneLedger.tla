---------------------------- MODULE MCCuneLedger ----------------------------
(***************************************************************************)
(* CuneLedger for TLC: a valid name, one too early and a reserved one,      *)
(* terms with a cap and terms with a window, and a u128 of three values.   *)
(***************************************************************************)
EXTENDS CuneLedger

MCMinimum(h) == 1
MCShapes == {<<TRUE>>, <<TRUE, FALSE>>}
MCName == {0, 1, 5}
MCTerms ==
  {[cap |-> {1}, limit |-> {2}, start |-> {}, end |-> {}, startOffset |-> {},
    endOffset |-> {}],
   [cap |-> {2}, limit |-> {1}, start |-> {1}, end |-> {2}, startOffset |-> {0},
    endOffset |-> {2}]}
MCMaxTxs(h) == IF h = 1 THEN 2 ELSE 1
=============================================================================
