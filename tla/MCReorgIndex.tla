---------------------------- MODULE MCReorgIndex ----------------------------
(***************************************************************************)
(* An environment of ReorgIndex for TLC.                                   *)
(***************************************************************************)
EXTENDS ReorgIndex

(* The number of blocks s and t share from the genesis up.                 *)
Shared(s, t) ==
  CHOOSE n \in 0 .. Lesser(Len(s), Len(t)) :
    /\ PrefixOf(SubSeq(s, 1, n), t)
    /\ n < Len(s) /\ n < Len(t) => s[n + 1] # t[n + 1]

(* The node agrees with the oldest savepoint, and detect_reorg's search    *)
(* reaches down to the last block the index shares with the node.          *)
Recoverable ==
  LET shared == Shared(committed, chain')
  IN \/ shared = Len(committed)
     \/ /\ savepoints # << >>
        /\ Len(savepoints[1]) <= shared
        /\ Len(committed) - shared + 1 < MaxDepth(Len(committed))

(* The node reorganises only while no update is under way, and so that the *)
(* index is built to survive it.                                           *)
RecoverableReorganise == pc = "idle" /\ Reorganise /\ Recoverable

RecoverableNext ==
  Mine \/ RecoverableReorganise \/ IndexThread \/ Fetch \/ Faults

RecoverableSpec == Init /\ [][RecoverableNext]_vars /\ Fairness

=============================================================================
