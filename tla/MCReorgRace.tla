----------------------------- MODULE MCReorgRace ----------------------------
(* ReorgIndex with a note of the reorganisations an update has not seen.   *)
EXTENDS ReorgIndex

(* Whether the node has ever reorganised while an update was under way.    *)
VARIABLE raced

RacedInit == Init /\ raced = FALSE

RacedReorganise == Reorganise /\ raced' = (raced \/ pc # "idle")

RacedNext ==
  \/ RacedReorganise
  \/ (Mine \/ IndexThread \/ Fetch \/ Faults) /\ UNCHANGED raced

RacedSpec == RacedInit /\ [][RacedNext]_<<vars, raced>>

(* The node's chain is linked, an update that is not under way holds no     *)
(* blocks, and the blocks an unraced one holds are the node's, on top of a *)
(* linked index: what ChainLinkedWhenQuiet needs to be inductive.          *)
NothingHeld ==
  pc \in {"idle", "begin", "handle", "panicked", "stopped"} =>
    batch = << >> /\ queue = << >> /\ ~fetching

HoldsBlocksOfNode ==
  /\ \A i \in 1 .. Len(batch) :
       Len(committed) + i <= Len(chain) /\ batch[i] = chain[Len(committed) + i]
  /\ \A i \in 1 .. Len(queue) :
       height + i <= Len(chain) /\ queue[i] = chain[height + i]

BatchExtends ==
  batch # << >> /\ committed # << >> =>
    batch[1].prev = committed[Len(committed)].id

Quiet ==
  /\ Linked(chain)
  /\ NothingHeld
  /\ ~raced => ChainLinked /\ HoldsBlocksOfNode /\ BatchExtends

(* The committed index is a chain as long as the node has reorganised only *)
(* between updates, however deep: detect_reorg compares the first block of *)
(* a batch with the committed tip (updater.rs:332), and the fetch thread   *)
(* of an update reads the blocks of one branch.                            *)
ChainLinkedWhenQuiet == ~raced => ChainLinked

=============================================================================
