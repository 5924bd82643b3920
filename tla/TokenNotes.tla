----------------------------- MODULE TokenNotes -----------------------------
(***************************************************************************)
(* What a token ledger of the crc20 kind promises: a token is created once *)
(* with a cap, issued up to the cap, and changes hands only as notes.  An  *)
(* owner writes a note against what is available to him; the note holds    *)
(* that amount until it is redeemed, once, to the benefit of somebody.     *)
(***************************************************************************)
EXTENDS Integers

CONSTANTS Tick, Owner, Id

VARIABLES
  cap,        \* cap[t]: the most that may be issued; 0 before creation
  issued,     \* issued[t]: what has been issued
  available,  \* available[<<o, t>>]: what o may write notes against
  notes       \* unredeemed notes

ledger == <<cap, issued, available, notes>>

LedgerInit ==
  /\ cap = [t \in Tick |-> 0]
  /\ issued = [t \in Tick |-> 0]
  /\ available = [a \in Owner \X Tick |-> 0]
  /\ notes = {}

Create(t) ==
  /\ cap[t] = 0
  /\ cap'[t] \in Nat \ {0}
  /\ cap' = [cap EXCEPT ![t] = cap'[t]]
  /\ UNCHANGED <<issued, available, notes>>

Issue(o, t) ==
  /\ issued'[t] > issued[t]
  /\ issued'[t] <= cap[t]
  /\ issued' = [issued EXCEPT ![t] = issued'[t]]
  /\ available' = [available EXCEPT ![<<o, t>>] =
                     @ + (issued'[t] - issued[t])]
  /\ UNCHANGED <<cap, notes>>

Write(i, o, t) ==
  /\ \A note \in notes : note.id # i
  /\ LET n == available[<<o, t>>] - available'[<<o, t>>]
     IN  /\ n \in 1 .. available[<<o, t>>]
         /\ available' = [available EXCEPT ![<<o, t>>] = @ - n]
         /\ notes' = notes \cup
                       {[id |-> i, owner |-> o, tick |-> t, amount |-> n]}
  /\ UNCHANGED <<cap, issued>>

Redeem(note, o) ==
  /\ notes' = notes \ {note}
  /\ available' = [available EXCEPT ![<<o, note.tick>>] = @ + note.amount]
  /\ UNCHANGED <<cap, issued>>

LedgerNext ==
  \/ \E t \in Tick : Create(t)
  \/ \E o \in Owner, t \in Tick : Issue(o, t)
  \/ \E i \in Id, o \in Owner, t \in Tick : Write(i, o, t)
  \/ \E note \in notes, o \in Owner : Redeem(note, o)

LedgerSpec == LedgerInit /\ [][LedgerNext]_ledger

=============================================================================
