---------------------------- MODULE RevertibleLog ---------------------------
(***************************************************************************)
(* What the savepoint machinery of the index promises: a log that only     *)
(* grows at its end, except that it can be cut back to its oldest mark.    *)
(* Nothing is kept but the log itself and the heights marked in it: a      *)
(* savepoint need not be a copy of the database, because the database it   *)
(* restores is always a prefix of the one it replaces.                     *)
(***************************************************************************)
EXTENDS Integers, Sequences

CONSTANTS Entry,      \* what the log holds
          MaxExtend,  \* entries one step can add
          MaxMarks    \* marks kept at most

VARIABLES log, marks

LogInit == log = << >> /\ marks = << >>

(* A batch is committed.                                                   *)
Extend ==
  /\ log' \in Seq(Entry)
  /\ Len(log') - Len(log) \in 1 .. MaxExtend
  /\ \A i \in 1 .. Len(log) : log'[i] = log[i]
  /\ UNCHANGED marks

(* The height of the log is marked, above every mark there is.             *)
Mark ==
  /\ Len(marks) < MaxMarks
  /\ \A i \in 1 .. Len(marks) : marks[i] < Len(log)
  /\ marks' = Append(marks, Len(log))
  /\ UNCHANGED log

(* The oldest mark is given up to make room for another.                   *)
Forget ==
  /\ Len(marks) = MaxMarks
  /\ marks' = Tail(marks)
  /\ UNCHANGED log

(* The log is cut back to its oldest mark, the only one left.              *)
RollBack ==
  /\ marks # << >>
  /\ log' = SubSeq(log, 1, marks[1])
  /\ marks' = <<marks[1]>>

LogNext == Extend \/ Mark \/ Forget \/ RollBack

LogSpec == LogInit /\ [][LogNext]_<<log, marks>>

=============================================================================
