-------------------------------- MODULE BoundedLog -------------------------------
(***************************************************************************)
(* What the rotated files promise a reader: a log of numbered lines that   *)
(* grows at its end and loses lines at its beginning only ("the oldest     *)
(* file is deleted and the rest are shifted from last to first",           *)
(* docs/configuration.asciidoc).                                           *)
(***************************************************************************)
EXTENDS Integers, Sequences

VARIABLE log

InOrder(s) == \A i, j \in 1 .. Len(s) : i < j => s[i] < s[j]

AppendLine == Len(log') = Len(log) + 1 /\ SubSeq(log', 1, Len(log)) = log /\ InOrder(log')
DropOldest == \E n \in 1 .. Len(log) : log' = SubSeq(log, n + 1, Len(log))

Spec == InOrder(log) /\ [][AppendLine \/ DropOldest]_log
===============================================================================
