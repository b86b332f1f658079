------------------------------ MODULE AppendLog ------------------------------
(***************************************************************************)
(* What a log writer promises its caller: the bytes it has accepted form  *)
(* a log that only ever grows at its end.  A successful write appends its *)
(* data; nothing else changes what was written before.                     *)
(***************************************************************************)
EXTENDS Sequences

CONSTANT Data   \* the byte strings a caller may write

VARIABLE log    \* the bytes accepted so far, oldest first

Init == log = <<>>

(* A write of d is accepted and appended.                                  *)
Accept(d) == log' = log \o d

Next == \E d \in Data : Accept(d)

Spec == Init /\ [][Next]_log

=============================================================================
