----------------------------- MODULE BlobStream -----------------------------
(***************************************************************************)
(* What a reader of a blob expects of its stream: bytes come in order from *)
(* the position, seeking moves the position within the blob, and a stream  *)
(* that failed stays failed.  Byte p of the blob is known as p.            *)
(***************************************************************************)
EXTENDS Integers

CONSTANTS Eof

VARIABLES size, pos, op, out, bad

Init == size \in Nat /\ pos = 0 /\ op = <<0, "read">> /\ out = Eof /\ bad = FALSE

\* A read moves by one and returns this byte.
Take(byte) == /\ ~bad /\ pos < size
              /\ op' = <<0, "read">> /\ out' = byte /\ pos' = pos + 1
              /\ UNCHANGED <<size, bad>>

Get == Take(pos)

End == /\ ~bad /\ pos = size
       /\ op' = <<0, "read">> /\ out' = Eof
       /\ UNCHANGED <<size, pos, bad>>

Within(p) == IF p < 0 THEN 0 ELSE IF p > size THEN size ELSE p

\* An offset outside the blob leads to its end or its beginning, one with the
\* wrong sign for the direction nowhere.
Seek == /\ ~bad /\ op'[2] # "read"
        /\ LET off == op'[1]
               dir == op'[2]
           IN pos' = IF (dir = "beg" /\ off < 0) \/ (dir = "end" /\ off > 0) THEN pos
                     ELSE Within((CASE dir = "beg" -> 0 [] dir = "cur" -> pos
                                    [] dir = "end" -> size) + off)
        /\ UNCHANGED <<size, out, bad>>

\* The position is lost, too.
Break == /\ bad' = TRUE
         /\ UNCHANGED <<size, op, out>>

Next == Get \/ End \/ Seek \/ Break

vars == <<size, pos, op, out, bad>>

Spec == Init /\ [][Next]_vars
=============================================================================
