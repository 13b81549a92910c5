------------------------------ MODULE UndoFile ------------------------------
(***************************************************************************)
(* What the undo file promises the undo engine: an unbounded array of bytes*)
(* that grows at its end, of which a record may be written over in place,  *)
(* and which keeps every byte until then.                                  *)
(***************************************************************************)
EXTENDS Naturals

CONSTANTS Header,  \* bytes before the first record
          Value    \* bytes

VARIABLES content, \* content[a]: the byte at a, Header <= a < eof
          eof

Record(a, n) == a..(a + n - 1)

Init ==
    /\ eof = Header
    /\ content = [a \in {} |-> 0]

Append(n, v) ==
    /\ eof' = eof + n
    /\ content' = [a \in Record(Header, eof' - Header) |->
                      IF a < eof THEN content[a] ELSE v]

Overwrite(A, v) ==
    /\ content' = [a \in DOMAIN content |-> IF a \in A THEN v ELSE content[a]]
    /\ eof' = eof

(* The sizes are read off the step, so that n need not be enumerated.      *)
Next ==
    \E v \in Value :
        \/ eof' > eof /\ Append(eof' - eof, v)
        \/ \E a, b \in DOMAIN content : Overwrite(a..b, v)

Spec == Init /\ [][Next]_<<content, eof>>
=============================================================================
