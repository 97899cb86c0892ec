---------------------------- MODULE BoundedHistory ----------------------------
(***************************************************************************)
(* What a terminal session promises to replay: the last Size bytes written *)
(* to it, or all of them when there are fewer.                             *)
(***************************************************************************)
EXTENDS Integers, Sequences

CONSTANTS Bytes, Size

VARIABLE kept

Init == kept = <<>>

Put(b) == kept' = IF Len(kept) < Size THEN Append(kept, b)
                  ELSE Append(Tail(kept), b)

Next == \E b \in Bytes : Put(b)

Spec == Init /\ [][Next]_kept
===============================================================================
