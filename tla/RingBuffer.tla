------------------------------ MODULE RingBuffer ------------------------------
(***************************************************************************)
(* The circular buffer of a terminal session.  Write is a loop under the   *)
(* buffer's mutex; its body is the action Put, so ReadAll, which takes the *)
(* same mutex, is checked in the middle of a Write as well.                *)
(***************************************************************************)
EXTENDS Integers, Sequences

CONSTANTS Bytes,  \* values of a byte
          Size    \* size of the buffer, 64 KB in the manager

ASSUME BufferAssumption == Size \in Nat \ {0} /\ Bytes # {}

VARIABLES data, start, end, full

bufferVars == <<data, start, end, full>>

Indices == 0..(Size - 1)

BufferTypeOK == /\ data \in [Indices -> Bytes]
                /\ start \in Indices
                /\ end \in Indices
                /\ full \in BOOLEAN

\* make fills the array with zeros, some byte
BufferInit == /\ data \in {[i \in Indices |-> b] : b \in Bytes}
              /\ start = 0
              /\ end = 0
              /\ full = FALSE

\* Mutant of Put: a full buffer keeps its start.
MutPutKeepsStart(b) ==
  LET next == (end + 1) % Size
  IN /\ data' = [data EXCEPT ![end] = b]
     /\ end' = next
     /\ start' = start
     /\ full' = (full \/ next = start)

\* The start moves with the end once the buffer is full.
Put(b) ==
  LET next == (end + 1) % Size
      first == IF full THEN (start + 1) % Size ELSE start
  IN /\ data' = [data EXCEPT ![end] = b]
     /\ end' = next
     /\ start' = first
     /\ full' = (full \/ next = first)

\* d[a:b]
Slice(d, a, b) == [k \in 1..(b - a) |-> d[a + k - 1]]

ReadAll ==
  IF start = end /\ ~full THEN <<>>
  ELSE IF full \/ end < start THEN Slice(data, start, Size) \o Slice(data, 0, end)
       ELSE Slice(data, start, end)

BufferNext == \E b \in Bytes : Put(b)

BufferSpec == BufferInit /\ [][BufferNext]_bufferVars

-------------------------------------------------------------------------------
(* Properties *)

\* ReadAll returns the last Size bytes written, in the order of writing, at
\* every fill and every position of the wrap.
H == INSTANCE BoundedHistory WITH kept <- ReadAll
KeepsLastBytes == H!Spec
===============================================================================
