----------------------------- MODULE TerminalProofs -----------------------------
(***************************************************************************)
(* Terminal and the ring buffer of its sessions.  The buffer keeps exactly *)
(* the last Size bytes; the shells stay under the maximum and within reach *)
(* of the manager, no closed channel is met, and what a client sees is     *)
(* without a gap, for any number of sessions and clients, any size of the  *)
(* buffer and any capacity of the channels and of the PTY.                 *)
(***************************************************************************)
EXTENDS TerminalHistory, FiniteSetTheorems, SequenceTheorems, TLAPS

-------------------------------------------------------------------------------
(* The ring buffer: RingBuffer implements BoundedHistory *)

\* Between two bytes the indices are in one of two positions.
IndexInv == /\ BufferTypeOK
            /\ full => start = end
            /\ ~full => start = 0

(* Lemmas about slices of an array *)

\* The k-th element of d[s:n] followed by d[0:s] is the array read from s on.
Rotated(d, n, s) ==
  [k \in 1..n |-> IF k <= n - s THEN d[s + k - 1] ELSE d[k - (n - s) - 1]]

\* A slice is a sequence of the right length.
LEMMA SliceLength ==
  ASSUME NEW d \in [0..(Size - 1) -> Bytes], NEW a \in 0..Size, NEW b \in a..Size
  PROVE  /\ Slice(d, a, b) \in Seq(Bytes)
         /\ Len(Slice(d, a, b)) = b - a
         /\ \A k \in 1..(b - a) : Slice(d, a, b)[k] = d[a + k - 1]
<1>0. Size \in Nat
  BY BufferAssumption
<1>1. b - a \in Nat
  BY <1>0
<1>2. \A k \in 1..(b - a) : a + k - 1 \in 0..(Size - 1)
  BY <1>0
<1>3. Slice(d, a, b) \in [1..(b - a) -> Bytes]
  BY <1>2 DEF Slice
<1>4. Slice(d, a, b) \in Seq(Bytes) /\ Len(Slice(d, a, b)) = b - a
  BY <1>1, <1>3
<1>5. \A k \in 1..(b - a) : Slice(d, a, b)[k] = d[a + k - 1]
  BY DEF Slice
<1>6. QED
  BY <1>4, <1>5

\* What ReadAll returns before the buffer is full,
LEMMA PartialRead ==
  ASSUME NEW d \in [0..(Size - 1) -> Bytes], NEW e \in 0..Size
  PROVE  /\ Slice(d, 0, e) \in Seq(Bytes)
         /\ Len(Slice(d, 0, e)) = e
         /\ \A k \in 1..e : Slice(d, 0, e)[k] = d[k - 1]
<1>1. Size \in Nat /\ 0 \in 0..Size /\ e \in 0..Size
  BY BufferAssumption
<1> DEFINE r == Slice(d, 0, e)
<1>2. /\ r \in Seq(Bytes) /\ Len(r) = e - 0
      /\ \A k \in 1..(e - 0) : r[k] = d[0 + k - 1]
  BY <1>1, SliceLength
<1> HIDE DEF r
<1>3. r \in Seq(Bytes) /\ Len(r) = e /\ \A k \in 1..e : r[k] = d[k - 1]
  BY <1>1, <1>2
<1>4. QED
  BY <1>3 DEF r

\* and when it is: the array from its start on, then up to its start.
LEMMA FullRead ==
  ASSUME NEW d \in [0..(Size - 1) -> Bytes], NEW s \in 0..(Size - 1)
  PROVE  /\ Slice(d, s, Size) \o Slice(d, 0, s) \in Seq(Bytes)
         /\ Len(Slice(d, s, Size) \o Slice(d, 0, s)) = Size
         /\ \A k \in 1..Size :
              (Slice(d, s, Size) \o Slice(d, 0, s))[k] = Rotated(d, Size, s)[k]
<1> DEFINE p == Slice(d, s, Size)
           q == Slice(d, 0, s)
<1>0. Size \in Nat /\ s \in 0..Size /\ Size \in s..Size
  BY BufferAssumption
<1>1. /\ p \in Seq(Bytes) /\ Len(p) = Size - s
      /\ \A k \in 1..(Size - s) : p[k] = d[s + k - 1]
  BY <1>0, SliceLength
<1>2. q \in Seq(Bytes) /\ Len(q) = s /\ \A k \in 1..s : q[k] = d[k - 1]
  BY <1>0, PartialRead
<1> HIDE DEF p, q
<1>3. p \o q \in Seq(Bytes) /\ Len(p \o q) = Size
  <2>1. p \in Seq(Bytes) /\ q \in Seq(Bytes)
    BY <1>1, <1>2
  <2>2. p \o q \in Seq(Bytes) /\ Len(p \o q) = Len(p) + Len(q)
    BY <2>1
  <2>3. QED
    BY <1>0, <1>1, <1>2, <2>2
<1>4. ASSUME NEW k \in 1..Size
      PROVE  (p \o q)[k] = Rotated(d, Size, s)[k]
  <2>1. CASE k <= Size - s
    BY <1>0, <1>1, <1>2, <2>1 DEF Rotated
  <2>2. CASE ~(k <= Size - s)
    <3>1. (p \o q)[k] = q[k - Len(p)]
      BY <1>0, <1>1, <1>2, <2>2
    <3>2. k - (Size - s) \in 1..s
      BY <1>0, <2>2
    <3>3. q[k - (Size - s)] = d[k - (Size - s) - 1]
      BY <1>2, <3>2
    <3>4. QED
      BY <1>1, <2>2, <3>1, <3>3 DEF Rotated
  <2>3. QED
    BY <2>1, <2>2
<1>5. QED
  BY <1>3, <1>4 DEF p, q

\* Two sequences with the same length and elements are the same.
LEMMA SameSequence ==
  ASSUME NEW p \in Seq(Bytes), NEW q \in Seq(Bytes), Len(p) = Len(q),
         \A k \in 1..Len(p) : p[k] = q[k]
  PROVE  p = q
OBVIOUS

\* Dropping the head and appending b, element by element.
LEMMA ShiftedIn ==
  ASSUME NEW p \in Seq(Bytes), NEW b \in Bytes, p # <<>>
  PROVE  /\ Append(Tail(p), b) \in Seq(Bytes)
         /\ Len(Append(Tail(p), b)) = Len(p)
         /\ \A k \in 1..Len(p) :
              Append(Tail(p), b)[k] = IF k < Len(p) THEN p[k + 1] ELSE b
<1>1. Tail(p) \in Seq(Bytes) /\ Len(Tail(p)) = Len(p) - 1 /\ Len(p) \in Nat \ {0}
  OBVIOUS
<1>2. \A k \in 1..(Len(p) - 1) : Tail(p)[k] = p[k + 1]
  OBVIOUS
<1> DEFINE t == Tail(p)
<1>3. /\ t \in Seq(Bytes) /\ Len(t) = Len(p) - 1
      /\ \A k \in 1..(Len(p) - 1) : t[k] = p[k + 1]
  BY <1>1, <1>2
<1> HIDE DEF t
<1>4. Append(t, b) \in Seq(Bytes) /\ Len(Append(t, b)) = Len(p)
  <2>1. t \in Seq(Bytes) /\ Len(t) = Len(p) - 1 /\ Len(p) \in Nat
    BY <1>1, <1>3
  <2>2. Append(t, b) \in Seq(Bytes) /\ Len(Append(t, b)) = Len(t) + 1
    BY <2>1
  <2>3. QED
    BY <2>1, <2>2
<1>5. ASSUME NEW k \in 1..Len(p)
      PROVE  Append(t, b)[k] = IF k < Len(p) THEN p[k + 1] ELSE b
  <2>0. t \in Seq(Bytes) /\ Len(t) = Len(p) - 1 /\ Len(p) \in Nat
    BY <1>1, <1>3
  <2>1. CASE k < Len(p)
    <3>1. k \in 1..Len(t) /\ Append(t, b)[k] = t[k]
      BY <2>0, <2>1
    <3>2. QED
      BY <1>3, <2>0, <2>1, <3>1
  <2>2. CASE k = Len(p)
    <3>1. Append(t, b)[Len(t) + 1] = b
      BY <2>0
    <3>2. QED
      BY <2>0, <2>2, <3>1
  <2>3. QED
    BY <2>0, <2>1, <2>2
<1>6. QED
  BY <1>4, <1>5 DEF t

-------------------------------------------------------------------------------

\* The two positions of the indices are all there are.
LEMMA IndexStep ==
  ASSUME IndexInv, NEW b \in Bytes, Put(b)
  PROVE  IndexInv'
<1>0. Size \in Nat \ {0} /\ end \in Nat /\ end < Size /\ start \in Nat /\ start < Size
      /\ data \in [Indices -> Bytes] /\ full \in BOOLEAN
  BY BufferAssumption DEF IndexInv, BufferTypeOK, Indices
<1>1. data' \in [Indices -> Bytes]
  BY <1>0 DEF Put, IndexInv, BufferTypeOK
<1>2. CASE end + 1 < Size
  <2>1. (end + 1) % Size = end + 1
    BY <1>0, <1>2
  <2>2. QED
    BY <1>0, <1>1, <1>2, <2>1 DEF Put, IndexInv, BufferTypeOK, Indices
<1>3. CASE end + 1 = Size
  <2>1. (end + 1) % Size = 0
    BY <1>0, <1>3
  <2>2. QED
    BY <1>0, <1>1, <1>3, <2>1 DEF Put, IndexInv, BufferTypeOK, Indices
<1>4. QED
  BY <1>0, <1>2, <1>3

\* ReadAll of a buffer that is not full
LEMMA ReadAllPartial ==
  ASSUME ~full, start = 0, end \in Nat
  PROVE  ReadAll = Slice(data, 0, end)
<1>1. CASE end = 0
  BY <1>1 DEF ReadAll, Slice
<1>2. CASE end # 0
  BY <1>2 DEF ReadAll
<1>3. QED
  BY <1>1, <1>2

\* One byte written is one byte appended to the history.
LEMMA PutAppends ==
  ASSUME IndexInv, NEW b \in Bytes, Put(b)
  PROVE  H!Put(b)
<1>0. /\ Size \in Nat \ {0} /\ end \in 0..(Size - 1) /\ end + 1 \in 0..Size
      /\ end \in 0..Size
      /\ data \in [0..(Size - 1) -> Bytes] /\ data' \in [0..(Size - 1) -> Bytes]
  BY BufferAssumption, IndexStep DEF IndexInv, BufferTypeOK, Indices
<1>1. data' = [data EXCEPT ![end] = b]
  BY DEF Put
<1>2. CASE ~full
  <2> DEFINE r == Slice(data, 0, end)
             w == Slice(data', 0, end + 1)
  <2>1. r \in Seq(Bytes) /\ Len(r) = end /\ \A k \in 1..end : r[k] = data[k - 1]
    BY <1>0, PartialRead
  <2>2. /\ w \in Seq(Bytes) /\ Len(w) = end + 1
        /\ \A k \in 1..(end + 1) : w[k] = data'[k - 1]
    BY <1>0, PartialRead
  <2>3. ReadAll = r
    BY <1>0, <1>2, ReadAllPartial DEF IndexInv
  <2>4. ReadAll' = w
    <3>1. CASE end + 1 < Size
      <4>0. (end + 1) % Size = end + 1
        BY <1>0, <3>1
      <4>1. end' = end + 1 /\ start' = 0
        <5>1. end' = (end + 1) % Size
          BY DEF Put
        <5>2. start' = start /\ start = 0
          BY <1>2 DEF Put, IndexInv
        <5>3. QED
          BY <4>0, <5>1, <5>2
      <4>2. full' = (full \/ end' = start')
        BY DEF Put
      <4>3. ~full'
        <5>1. end' # start'
          BY <1>0, <4>1
        <5>2. QED
          BY <1>2, <4>2, <5>1, Zenon
      <4>4. QED
        BY <1>0, <4>1, <4>3 DEF ReadAll
    <3>2. CASE end + 1 = Size
      <4>0. (end + 1) % Size = 0
        BY <1>0, <3>2
      <4>1. end' = 0 /\ start' = 0
        <5>1. end' = (end + 1) % Size
          BY DEF Put
        <5>2. start' = start /\ start = 0
          BY <1>2 DEF Put, IndexInv
        <5>3. QED
          BY <4>0, <5>1, <5>2
      <4>2. full' = (full \/ end' = start')
        BY DEF Put
      <4>3. full'
        BY <4>1, <4>2
      <4>4. ReadAll' = Slice(data', 0, Size) \o Slice(data', 0, 0)
        BY <4>1, <4>3 DEF ReadAll
      <4>5. Slice(data', 0, 0) = <<>>
        BY DEF Slice
      <4>6. QED
        BY <2>2, <3>2, <4>4, <4>5
    <3>3. QED
      BY <1>0, <3>1, <3>2
  <2> HIDE DEF r, w
  <2>5. Append(r, b) \in Seq(Bytes) /\ Len(Append(r, b)) = Len(w)
    BY <1>0, <2>1, <2>2
  <2>6. ASSUME NEW k \in 1..(end + 1)
        PROVE  Append(r, b)[k] = w[k]
    <3>1. CASE k = end + 1
      <4>1. Append(r, b)[k] = b
        BY <1>0, <2>1, <3>1
      <4>2. w[k] = data'[end]
        BY <1>0, <2>2, <3>1
      <4>3. data'[end] = b
        BY <1>0, <1>1
      <4>4. QED
        BY <4>1, <4>2, <4>3
    <3>2. CASE k # end + 1
      <4>1. k \in 1..end /\ Append(r, b)[k] = r[k]
        BY <1>0, <2>1, <3>2
      <4>2. w[k] = data'[k - 1] /\ r[k] = data[k - 1]
        BY <2>1, <2>2, <4>1
      <4>3. k - 1 \in 0..(Size - 1) /\ k - 1 # end
        BY <1>0, <3>2
      <4>4. QED
        BY <1>0, <1>1, <4>1, <4>2, <4>3
    <3>3. QED
      BY <3>1, <3>2
  <2>7. Append(r, b) = w
    BY <1>0, <2>2, <2>5, <2>6, SameSequence
  <2>8. Len(r) < Size
    BY <1>0, <2>1
  <2>9. QED
    BY <2>3, <2>4, <2>7, <2>8 DEF H!Put
<1>3. CASE full
  <2> DEFINE f == end'
             r == Slice(data, end, Size) \o Slice(data, 0, end)
             w == Slice(data', f, Size) \o Slice(data', 0, f)
  <2>1. /\ start = end /\ full' /\ start' = f
        /\ f = IF end + 1 = Size THEN 0 ELSE end + 1
    <3>0. (end + 1) % Size = IF end + 1 = Size THEN 0 ELSE end + 1
      <4>1. CASE end + 1 = Size
        BY <1>0, <4>1
      <4>2. CASE end + 1 < Size
        BY <1>0, <4>2
      <4>3. QED
        BY <1>0, <4>1, <4>2
    <3>1. end' = (end + 1) % Size /\ start = end /\ start' = end' /\ full'
      BY <1>3 DEF Put, IndexInv
    <3>2. QED
      BY <3>0, <3>1
  <2>2. f \in 0..(Size - 1)
    BY <1>0, <2>1
  <2>3. /\ r \in Seq(Bytes) /\ Len(r) = Size
        /\ \A k \in 1..Size : r[k] = Rotated(data, Size, end)[k]
    BY <1>0, FullRead
  <2>4. /\ w \in Seq(Bytes) /\ Len(w) = Size
        /\ \A k \in 1..Size : w[k] = Rotated(data', Size, f)[k]
    BY <1>0, <2>2, FullRead
  <2>5. ReadAll = r
    BY <1>3, <2>1 DEF ReadAll
  <2>6. ReadAll' = w
    BY <2>1 DEF ReadAll
  <2> HIDE DEF r, w, f
  <2>7. r # <<>>
    BY <1>0, <2>3
  <2>8. /\ Append(Tail(r), b) \in Seq(Bytes)
        /\ Len(Append(Tail(r), b)) = Len(r)
        /\ \A k \in 1..Len(r) :
             Append(Tail(r), b)[k] = IF k < Len(r) THEN r[k + 1] ELSE b
    BY <2>3, <2>7, ShiftedIn
  <2>9. ASSUME NEW k \in 1..Size
        PROVE  Append(Tail(r), b)[k] = w[k]
    <3>1. w[k] = IF k <= Size - f THEN data'[f + k - 1] ELSE data'[k - (Size - f) - 1]
      BY <2>4 DEF Rotated
    <3>2. CASE k = Size
      <4>1. Append(Tail(r), b)[k] = b
        BY <1>0, <2>3, <2>8, <3>2
      <4>2. w[k] = data'[end]
        BY <1>0, <2>1, <2>2, <3>1, <3>2
      <4>3. QED
        BY <1>0, <1>1, <4>1, <4>2
    <3>3. CASE k < Size
      <4>1. k + 1 \in 1..Size /\ Append(Tail(r), b)[k] = r[k + 1]
        BY <1>0, <2>3, <2>8, <3>3
      <4>2. r[k + 1] = IF k + 1 <= Size - end THEN data[end + k]
                       ELSE data[k - (Size - end)]
        <5>1. r[k + 1] = Rotated(data, Size, end)[k + 1]
          BY <2>3, <4>1
        <5>2. end + (k + 1) - 1 = end + k /\ (k + 1) - (Size - end) - 1 = k - (Size - end)
          BY <1>0
        <5>3. QED
          BY <4>1, <5>1, <5>2 DEF Rotated
      <4>3. CASE end + 1 = Size
        <5>1. r[k + 1] = data[k - 1] /\ w[k] = data'[k - 1]
          BY <1>0, <2>1, <3>1, <3>3, <4>2, <4>3
        <5>2. k - 1 \in 0..(Size - 1) /\ k - 1 # end
          BY <1>0, <3>3, <4>3
        <5>3. QED
          BY <1>0, <1>1, <4>1, <5>1, <5>2
      <4>4. CASE end + 1 # Size /\ k + 1 <= Size - end
        <5>1. r[k + 1] = data[end + k] /\ w[k] = data'[end + k]
          BY <1>0, <2>1, <3>1, <3>3, <4>2, <4>4
        <5>2. end + k \in 0..(Size - 1) /\ end + k # end
          BY <1>0, <4>4
        <5>3. QED
          BY <1>0, <1>1, <4>1, <5>1, <5>2
      <4>5. CASE end + 1 # Size /\ ~(k + 1 <= Size - end)
        <5>1. r[k + 1] = data[k - (Size - end)] /\ w[k] = data'[k - (Size - end)]
          BY <1>0, <2>1, <3>1, <3>3, <4>2, <4>5
        <5>2. k - (Size - end) \in 0..(Size - 1) /\ k - (Size - end) # end
          BY <1>0, <3>3, <4>5
        <5>3. QED
          BY <1>0, <1>1, <4>1, <5>1, <5>2
      <4>6. QED
        BY <4>3, <4>4, <4>5
    <3>4. QED
      BY <1>0, <3>2, <3>3
  <2>10. Append(Tail(r), b) = w
    BY <1>0, <2>3, <2>4, <2>8, <2>9, SameSequence
  <2>11. ~(Len(r) < Size)
    BY <1>0, <2>3
  <2>12. QED
    BY <2>5, <2>6, <2>10, <2>11 DEF H!Put
<1>4. QED
  BY <1>2, <1>3

-------------------------------------------------------------------------------

\* An empty buffer has its indices at the start.
LEMMA InitIndex == BufferInit => IndexInv
<1> SUFFICES ASSUME BufferInit
             PROVE  IndexInv
  OBVIOUS
<1>1. data \in [Indices -> Bytes]
  BY DEF BufferInit
<1>2. 0 \in Indices
  BY BufferAssumption DEF Indices
<1>3. start = 0 /\ end = 0 /\ full = FALSE
  BY DEF BufferInit
<1>4. QED
  BY <1>1, <1>2, <1>3 DEF IndexInv, BufferTypeOK

\* The positions of the indices, at every step
LEMMA IndexInvHolds == BufferSpec => []IndexInv
<1>1. IndexInv /\ [BufferNext]_bufferVars => IndexInv'
  <2> SUFFICES ASSUME IndexInv, [BufferNext]_bufferVars
               PROVE  IndexInv'
    OBVIOUS
  <2>1. CASE BufferNext
    BY <2>1, IndexStep DEF BufferNext
  <2>2. CASE UNCHANGED bufferVars
    BY <2>2 DEF bufferVars, IndexInv, BufferTypeOK
  <2>3. QED
    BY <2>1, <2>2
<1>2. QED
  BY <1>1, InitIndex, PTL DEF BufferSpec

\* The indices of Write stay inside the array, for every size of the buffer.
THEOREM IndicesInRange == BufferSpec => []BufferTypeOK
<1>1. IndexInv => BufferTypeOK
  BY DEF IndexInv
<1>2. QED
  BY <1>1, IndexInvHolds, PTL

\* Whatever has been written, ReadAll returns the last Size bytes of it: Write
\* and ReadAll implement the bounded history for every size of the buffer.
THEOREM LastBytesKept == BufferSpec => KeepsLastBytes
<1>1. BufferInit => H!Init
  BY DEF BufferInit, H!Init, ReadAll
<1>2. IndexInv /\ [BufferNext]_bufferVars => [H!Next]_ReadAll
  <2> SUFFICES ASSUME IndexInv, [BufferNext]_bufferVars
               PROVE  [H!Next]_ReadAll
    OBVIOUS
  <2>1. CASE BufferNext
    BY <2>1, PutAppends DEF BufferNext, H!Next
  <2>2. CASE UNCHANGED bufferVars
    BY <2>2 DEF bufferVars, ReadAll, Slice
  <2>3. QED
    BY <2>1, <2>2
<1>3. QED
  BY <1>1, <1>2, IndexInvHolds, PTL DEF BufferSpec, KeepsLastBytes, H!Spec

-------------------------------------------------------------------------------
(* Types of the sessions and their clients *)

\* A session that is marked closed while its shell runs is being closed by the
\* manager, which has yet to kill the shell: readLoop calls Close only after the
\* shell is dead, or the PTY closed by a Kill.
ShellInv ==
  /\ IsFiniteSet(registered)
  /\ Cardinality(registered) <= MaxSessions
  /\ \A s \in Sessions :
       /\ shell[s] = "alive" =>
            /\ s \in registered
            /\ ptmx[s]
            /\ closePc[s] # "remove"
            /\ reader[s] \notin {"mark", "disconnect", "kill"}
            /\ closed[s] => closePc[s] \in {"disconnect", "kill"}
       /\ Fresh(s) => s \notin registered /\ reader[s] = "off" /\ ~closed[s]
       /\ closePc[s] # "none" => s \in todo

\* A channel is registered with the session of its client only, from Subscribe
\* to Unsubscribe at most.
ChannelInv ==
  \A s \in Sessions : \A c \in clients[s] :
    /\ chanOpen[c]
    /\ att[c] = s
    /\ pc[c] \notin {"idle", "info", "subscribe", "close", "over"}

TInv == TypeOK /\ ShellInv /\ ChannelInv

LEMMA ReplayType ==
  ASSUME TypeOK, NEW s \in Sessions
  PROVE  Replay(s) \in Seq(Nat)
<1> DEFINE first == IF consumed[s] > History THEN consumed[s] - History ELSE 0
           n == consumed[s] - first
<1>1. consumed[s] \in Nat /\ History \in Nat
  BY TerminalAssumption DEF TypeOK
<1>2. first \in Nat /\ n \in Nat
  BY <1>1
<1>3. \A i \in 1..n : first + i \in Nat
  BY <1>2
<1> HIDE DEF first, n
<1>4. [i \in 1..n |-> first + i] \in Seq(Nat)
  BY <1>2, <1>3, IsASeq
<1>5. QED BY <1>4 DEF Replay, first, n

LEMMA InitType == Init => TypeOK
<1> SUFFICES ASSUME Init PROVE TypeOK
  OBVIOUS
<1>1. (CHOOSE s \in Sessions : TRUE) \in Sessions
  BY TerminalAssumption
<1>2. {InCap, OutCap, ChanCap, MaxInput} \subseteq Nat
  BY TerminalAssumption
<1>3. <<>> \in Seq(Nat) /\ Len(<<>>) = 0
  OBVIOUS
<1>4. QED BY <1>1, <1>2, <1>3 DEF Init, TypeOK, ReaderPcs, HandlerPcs

LEMMA TypeStep == TypeOK /\ [Next]_vars => TypeOK'
<1> SUFFICES ASSUME TypeOK, [Next]_vars PROVE TypeOK'
  OBVIOUS
<1> USE DEF TypeOK, managerVars, shellVars, sessionVars, channelVars,
            handlerVars, goroutineVars, browserVars, ReaderPcs, HandlerPcs, Goto
<1>a. /\ InCap \in Nat /\ OutCap \in Nat /\ ChanCap \in Nat /\ MaxInput \in Nat
      /\ MaxChunks \in Nat
  BY TerminalAssumption
<1>1. ASSUME NEW s \in Sessions, CreateSession(s) PROVE TypeOK'
  BY <1>1 DEF CreateSession, ManagerFree, Open
<1>2. ASSUME NEW S \in SUBSET Sessions, BeginClose(S) PROVE TypeOK'
  BY <1>2 DEF BeginClose
<1>3. ASSUME NEW s \in Sessions, CloseMark(s) PROVE TypeOK'
  BY <1>3 DEF CloseMark, Mark
<1>4. ASSUME NEW s \in Sessions, CloseDisconnect(s) PROVE TypeOK'
  BY <1>4 DEF CloseDisconnect, Disconnect
<1>5. ASSUME NEW s \in Sessions, CloseKill(s) PROVE TypeOK'
  BY <1>5 DEF CloseKill, Kill
<1>6. ASSUME NEW s \in Sessions, Remove(s) PROVE TypeOK'
  BY <1>6 DEF Remove
<1>7. ASSUME NEW s \in Sessions, Output(s) PROVE TypeOK'
  <2>1. unread' \in [Sessions -> 0..OutCap]
    BY <1>7, <1>a DEF Output
  <2>2. inq' \in [Sessions -> 0..InCap]
    <3>1. CASE UNCHANGED inq BY <3>1
    <3>2. CASE inq[s] > 0 /\ inq' = [inq EXCEPT ![s] = @ - 1]
      <4>1. inq[s] \in 0..InCap OBVIOUS
      <4>2. inq[s] - 1 \in 0..InCap BY <4>1, <3>2, <1>a
      <4>3. QED BY <4>2, <3>2
    <3>3. QED BY <3>1, <3>2, <1>7 DEF Output
  <2>3. produced' \in [Sessions -> Nat]
    BY <1>7 DEF Output
  <2>4. QED BY <2>1, <2>2, <2>3, <1>7 DEF Output
<1>8. ASSUME NEW s \in Sessions, Exit(s) PROVE TypeOK'
  BY <1>8 DEF Exit
<1>9. ASSUME NEW s \in Sessions, Read(s) PROVE TypeOK'
  <2>1. unread' = [unread EXCEPT ![s] = @ - 1] /\ unread[s] > 0
        /\ consumed' = [consumed EXCEPT ![s] = @ + 1]
        /\ reader' = [reader EXCEPT ![s] = "touch"]
    BY <1>9 DEF Read
  <2>2. unread' \in [Sessions -> 0..OutCap]
    <3>1. unread[s] - 1 \in 0..OutCap BY <2>1, <1>a
    <3>2. QED BY <2>1, <3>1
  <2>3. consumed' \in [Sessions -> Nat] /\ reader' \in [Sessions -> ReaderPcs]
    BY <2>1
  <2>4. QED BY <2>2, <2>3, <1>9 DEF Read
<1>10. ASSUME NEW s \in Sessions, Touch(s) PROVE TypeOK'
  BY <1>10 DEF Touch
<1>11. ASSUME NEW s \in Sessions, Broadcast(s) PROVE TypeOK'
  <2>1. consumed[s] \in Nat
    OBVIOUS
  <2>2. ASSUME NEW c \in Clients, ~Full(c)
        PROVE  /\ Append(chan[c], consumed[s]) \in Seq(Nat)
               /\ Len(Append(chan[c], consumed[s])) <= ChanCap
    <3>1. chan[c] \in Seq(Nat) /\ Len(chan[c]) \in Nat
      OBVIOUS
    <3>2. Len(Append(chan[c], consumed[s])) = Len(chan[c]) + 1
      BY <3>1
    <3>3. QED BY <2>1, <2>2, <3>1, <3>2, <1>a DEF Full
  <2>3. chan' \in [Clients -> Seq(Nat)] /\ \A c \in Clients : Len(chan'[c]) <= ChanCap
    BY <2>2, <1>11 DEF Broadcast
  <2>4. QED BY <2>3, <1>11 DEF Broadcast
<1>12. ASSUME NEW s \in Sessions, ReadEnds(s) PROVE TypeOK'
  BY <1>12 DEF ReadEnds
<1>13. ASSUME NEW s \in Sessions, ReaderMark(s) PROVE TypeOK'
  BY <1>13 DEF ReaderMark, Mark
<1>14. ASSUME NEW s \in Sessions, ReaderDisconnect(s) PROVE TypeOK'
  BY <1>14 DEF ReaderDisconnect, Disconnect
<1>15. ASSUME NEW s \in Sessions, ReaderKill(s) PROVE TypeOK'
  BY <1>15 DEF ReaderKill, Kill
<1>16. ASSUME NEW c \in Clients, NEW s \in Sessions, Attach(c, s) PROVE TypeOK'
  BY <1>16 DEF Attach
<1>17. ASSUME NEW c \in Clients, NEW s \in Sessions, NEW e \in BOOLEAN,
              Connect(c, s, e)
       PROVE  TypeOK'
  <2>1. /\ registered' \subseteq Sessions
        /\ registered \subseteq registered'
        /\ shell' \in [Sessions -> {"none", "alive", "dead"}]
        /\ ptmx' \in [Sessions -> BOOLEAN]
        /\ reader' \in [Sessions -> ReaderPcs]
    <3>1. CASE HasRoom /\ Open(s) BY <3>1 DEF Open
    <3>2. CASE UNCHANGED <<registered, shell, ptmx, reader>> BY <3>2
    <3>3. QED BY <3>1, <3>2, <1>17 DEF Connect
  <2>2. /\ pc' \in [Clients -> HandlerPcs]
        /\ att' \in [Clients -> Sessions]
        /\ ephemeral' \in [Clients -> BOOLEAN]
        /\ logged' \in [Clients -> SUBSET {"connect", "disconnect"}]
    BY <1>17 DEF Connect
  <2>3. QED BY <2>1, <2>2, <1>17 DEF Connect
<1>18. ASSUME NEW c \in Clients, Info(c) PROVE TypeOK'
  BY <1>18 DEF Info
<1>19. ASSUME NEW c \in Clients, Subscribe(c) PROVE TypeOK'
  <2>1. Replay(att[c]) \in Seq(Nat)
    BY ReplayType
  <2>2. got' \in [Clients -> Seq(Nat)]
    BY <2>1, <1>19 DEF Subscribe
  <2>3. QED BY <2>2, <1>19 DEF Subscribe
<1>20. ASSUME NEW c \in Clients, Loop(c) PROVE TypeOK'
  BY <1>20 DEF Loop
<1>21. ASSUME NEW c \in Clients, Type(c) PROVE TypeOK'
  <2>1. typed' \in [Clients -> 0..MaxInput]
    BY <1>21, <1>a DEF Type
  <2>2. QED BY <2>1, <1>21 DEF Type
<1>22. ASSUME NEW c \in Clients, Leave(c) PROVE TypeOK'
  BY <1>22 DEF Leave
<1>23. ASSUME NEW c \in Clients, ReadFails(c) PROVE TypeOK'
  BY <1>23 DEF ReadFails
<1>24. ASSUME NEW c \in Clients, WriteBegins(c) PROVE TypeOK'
  <2>1. pc' \in [Clients -> HandlerPcs] /\ writer' \in [Sessions -> SUBSET Clients]
    <3>1. CASE Goto(c, "cleanup") /\ UNCHANGED writer BY <3>1
    <3>2. CASE writer' = [writer EXCEPT ![att[c]] = {c}] /\ UNCHANGED pc BY <3>2
    <3>3. QED BY <3>1, <3>2, <1>24 DEF WriteBegins
  <2>2. QED BY <2>1, <1>24 DEF WriteBegins
<1>25. ASSUME NEW c \in Clients, WriteEnds(c) PROVE TypeOK'
  <2>1. inq' \in [Sessions -> 0..InCap]
    <3>1. CASE UNCHANGED inq BY <3>1
    <3>2. CASE inq[att[c]] < InCap /\ inq' = [inq EXCEPT ![att[c]] = @ + 1]
      <4>1. att[c] \in Sessions /\ inq[att[c]] \in 0..InCap OBVIOUS
      <4>2. inq[att[c]] + 1 \in 0..InCap BY <4>1, <3>2, <1>a
      <4>3. QED BY <4>1, <4>2, <3>2
    <3>3. QED BY <3>1, <3>2, <1>25 DEF WriteEnds
  <2>2. pc' \in [Clients -> HandlerPcs]
    <3>1. Goto(c, "loop") \/ Goto(c, "cleanup") BY <1>25 DEF WriteEnds
    <3>2. CASE Goto(c, "loop") BY <3>2
    <3>3. CASE Goto(c, "cleanup") BY <3>3
    <3>4. QED BY <3>1, <3>2, <3>3
  <2>3. writer' \in [Sessions -> SUBSET Clients]
    <3>1. writer' = [writer EXCEPT ![att[c]] = {}] BY <1>25 DEF WriteEnds
    <3>2. QED BY <3>1
  <2>4. QED BY <2>1, <2>2, <2>3, <1>25 DEF WriteEnds
<1>26. ASSUME NEW c \in Clients, Cleanup(c) PROVE TypeOK'
  BY <1>26 DEF Cleanup
<1>27. ASSUME NEW c \in Clients, LogDisconnect(c) PROVE TypeOK'
  BY <1>27 DEF LogDisconnect
<1>28. ASSUME NEW c \in Clients, Unsubscribe(c) PROVE TypeOK'
  BY <1>28 DEF Unsubscribe
<1>29. ASSUME NEW c \in Clients, CloseEphemeral(c) PROVE TypeOK'
  BY <1>29 DEF CloseEphemeral
<1>30. ASSUME NEW c \in Clients, Forward(c) PROVE TypeOK'
  <2>1. /\ chan[c] \in Seq(Nat) /\ chan[c] # <<>> /\ Len(chan[c]) <= ChanCap
        /\ got[c] \in Seq(Nat)
    BY <1>30 DEF Forward
  <2>2. /\ Head(chan[c]) \in Nat
        /\ Tail(chan[c]) \in Seq(Nat)
        /\ Len(Tail(chan[c])) = Len(chan[c]) - 1
    BY <2>1
  <2>3. Len(Tail(chan[c])) <= ChanCap /\ Append(got[c], Head(chan[c])) \in Seq(Nat)
    BY <2>1, <2>2, <1>a
  <2>4. chan' \in [Clients -> Seq(Nat)] /\ \A d \in Clients : Len(chan'[d]) <= ChanCap
    BY <2>2, <2>3, <1>30 DEF Forward
  <2>5. got' \in [Clients -> Seq(Nat)]
    <3>1. CASE UNCHANGED got BY <3>1
    <3>2. CASE got' = [got EXCEPT ![c] = Append(@, Head(chan[c]))] BY <3>2, <2>3
    <3>3. QED BY <3>1, <3>2, <1>30 DEF Forward
  <2>6. out' \in [Clients -> {"off", "select", "ended"}]
    <3>1. CASE UNCHANGED out BY <3>1
    <3>2. CASE out' = [out EXCEPT ![c] = "ended"] BY <3>2
    <3>3. QED BY <3>1, <3>2, <1>30 DEF Forward
  <2>7. QED BY <2>4, <2>5, <2>6, <1>30 DEF Forward
<1>31. ASSUME NEW c \in Clients, SeesDone(c) PROVE TypeOK'
  BY <1>31 DEF SeesDone
<1>32. ASSUME NEW c \in Clients, SeesClosed(c) PROVE TypeOK'
  BY <1>32 DEF SeesClosed
<1>33. CASE UNCHANGED vars
  BY <1>33 DEF vars
<1> HIDE DEF TypeOK
<1>34. QED
  BY <1>1, <1>2, <1>3, <1>4, <1>5, <1>6, <1>7, <1>8, <1>9, <1>10, <1>11, <1>12,
     <1>13, <1>14, <1>15, <1>16, <1>17, <1>18, <1>19, <1>20, <1>21, <1>22, <1>23,
     <1>24, <1>25, <1>26, <1>27, <1>28, <1>29, <1>30, <1>31, <1>32, <1>33
  DEF Next, Close, ReadLoop, Handler, Goroutine

-------------------------------------------------------------------------------
(* The shells *)

\* A session that is opened where there is room.
LEMMA OpenShell ==
  ASSUME TypeOK, ShellInv, NEW s \in Sessions, ManagerFree, Fresh(s), HasRoom,
         Open(s), UNCHANGED <<todo, closePc, closed>>
  PROVE  ShellInv'
<1>1. /\ IsFiniteSet(registered') /\ Cardinality(registered') <= MaxSessions
  <2>1. IsFiniteSet(registered)
    BY DEF ShellInv
  <2>2. /\ IsFiniteSet(registered \cup {s})
        /\ Cardinality(registered \cup {s}) \in {Cardinality(registered),
                                               Cardinality(registered) + 1}
    BY <2>1, FS_AddElement
  <2>3. Cardinality(registered) \in Nat
    BY <2>1, FS_CardinalityType
  <2>4. Cardinality(registered \cup {s}) <= MaxSessions
    BY <2>2, <2>3, TerminalAssumption DEF HasRoom
  <2>5. QED BY <2>2, <2>4 DEF Open
<1>2. \A t \in Sessions : closePc[t] = "none"
  BY DEF ShellInv, ManagerFree
<1>3. ASSUME NEW t \in Sessions, t # s
      PROVE  /\ shell'[t] = shell[t] /\ ptmx'[t] = ptmx[t] /\ reader'[t] = reader[t]
             /\ (t \in registered' <=> t \in registered)
  BY <1>3 DEF Open, TypeOK
<1>4. /\ s \in registered' /\ shell'[s] = "alive" /\ ptmx'[s] /\ reader'[s] = "read"
      /\ ~closed[s]
  BY DEF Open, TypeOK, ShellInv
<1>5. QED BY <1>1, <1>2, <1>3, <1>4 DEF ShellInv, Fresh

LEMMA ShellStep == TypeOK /\ ShellInv /\ Next => ShellInv'
<1> SUFFICES ASSUME TypeOK, ShellInv, Next PROVE ShellInv'
  OBVIOUS
<1> USE DEF managerVars, shellVars, sessionVars
<1>t. /\ registered \subseteq Sessions /\ todo \subseteq registered
      /\ closePc \in [Sessions -> {"none", "disconnect", "kill", "remove"}]
      /\ closed \in [Sessions -> BOOLEAN]
      /\ shell \in [Sessions -> {"none", "alive", "dead"}]
      /\ ptmx \in [Sessions -> BOOLEAN]
      /\ reader \in [Sessions -> ReaderPcs]
  BY DEF TypeOK
<1>f. ASSUME UNCHANGED <<registered, todo, closePc, closed, shell, ptmx, reader>>
      PROVE  ShellInv'
  BY <1>f DEF ShellInv, Fresh
<1>r. ASSUME NEW s \in Sessions, NEW p \in ReaderPcs,
             UNCHANGED <<registered, todo, closePc, closed, shell, ptmx>>,
             reader[s] # "off", reader' = [reader EXCEPT ![s] = p],
             p \in {"mark", "disconnect", "kill"} => shell[s] # "alive"
      PROVE  ShellInv'
  BY <1>t, <1>r DEF ShellInv, Fresh
<1>1. ASSUME NEW s \in Sessions, CreateSession(s) PROVE ShellInv'
  BY <1>1, OpenShell DEF CreateSession
<1>2. ASSUME NEW S \in SUBSET Sessions, BeginClose(S) PROVE ShellInv'
  BY <1>2, <1>t DEF BeginClose, ManagerFree, ShellInv, Fresh
<1>3. ASSUME NEW s \in Sessions, CloseMark(s) PROVE ShellInv'
  <2>1. closePc[s] = "none" /\ s \in registered /\ shell[s] # "none"
    BY <1>3, <1>t DEF CloseMark, ShellInv, Fresh
  <2>2. shell[s] = "alive" => ~closed[s]
    BY <2>1 DEF ShellInv
  <2>3. QED BY <2>1, <2>2, <1>3, <1>t DEF CloseMark, Mark, ShellInv, Fresh
<1>4. ASSUME NEW s \in Sessions, CloseDisconnect(s) PROVE ShellInv'
  BY <1>4, <1>t DEF CloseDisconnect, ShellInv, Fresh
<1>5. ASSUME NEW s \in Sessions, CloseKill(s) PROVE ShellInv'
  BY <1>5, <1>t DEF CloseKill, Kill, ShellInv, Fresh
<1>6. ASSUME NEW s \in Sessions, Remove(s) PROVE ShellInv'
  <2>1. /\ IsFiniteSet(registered') /\ Cardinality(registered') <= MaxSessions
    <3>1. /\ IsFiniteSet(registered \ {s})
          /\ Cardinality(registered \ {s}) <= Cardinality(registered)
      BY FS_Subset DEF ShellInv
    <3>2. /\ Cardinality(registered \ {s}) \in Nat /\ Cardinality(registered) \in Nat
      BY <3>1, FS_CardinalityType DEF ShellInv
    <3>3. QED BY <3>1, <3>2, <1>6, TerminalAssumption DEF Remove, ShellInv
  <2>2. shell[s] # "alive"
    BY <1>6 DEF Remove, ShellInv
  <2>3. QED BY <2>1, <2>2, <1>6, <1>t DEF Remove, ShellInv, Fresh
<1>7. ASSUME NEW s \in Sessions, Exit(s) PROVE ShellInv'
  BY <1>7, <1>t DEF Exit, ShellInv, Fresh
<1>8. ASSUME NEW s \in Sessions, Read(s) \/ Touch(s) \/ Broadcast(s) \/ ReadEnds(s)
      PROVE  ShellInv'
  <2>1. Read(s) => ShellInv'
    BY <1>r DEF Read, ReaderPcs
  <2>2. Touch(s) => ShellInv'
    BY <1>r DEF Touch, ReaderPcs
  <2>3. Broadcast(s) => ShellInv'
    BY <1>r DEF Broadcast, ReaderPcs
  <2>4. ~ptmx[s] => shell[s] # "alive"
    BY DEF ShellInv
  <2>5. ReadEnds(s) => ShellInv'
    BY <2>4, <1>r DEF ReadEnds, ReaderPcs
  <2>6. QED BY <1>8, <2>1, <2>2, <2>3, <2>5
<1>9. ASSUME NEW s \in Sessions, ReaderMark(s) PROVE ShellInv'
  <2>1. shell[s] # "alive" /\ shell[s] # "none"
    BY <1>9 DEF ReaderMark, ShellInv, Fresh
  <2>2. QED BY <2>1, <1>9, <1>t DEF ReaderMark, Mark, ShellInv, Fresh
<1>10. ASSUME NEW s \in Sessions, ReaderDisconnect(s) PROVE ShellInv'
  <2>1. shell[s] # "alive"
    BY <1>10 DEF ReaderDisconnect, ShellInv
  <2>2. QED BY <2>1, <1>10, <1>r DEF ReaderDisconnect, ReaderPcs
<1>11. ASSUME NEW s \in Sessions, ReaderKill(s) PROVE ShellInv'
  BY <1>11, <1>t DEF ReaderKill, Kill, ShellInv, Fresh
<1>12. ASSUME NEW c \in Clients, NEW s \in Sessions, NEW e \in BOOLEAN,
              Connect(c, s, e)
       PROVE  ShellInv'
  <2>1. CASE HasRoom /\ Open(s)
    BY <2>1, <1>12, OpenShell DEF Connect
  <2>2. CASE UNCHANGED <<registered, shell, ptmx, reader>>
    BY <2>2, <1>12, <1>f DEF Connect
  <2>3. QED BY <2>1, <2>2, <1>12 DEF Connect
<1>13. ASSUME NEW c \in Clients, CloseEphemeral(c) PROVE ShellInv'
  BY <1>13, <1>t DEF CloseEphemeral, ManagerFree, ShellInv, Fresh
<1>14. ASSUME NEW s \in Sessions, Output(s) PROVE ShellInv'
  BY <1>14, <1>f DEF Output
<1>15. ASSUME NEW c \in Clients, NEW s \in Sessions, Attach(c, s) PROVE ShellInv'
  BY <1>15, <1>f DEF Attach
<1>16. ASSUME NEW c \in Clients, Goroutine(c) \/ Type(c) \/ Leave(c) PROVE ShellInv'
  BY <1>16, <1>f DEF Goroutine, Forward, SeesDone, SeesClosed, Type, Leave
<1>17. ASSUME NEW c \in Clients,
              Info(c) \/ Subscribe(c) \/ Loop(c) \/ ReadFails(c) \/ Cleanup(c)
                \/ LogDisconnect(c) \/ Unsubscribe(c)
       PROVE  ShellInv'
  BY <1>17, <1>f
  DEF Info, Subscribe, Loop, ReadFails, Cleanup, LogDisconnect, Unsubscribe
<1>18. ASSUME NEW c \in Clients, WriteBegins(c) \/ WriteEnds(c) PROVE ShellInv'
  BY <1>18, <1>f DEF WriteBegins, WriteEnds
<1> HIDE DEF managerVars, shellVars, sessionVars
<1>19. QED
  BY <1>1, <1>2, <1>3, <1>4, <1>5, <1>6, <1>7, <1>8, <1>9, <1>10, <1>11, <1>12,
     <1>13, <1>14, <1>15, <1>16, <1>17, <1>18
  DEF Next, Close, ReadLoop, Handler

-------------------------------------------------------------------------------
(* The channels *)

LEMMA ChannelStep == TypeOK /\ ChannelInv /\ Next => ChannelInv'
<1> SUFFICES ASSUME TypeOK, ChannelInv, Next PROVE ChannelInv'
  OBVIOUS
<1> USE DEF channelVars, handlerVars, Goto
<1>t. /\ clients \in [Sessions -> SUBSET Clients]
      /\ chanOpen \in [Clients -> BOOLEAN]
      /\ pc \in [Clients -> HandlerPcs]
      /\ att \in [Clients -> Sessions]
  BY DEF TypeOK
<1>f. ASSUME UNCHANGED <<clients, chanOpen, att, pc>> PROVE ChannelInv'
  BY <1>f DEF ChannelInv
<1>g. ASSUME NEW c \in Clients, NEW p \in HandlerPcs,
             UNCHANGED <<clients, chanOpen, att>>, pc' = [pc EXCEPT ![c] = p],
             p \in {"idle", "info", "subscribe", "close", "over"} =>
               \A s \in Sessions : c \notin clients[s]
      PROVE  ChannelInv'
  BY <1>g, <1>t DEF ChannelInv
<1>d. ASSUME NEW s \in Sessions, Disconnect(s), UNCHANGED <<att, pc>>
      PROVE  ChannelInv'
  BY <1>d, <1>t DEF Disconnect, ChannelInv
<1>c. ASSUME NEW c \in Clients, pc[c] \in {"idle", "info", "subscribe", "close", "over"}
      PROVE  \A s \in Sessions : c \notin clients[s]
  BY <1>c DEF ChannelInv
<1>1. ASSUME NEW s \in Sessions, CreateSession(s) \/ Output(s) \/ Exit(s)
      PROVE  ChannelInv'
  BY <1>1, <1>f DEF CreateSession, Output, Exit
<1>2. ASSUME NEW s \in Sessions, CloseMark(s) \/ CloseKill(s) \/ Remove(s)
      PROVE  ChannelInv'
  BY <1>2, <1>f DEF CloseMark, CloseKill, Remove
<1>3. ASSUME NEW s \in Sessions, CloseDisconnect(s) \/ ReaderDisconnect(s)
      PROVE  ChannelInv'
  BY <1>3, <1>d DEF CloseDisconnect, ReaderDisconnect
<1>4. ASSUME NEW s \in Sessions, Read(s) \/ Touch(s) \/ Broadcast(s) \/ ReadEnds(s)
                                  \/ ReaderMark(s) \/ ReaderKill(s)
      PROVE  ChannelInv'
  BY <1>4, <1>f DEF Read, Touch, Broadcast, ReadEnds, ReaderMark, ReaderKill
<1>5. ASSUME NEW S \in SUBSET Sessions, BeginClose(S) PROVE ChannelInv'
  BY <1>5, <1>f DEF BeginClose
<1>6. ASSUME NEW c \in Clients, NEW s \in Sessions, Attach(c, s) PROVE ChannelInv'
  <2>1. \A x \in Sessions : c \notin clients[x]
    BY <1>6, <1>c DEF Attach
  <2>2. \A d \in Clients : d # c => att'[d] = att[d] /\ pc'[d] = pc[d]
    BY <1>6, <1>t DEF Attach
  <2>3. QED BY <2>1, <2>2, <1>6, <1>t DEF Attach, ChannelInv
<1>7. ASSUME NEW c \in Clients, NEW s \in Sessions, NEW e \in BOOLEAN,
             Connect(c, s, e)
      PROVE  ChannelInv'
  <2>1. \A x \in Sessions : c \notin clients[x]
    BY <1>7, <1>c DEF Connect
  <2>2. \A d \in Clients : d # c => att'[d] = att[d] /\ pc'[d] = pc[d]
    BY <1>7, <1>t DEF Connect
  <2>3. QED BY <2>1, <2>2, <1>7, <1>t DEF Connect, ChannelInv
<1>8. ASSUME NEW c \in Clients, Info(c) PROVE ChannelInv'
  BY <1>8, <1>g, <1>c DEF Info, HandlerPcs
<1>9. ASSUME NEW c \in Clients, Subscribe(c) PROVE ChannelInv'
  <2>1. \A x \in Sessions : c \notin clients[x]
    BY <1>9, <1>c DEF Subscribe
  <2>2. \A x \in Sessions : clients'[x] = IF x = att[c] THEN clients[x] \cup {c}
                                          ELSE clients[x]
    BY <1>9, <1>t DEF Subscribe
  <2>3. \A d \in Clients : /\ chanOpen'[d] = (d = c \/ chanOpen[d])
                           /\ pc'[d] = IF d = c THEN "loop" ELSE pc[d]
    BY <1>9, <1>t DEF Subscribe
  <2>4. att' = att
    BY <1>9 DEF Subscribe
  <2>5. ASSUME NEW x \in Sessions, NEW d \in clients'[x]
        PROVE  /\ chanOpen'[d] /\ att'[d] = x
               /\ pc'[d] \notin {"idle", "info", "subscribe", "close", "over"}
    <3>1. d \in Clients
      BY <2>2, <2>5, <1>t
    <3>2. CASE d = c
      <4>1. x = att[c]
        BY <3>2, <2>1, <2>2, <2>5
      <4>2. QED BY <4>1, <3>1, <3>2, <2>3, <2>4
    <3>3. CASE d # c
      <4>1. d \in clients[x]
        BY <3>3, <2>2, <2>5
      <4>2. chanOpen[d] /\ att[d] = x
            /\ pc[d] \notin {"idle", "info", "subscribe", "close", "over"}
        BY <4>1 DEF ChannelInv
      <4>3. QED BY <4>2, <3>1, <3>3, <2>3, <2>4, <1>t
    <3>4. QED BY <3>2, <3>3
  <2>6. QED BY <2>5 DEF ChannelInv
<1>10. ASSUME NEW c \in Clients, Loop(c) \/ Type(c) \/ ReadFails(c) \/ Cleanup(c)
       PROVE  ChannelInv'
  BY <1>10, <1>g DEF Loop, Type, ReadFails, Cleanup, HandlerPcs
<1>11. ASSUME NEW c \in Clients, WriteBegins(c) PROVE ChannelInv'
  <2>1. CASE Goto(c, "cleanup") BY <2>1, <1>11, <1>g DEF WriteBegins, HandlerPcs
  <2>2. CASE UNCHANGED pc BY <2>2, <1>11, <1>f DEF WriteBegins
  <2>3. QED BY <2>1, <2>2, <1>11 DEF WriteBegins
<1>12. ASSUME NEW c \in Clients, WriteEnds(c) PROVE ChannelInv'
  BY <1>12, <1>g DEF WriteEnds, HandlerPcs
<1>13. ASSUME NEW c \in Clients, LogDisconnect(c) PROVE ChannelInv'
  BY <1>13, <1>g DEF LogDisconnect, HandlerPcs
<1>14. ASSUME NEW c \in Clients, Unsubscribe(c) PROVE ChannelInv'
  <2>1. \A x \in Sessions : c \notin clients'[x] /\ clients'[x] \subseteq clients[x]
    BY <1>14, <1>t DEF Unsubscribe, ChannelInv
  <2>2. \A d \in Clients : d # c => chanOpen'[d] = chanOpen[d] /\ pc'[d] = pc[d]
    BY <1>14, <1>t DEF Unsubscribe
  <2>3. att' = att
    BY <1>14 DEF Unsubscribe
  <2>4. QED BY <2>1, <2>2, <2>3, <1>t DEF ChannelInv
<1>15. ASSUME NEW c \in Clients, CloseEphemeral(c) PROVE ChannelInv'
  BY <1>15, <1>g, <1>c DEF CloseEphemeral, HandlerPcs
<1>16. ASSUME NEW c \in Clients, Goroutine(c) \/ Leave(c) PROVE ChannelInv'
  BY <1>16, <1>f DEF Goroutine, Forward, SeesDone, SeesClosed, Leave
<1> HIDE DEF channelVars, handlerVars, Goto
<1>17. QED
  BY <1>1, <1>2, <1>3, <1>4, <1>5, <1>6, <1>7, <1>8, <1>9, <1>10, <1>11, <1>12,
     <1>13, <1>14, <1>15, <1>16
  DEF Next, Close, ReadLoop, Handler

-------------------------------------------------------------------------------
(* The theorems *)

LEMMA Inductive == Spec => []TInv
<1>1. Init => TInv
  <2>1. Init => ShellInv
    <3>1. IsFiniteSet({}) /\ Cardinality({}) = 0
      BY FS_EmptySet
    <3>2. QED BY <3>1, TerminalAssumption DEF Init, ShellInv, Fresh
  <2>2. Init => ChannelInv
    BY DEF Init, ChannelInv
  <2>3. QED BY <2>1, <2>2, InitType DEF TInv
<1>2. TInv /\ [Next]_vars => TInv'
  <2> SUFFICES ASSUME TInv, [Next]_vars PROVE TInv'
    OBVIOUS
  <2>1. CASE Next
    BY <2>1, TypeStep, ShellStep, ChannelStep DEF TInv
  <2>2. CASE UNCHANGED vars
    <3>1. TypeOK'
      BY <2>2, TypeStep DEF TInv
    <3>2. ShellInv' /\ ChannelInv'
      BY <2>2 DEF TInv, ShellInv, ChannelInv, Fresh, vars, managerVars, shellVars,
                  sessionVars, channelVars, handlerVars
    <3>3. QED BY <3>1, <3>2 DEF TInv
  <2>3. QED BY <2>1, <2>2
<1>3. QED BY <1>1, <1>2, PTL DEF Spec

(* Every variable of the manager, the sessions and the handlers keeps its   *)
(* type: no channel holds more than its capacity, the sessions being closed *)
(* are registered.                                                          *)
THEOREM TypeCorrect == Spec => []TypeOK
<1>1. TInv => TypeOK
  BY DEF TInv
<1>2. QED BY <1>1, Inductive, PTL

(* A shell that runs is in the manager's maps, whichever way its session is *)
(* closed: no CloseSession, sweep or end of readLoop forgets a process.      *)
THEOREM NoShellIsForgotten == Spec => []ShellsRegistered
<1>1. TInv => ShellsRegistered
  BY DEF TInv, ShellInv, ShellsRegistered
<1>2. QED BY <1>1, Inductive, PTL

(* CreateSession's comparison of the map with maxSessions bounds the shells *)
(* that run, for every number of sessions created and closed at once.       *)
THEOREM ShellsAreBounded == Spec => []AtMostMaxShells
<1>1. TInv => AtMostMaxShells
  <2> SUFFICES ASSUME TInv PROVE AtMostMaxShells
    OBVIOUS
  <2> DEFINE alive == {s \in Sessions : shell[s] = "alive"}
  <2>1. alive \in SUBSET registered
    BY DEF TInv, ShellInv
  <2>2. /\ IsFiniteSet(registered) /\ Cardinality(registered) <= MaxSessions
        /\ Cardinality(registered) \in Nat
    BY FS_CardinalityType DEF TInv, ShellInv
  <2>3. /\ Cardinality(alive) <= Cardinality(registered)
        /\ Cardinality(alive) \in Nat
    BY <2>1, <2>2, FS_Subset, FS_CardinalityType
  <2>4. QED BY <2>2, <2>3, TerminalAssumption DEF AtMostMaxShells
<1>2. QED BY <1>1, Inductive, PTL

(* broadcast and Close never meet a closed channel, however Unsubscribe,    *)
(* CloseSession and readLoop's own Close are interleaved.                   *)
THEOREM NoSendOnClosed == Spec => []RegisteredChannelsOpen
<1>1. TInv => RegisteredChannelsOpen
  BY DEF TInv, ChannelInv, RegisteredChannelsOpen
<1>2. QED BY <1>1, Inductive, PTL
-------------------------------------------------------------------------------
(* The buffer of a session: what a new client is sent out of it *)

\* The bytes of the last History chunks when n have been read
Contents(n) ==
  LET first == IF n > History THEN n - History ELSE 0
  IN [i \in 1..(n - first) |-> Byte(first + i)]

HistoryInv == TypeOK /\ IndexInv /\ ReadAll = Contents(consumed[Watched])

\* A chunk is a byte of its number.
LEMMA ByteType == \A n \in Nat : Byte(n) \in Bytes
<1> DEFINE k == Cardinality(Bytes)
<1>1. k \in Nat /\ Bytes = 0..(k - 1)
  BY HistoryAssumption, FS_CardinalityType
<1>2. k # 0
  BY HistoryAssumption, BufferAssumption, FS_EmptySet
<1> HIDE DEF k
<1>3. \A n \in Nat : n % k \in 0..(k - 1)
  BY <1>1, <1>2
<1> QED BY <1>1, <1>3 DEF Byte, k

\* One more chunk is one more byte at the end of what is kept, and one less at
\* its start when History are kept.
LEMMA OneMoreChunk ==
  ASSUME NEW n \in Nat, NEW l \in Nat, l = n + 1
  PROVE  Contents(l) =
           IF Len(Contents(n)) < Size THEN Append(Contents(n), Byte(l))
           ELSE Append(Tail(Contents(n)), Byte(l))
<1> DEFINE First(m) == IF m > History THEN m - History ELSE 0
           Bound(m) == m - First(m)
<1>0. History \in Nat \ {0} /\ Size = History
  BY TerminalAssumption, HistoryAssumption
<1>1. \A m \in Nat : /\ First(m) \in Nat /\ Bound(m) \in Nat /\ Bound(m) <= History
                     /\ Contents(m) = [i \in 1..Bound(m) |-> Byte(First(m) + i)]
  BY <1>0 DEF Contents
<1>2. First(l) = IF n < History THEN First(n) ELSE First(n) + 1
  BY <1>0
<1>3. Bound(l) = IF n < History THEN Bound(n) + 1 ELSE Bound(n)
  BY <1>0
<1>4. Bound(n) < Size <=> n < History
  BY <1>0
<1>5. /\ First(n) + Bound(n) = n /\ (n >= History => Bound(n) = History)
      /\ First(n) \in Nat /\ Bound(n) \in Nat
  BY <1>0
<1> HIDE DEF First, Bound
<1>6. \A m \in Nat : Contents(m) \in Seq(Bytes) /\ Len(Contents(m)) = Bound(m)
  <2> SUFFICES ASSUME NEW m \in Nat
               PROVE  Contents(m) \in Seq(Bytes) /\ Len(Contents(m)) = Bound(m)
    OBVIOUS
  <2>1. \A i \in 1..Bound(m) : Byte(First(m) + i) \in Bytes
    BY <1>1, ByteType
  <2> DEFINE e(i) == Byte(First(m) + i)
  <2>2. \A i \in 1..Bound(m) : e(i) \in Bytes
    BY <2>1
  <2>3. Contents(m) = [i \in 1..Bound(m) |-> e(i)] /\ Bound(m) \in Nat
    BY <1>1
  <2> HIDE DEF e
  <2> QED BY <2>2, <2>3, IsASeq
<1> DEFINE p == Contents(n)
           b == Byte(l)
           w == Contents(l)
<1>7. /\ p \in Seq(Bytes) /\ Len(p) = Bound(n) /\ b \in Bytes
      /\ w \in Seq(Bytes) /\ Len(w) = Bound(l) /\ Bound(n) \in Nat
  BY <1>1, <1>6, ByteType
<1>8. /\ \A i \in 1..Bound(n) : p[i] = Byte(First(n) + i)
      /\ \A i \in 1..Bound(l) : w[i] = Byte(First(l) + i)
  BY <1>1
<1> HIDE DEF p, b, w
<1>9. CASE n < History
  <2>1. Bound(l) = Bound(n) + 1 /\ First(l) = First(n)
    BY <1>2, <1>3, <1>9
  <2>2. Append(p, b) \in Seq(Bytes) /\ Len(Append(p, b)) = Len(w)
    BY <1>7, <2>1
  <2>3. ASSUME NEW i \in 1..Len(Append(p, b)) PROVE Append(p, b)[i] = w[i]
    <3>1. CASE i \in 1..Bound(n)
      BY <1>7, <1>8, <2>1, <2>2, <3>1
    <3>2. CASE i = Bound(n) + 1
      <4>1. Append(p, b)[i] = b
        BY <1>7, <3>2
      <4>2. First(n) + i = l
        BY <1>5, <3>2
      <4>3. i \in 1..Bound(l)
        BY <1>5, <2>1, <3>2
      <4>4. w[i] = Byte(First(n) + i)
        BY <1>8, <2>1, <4>3
      <4> QED BY <4>1, <4>2, <4>4 DEF b
    <3> QED BY <1>7, <2>1, <2>2, <3>1, <3>2
  <2>4. Append(p, b) = w
    BY <1>7, <2>2, <2>3, SameSequence
  <2> QED BY <1>4, <1>7, <1>9, <2>4 DEF p, b, w
<1>10. CASE ~(n < History)
  <2>1. /\ Bound(l) = Bound(n) /\ First(l) = First(n) + 1
        /\ Bound(n) = History
    BY <1>0, <1>2, <1>3, <1>5, <1>10
  <2>2. p # <<>>
    BY <1>0, <1>7, <2>1
  <2>3. /\ Append(Tail(p), b) \in Seq(Bytes)
        /\ Len(Append(Tail(p), b)) = Len(p)
        /\ \A i \in 1..Len(p) :
             Append(Tail(p), b)[i] = IF i < Len(p) THEN p[i + 1] ELSE b
    BY <1>7, <2>2, ShiftedIn
  <2>4. ASSUME NEW i \in 1..Len(p) PROVE Append(Tail(p), b)[i] = w[i]
    <3>1. w[i] = Byte(First(l) + i)
      BY <1>7, <1>8, <2>1
    <3>2. CASE i < Len(p)
      <4>1. p[i + 1] = Byte(First(n) + (i + 1))
        BY <1>7, <1>8, <3>2
      <4>2. First(l) + i = First(n) + (i + 1)
        BY <1>1, <1>7, <2>1
      <4> QED BY <2>3, <3>1, <3>2, <4>1, <4>2
    <3>3. CASE i = Len(p)
      <4>1. First(l) + i = l
        <5>1. i = Bound(n)
          BY <1>7, <3>3
        <5> QED BY <1>5, <2>1, <5>1
      <4>2. ~(i < Len(p))
        BY <1>7, <3>3
      <4>3. Append(Tail(p), b)[i] = b
        BY <2>3, <4>2
      <4> QED BY <3>1, <4>1, <4>3 DEF b
    <3> QED BY <1>7, <3>2, <3>3
  <2>5. Append(Tail(p), b) = w
    BY <1>7, <2>1, <2>3, <2>4, SameSequence
  <2> QED BY <1>4, <1>7, <1>10, <2>5 DEF p, b, w
<1> QED BY <1>9, <1>10

\* Only readLoop consumes, one chunk at a time.
LEMMA ConsumedStep ==
  ASSUME TypeOK, [Next]_vars
  PROVE  consumed'[Watched] \in {consumed[Watched], consumed[Watched] + 1}
<1> USE DEF sessionVars
<1>a. Watched \in Sessions /\ consumed \in [Sessions -> Nat]
  BY HistoryAssumption DEF TypeOK
<1>1. ASSUME NEW s \in Sessions, Read(s)
      PROVE  consumed'[Watched] \in {consumed[Watched], consumed[Watched] + 1}
  BY <1>1, <1>a DEF Read
<1>2. ASSUME NEW s \in Sessions,
             \/ CreateSession(s) \/ Close(s) \/ Output(s) \/ Exit(s)
             \/ Touch(s) \/ Broadcast(s) \/ ReadEnds(s) \/ ReaderMark(s)
             \/ ReaderDisconnect(s) \/ ReaderKill(s)
      PROVE  consumed' = consumed
  BY <1>2 DEF CreateSession, Close, CloseMark, CloseDisconnect, CloseKill, Remove,
              Output, Exit, Touch, Broadcast, ReadEnds, ReaderMark,
              ReaderDisconnect, ReaderKill
<1>3. ASSUME NEW S \in SUBSET Sessions, BeginClose(S) PROVE consumed' = consumed
  BY <1>3 DEF BeginClose
<1>4. ASSUME NEW c \in Clients, NEW s \in Sessions,
             Attach(c, s) \/ \E e \in BOOLEAN : Connect(c, s, e)
      PROVE  consumed' = consumed
  BY <1>4 DEF Attach, Connect
<1>5. ASSUME NEW c \in Clients, Handler(c) PROVE consumed' = consumed
  BY <1>5 DEF Handler, Info, Subscribe, Loop, ReadFails, WriteBegins, WriteEnds,
              Cleanup, LogDisconnect, Unsubscribe, CloseEphemeral
<1>6. ASSUME NEW c \in Clients, Goroutine(c) \/ Type(c) \/ Leave(c)
      PROVE  consumed' = consumed
  BY <1>6 DEF Goroutine, Forward, SeesDone, SeesClosed, Type, Leave
<1>7. CASE UNCHANGED vars
  BY <1>7 DEF vars
<1> QED BY <1>1, <1>2, <1>3, <1>4, <1>5, <1>6, <1>7 DEF Next, ReadLoop

\* What the buffer holds moves with what readLoop has consumed.
LEMMA HistoryStep ==
  HistoryInv /\ [HistoryNext]_<<vars, bufferVars>> => HistoryInv'
<1> SUFFICES ASSUME HistoryInv, [HistoryNext]_<<vars, bufferVars>>
             PROVE  HistoryInv'
  OBVIOUS
<1>a. TypeOK /\ IndexInv /\ ReadAll = Contents(consumed[Watched])
  BY DEF HistoryInv
<1>b. [Next]_vars
  BY DEF HistoryNext
<1>c. TypeOK'
  BY <1>a, <1>b, TypeStep
<1>d. consumed[Watched] \in Nat
  BY <1>a, HistoryAssumption DEF TypeOK
<1>1. CASE UNCHANGED <<bufferVars, consumed[Watched]>>
  <2>1. IndexInv'
    BY <1>1, <1>a DEF bufferVars, IndexInv, BufferTypeOK
  <2>2. ReadAll' = ReadAll
    BY <1>1 DEF bufferVars, ReadAll, Slice
  <2> QED BY <1>1, <1>a, <1>c, <2>1, <2>2 DEF HistoryInv
<1>2. CASE HistoryNext /\ consumed'[Watched] # consumed[Watched]
  <2>1. consumed'[Watched] = consumed[Watched] + 1
    BY <1>2, <1>a, <1>b, ConsumedStep
  <2> DEFINE n == consumed[Watched]
             b == Byte(n + 1)
  <2>2. Put(b) /\ b \in Bytes
    BY <1>2, <1>d, <2>1, ByteType DEF HistoryNext, Buffered
  <2>3. IndexInv'
    BY <1>a, <2>2, IndexStep
  <2>4. H!Put(b)
    BY <1>a, <2>2, PutAppends
  <2>5. ReadAll' = IF Len(Contents(n)) < Size THEN Append(Contents(n), b)
                   ELSE Append(Tail(Contents(n)), b)
    BY <1>a, <2>4 DEF H!Put
  <2>6. ReadAll' = Contents(n + 1)
    <3>1. n \in Nat /\ n + 1 \in Nat
      BY <1>d
    <3> QED BY <2>5, <3>1, OneMoreChunk
  <2>7. ReadAll' = Contents(consumed[Watched])'
    BY <2>1, <2>6 DEF Contents, Byte
  <2> QED BY <1>c, <2>3, <2>7 DEF HistoryInv
<1>3. CASE HistoryNext /\ consumed'[Watched] = consumed[Watched]
  BY <1>1, <1>3 DEF HistoryNext, Buffered
<1>4. CASE UNCHANGED <<vars, bufferVars>>
  BY <1>1, <1>4 DEF vars, sessionVars
<1> QED BY <1>2, <1>3, <1>4

\* An empty buffer is the history of a session that has written nothing.
LEMMA InitHistory == HistoryInit => HistoryInv
<1> SUFFICES ASSUME HistoryInit PROVE HistoryInv
  OBVIOUS
<1>1. TypeOK
  BY InitType DEF HistoryInit
<1>2. IndexInv
  BY InitIndex DEF HistoryInit
<1>3. consumed[Watched] = 0 /\ ReadAll = <<>>
  BY HistoryAssumption DEF HistoryInit, Init, BufferInit, ReadAll
<1>4. History \in Nat
  BY TerminalAssumption
<1>5. Contents(0) = [i \in 1..0 |-> Byte(0 + i)]
  BY <1>4 DEF Contents
<1>6. Contents(0) = <<>>
  BY <1>5
<1> QED BY <1>1, <1>2, <1>3, <1>6 DEF HistoryInv

(* What Subscribe reads out of the buffer are the last chunks that readLoop *)
(* consumed, oldest first, wherever the buffer has wrapped: the replay that *)
(* the module Terminal counts on is the one the bytes make.                 *)
THEOREM BufferIsReplay == HistorySpec => []BufferReplays
<1>1. HistoryInv => BufferReplays
  <2> SUFFICES ASSUME HistoryInv PROVE BufferReplays
    OBVIOUS
  <2> DEFINE n == consumed[Watched]
             first == IF n > History THEN n - History ELSE 0
  <2>1. n \in Nat /\ History \in Nat
    BY HistoryAssumption, TerminalAssumption DEF HistoryInv, TypeOK
  <2>2. first \in Nat /\ n - first \in Nat
    BY <2>1
  <2>3. Replay(Watched) = [i \in 1..(n - first) |-> first + i]
    BY DEF Replay
  <2>4. Contents(n) = [i \in 1..(n - first) |-> Byte(first + i)]
    BY DEF Contents
  <2> HIDE DEF first, n
  <2>5. DOMAIN Replay(Watched) = 1..(n - first)
    BY <2>3
  <2>6. [i \in DOMAIN Replay(Watched) |-> Byte(Replay(Watched)[i])]
          = [i \in 1..(n - first) |-> Byte(first + i)]
    BY <2>3, <2>5
  <2> QED BY <2>4, <2>6 DEF HistoryInv, BufferReplays, n
<1> QED BY <1>1, InitHistory, HistoryStep, PTL DEF HistorySpec

(* The buffer of a session promises what BoundedHistory does also when it   *)
(* is written by readLoop, among everything else the server does.           *)
THEOREM SessionKeepsLastBytes == HistorySpec => KeepsLastBytes
<1>1. HistoryInit => H!Init
  BY DEF HistoryInit, BufferInit, H!Init, ReadAll
<1>2. HistoryInv /\ [HistoryNext]_<<vars, bufferVars>> => [H!Next]_ReadAll
  <2> SUFFICES ASSUME HistoryInv, [HistoryNext]_<<vars, bufferVars>>
               PROVE  [H!Next]_ReadAll
    OBVIOUS
  <2>1. CASE UNCHANGED bufferVars
    BY <2>1 DEF bufferVars, ReadAll, Slice
  <2>2. CASE HistoryNext /\ consumed'[Watched] # consumed[Watched]
    <3>1. consumed'[Watched] \in Nat
      BY HistoryAssumption, TypeStep DEF HistoryInv, HistoryNext, TypeOK
    <3>2. H!Put(Byte(consumed'[Watched]))
      BY <2>2, <3>1, ByteType, PutAppends DEF HistoryInv, HistoryNext, Buffered
    <3> QED BY <3>1, <3>2, ByteType DEF H!Next
  <2> QED BY <2>1, <2>2 DEF HistoryNext, Buffered
<1> QED
  BY <1>1, <1>2, InitHistory, HistoryStep, PTL DEF HistorySpec, KeepsLastBytes, H!Spec
-------------------------------------------------------------------------------
(* What a client sees: the replay, and the live output after it *)

\* The chunks that are in the buffer and not broadcast yet, one at most
Pending(s) == IF reader[s] \in {"touch", "broadcast"} THEN 1 ELSE 0

\* A persistent client that has missed nothing
Live(c) == /\ c \in clients[att[c]]
           /\ out[c] = "select"
           /\ ~ephemeral[c]
           /\ ~dropped[c]

Steady(v) == \A i \in 1..(Len(v) - 1) : v[i + 1] # v[i]

\* What is seen goes from chunk to chunk up to the last of n, with one repeated
\* at most: the one that was being broadcast when the client came.
Joined(v, n, pending) ==
  /\ \A i \in 1..(Len(v) - 1) : v[i + 1] \in {v[i], v[i] + 1}
  /\ \A i, j \in 1..(Len(v) - 1) : v[i + 1] = v[i] /\ v[j + 1] = v[j] => i = j
  /\ v = <<>> => n = pending
  /\ v # <<>> => \/ v[Len(v)] = n - pending
                 \/ pending = 1 /\ v[Len(v)] = n /\ Steady(v)

ViewInv ==
  /\ \A s \in Sessions : Pending(s) <= consumed[s]
  /\ \A c \in Clients : pc[c] \in {"idle", "info", "subscribe"} => chan[c] = <<>>
  /\ \A c \in Clients : Live(c) => Joined(View(c), consumed[att[c]], Pending(att[c]))

\* A replay is the chunks up to the last one read, each once.
LEMMA ReplayJoins ==
  ASSUME TypeOK, NEW s \in Sessions, Pending(s) <= consumed[s]
  PROVE  Joined(Replay(s), consumed[s], Pending(s))
<1> DEFINE n == consumed[s]
           first == IF n > History THEN n - History ELSE 0
           k == n - first
           v == Replay(s)
<1>p. Pending(s) \in {0, 1} /\ Pending(s) <= consumed[s]
  BY DEF Pending
<1>1. n \in Nat /\ History \in Nat \ {0}
  BY TerminalAssumption DEF TypeOK
<1>2. first \in Nat /\ k \in Nat /\ first + k = n /\ (k = 0 => n = 0)
  BY <1>1
<1>3. v \in Seq(Nat) /\ v = [i \in 1..k |-> first + i]
  BY ReplayType DEF Replay
<1> HIDE DEF n, first, k, v
<1>4. Len(v) = k /\ \A i \in 1..k : v[i] = first + i
  BY <1>2, <1>3
<1>5. \A i \in 1..(Len(v) - 1) : v[i + 1] = v[i] + 1 /\ v[i] \in Nat
  <2> SUFFICES ASSUME NEW i \in 1..(Len(v) - 1)
               PROVE  v[i + 1] = v[i] + 1 /\ v[i] \in Nat
    OBVIOUS
  <2>1. i \in 1..k /\ i + 1 \in 1..k
    BY <1>2, <1>4
  <2>2. v[i] = first + i /\ v[i + 1] = first + (i + 1)
    BY <1>4, <2>1
  <2> QED BY <1>2, <2>1, <2>2
<1>6. Steady(v)
  BY <1>5 DEF Steady
<1>7. v = <<>> => n = Pending(s)
  BY <1>p, <1>2, <1>4 DEF n
<1>8. v # <<>> => v[Len(v)] = n
  BY <1>2, <1>3, <1>4
<1>9. \A i, j \in 1..(Len(v) - 1) : v[i + 1] = v[i] /\ v[j + 1] = v[j] => i = j
  BY <1>6 DEF Steady
<1>10. Joined(v, n, Pending(s))
  <2>1. v # <<>> => \/ v[Len(v)] = n - Pending(s)
                    \/ Pending(s) = 1 /\ v[Len(v)] = n /\ Steady(v)
    BY <1>p, <1>1, <1>6, <1>8
  <2> QED BY <2>1, <1>5, <1>6, <1>7, <1>8, <1>9 DEF Joined
<1> QED BY <1>10 DEF n, v

\* The next chunk read is seen by nobody before its broadcast.
LEMMA ReadJoins ==
  ASSUME NEW v \in Seq(Nat), NEW n \in Nat, Joined(v, n, 0)
  PROVE  Joined(v, n + 1, 1)
BY DEF Joined

\* The broadcast of a chunk shows it, a second time to a client whose replay
\* had it.
LEMMA BroadcastJoins ==
  ASSUME NEW v \in Seq(Nat), NEW n \in Nat, Joined(v, n, 1)
  PROVE  Joined(Append(v, n), n, 0)
<1> DEFINE m == Len(v)
           w == Append(v, n)
<1>1. /\ m \in Nat /\ Len(w) = m + 1 /\ w[m + 1] = n
      /\ w # <<>>
      /\ \A i \in 1..m : w[i] = v[i] /\ v[i] \in Nat
      /\ v = <<>> <=> m = 0
  OBVIOUS
<1> HIDE DEF m, w
<1>2. /\ \A i \in 1..(m - 1) : v[i + 1] \in {v[i], v[i] + 1}
      /\ \A i, j \in 1..(m - 1) : v[i + 1] = v[i] /\ v[j + 1] = v[j] => i = j
      /\ v # <<>> => v[m] = n - 1 \/ (v[m] = n /\ Steady(v))
  BY DEF Joined, m
<1>3. \A i \in 1..(m - 1) : w[i] = v[i] /\ w[i + 1] = v[i + 1]
  BY <1>1
<1>4. \A i \in 1..(Len(w) - 1) : i \in 1..(m - 1) \/ (i = m /\ m > 0)
  BY <1>1
<1>5. m > 0 => w[m] = v[m] /\ v[m] \in Nat /\ w[m + 1] = n /\ v # <<>>
  BY <1>1
<1>6. \A i \in 1..(Len(w) - 1) : w[i + 1] \in {w[i], w[i] + 1}
  <2> SUFFICES ASSUME NEW i \in 1..(Len(w) - 1) PROVE w[i + 1] \in {w[i], w[i] + 1}
    OBVIOUS
  <2>1. CASE i \in 1..(m - 1)
    BY <1>2, <1>3, <2>1
  <2>2. CASE i = m /\ m > 0
    <3>1. v[m] = n - 1 \/ v[m] = n
      BY <1>2, <1>5, <2>2
    <3> QED BY <1>5, <2>2, <3>1
  <2> QED BY <1>4, <2>1, <2>2
<1>7. m > 0 /\ v[m] = n => \A i \in 1..(m - 1) : v[i + 1] # v[i]
  BY <1>1, <1>2 DEF Steady, m
<1>8. ASSUME NEW i \in 1..(Len(w) - 1), NEW j \in 1..(Len(w) - 1),
             w[i + 1] = w[i], w[j + 1] = w[j]
      PROVE  i = j
  <2>1. CASE i \in 1..(m - 1) /\ j \in 1..(m - 1)
    BY <1>2, <1>3, <1>8, <2>1
  <2>2. CASE i \in 1..(m - 1) /\ j = m /\ m > 0
    BY <1>3, <1>5, <1>7, <1>8, <2>2
  <2>3. CASE j \in 1..(m - 1) /\ i = m /\ m > 0
    BY <1>3, <1>5, <1>7, <1>8, <2>3
  <2> QED BY <1>4, <2>1, <2>2, <2>3
<1>9. w[Len(w)] = n
  BY <1>1
<1>10. Joined(w, n, 0)
  BY <1>1, <1>6, <1>8, <1>9 DEF Joined
<1> QED BY <1>10 DEF w

\* What is moved from the channel to the WebSocket stays in view.
LEMMA ForwardKeepsView ==
  ASSUME NEW g \in Seq(Nat), NEW q \in Seq(Nat), q # <<>>
  PROVE  Append(g, Head(q)) \o Tail(q) = g \o q
<1> DEFINE l == Append(g, Head(q)) \o Tail(q)
           r == g \o q
<1>1. /\ Head(q) \in Nat /\ Head(q) = q[1] /\ Tail(q) \in Seq(Nat)
      /\ Len(Tail(q)) = Len(q) - 1 /\ Len(q) \in Nat \ {0} /\ Len(g) \in Nat
      /\ \A i \in 1..(Len(q) - 1) : Tail(q)[i] = q[i + 1]
  BY HeadTailProperties, EmptySeq, LenProperties
<1>2. /\ Append(g, Head(q)) \in Seq(Nat) /\ Len(Append(g, Head(q))) = Len(g) + 1
      /\ \A i \in 1..Len(g) : Append(g, Head(q))[i] = g[i]
      /\ Append(g, Head(q))[Len(g) + 1] = q[1]
  BY <1>1
<1>3. /\ l \in Seq(Nat) /\ r \in Seq(Nat)
      /\ Len(l) = Len(g) + Len(q) /\ Len(r) = Len(g) + Len(q)
  BY <1>1, <1>2, ConcatProperties
<1>4. ASSUME NEW i \in 1..(Len(g) + Len(q)) PROVE l[i] = r[i]
  <2>1. r[i] = IF i <= Len(g) THEN g[i] ELSE q[i - Len(g)]
    BY ConcatProperties
  <2>2. l[i] = IF i <= Len(g) + 1 THEN Append(g, Head(q))[i]
               ELSE Tail(q)[i - (Len(g) + 1)]
    BY <1>1, <1>2, ConcatProperties
  <2> HIDE DEF l, r
  <2>3. CASE i <= Len(g)
    BY <1>1, <1>2, <2>1, <2>2, <2>3
  <2>4. CASE i = Len(g) + 1
    BY <1>1, <1>2, <2>1, <2>2, <2>4
  <2>5. CASE i > Len(g) + 1
    <3>1. i - (Len(g) + 1) \in 1..(Len(q) - 1)
      BY <1>1, <2>5
    <3>2. Tail(q)[i - (Len(g) + 1)] = q[i - (Len(g) + 1) + 1]
      BY <1>1, <3>1
    <3>3. i - (Len(g) + 1) + 1 = i - Len(g)
      BY <1>1
    <3>4. QED BY <1>1, <2>1, <2>2, <2>5, <3>2, <3>3
  <2> QED BY <1>1, <2>3, <2>4, <2>5
<1> QED BY <1>3, <1>4, SeqEqual

\* and so does what is put in the channel.
LEMMA AppendToView ==
  ASSUME NEW g \in Seq(Nat), NEW q \in Seq(Nat), NEW n \in Nat
  PROVE  g \o Append(q, n) = Append(g \o q, n) /\ g \o q \in Seq(Nat)
<1>1. g \o q \in Seq(Nat) /\ <<n>> \in Seq(Nat)
  BY ConcatProperties
<1>2. /\ Append(q, n) = q \o <<n>>
      /\ Append(g \o q, n) = (g \o q) \o <<n>>
  BY <1>1, AppendIsConcat
<1>3. (g \o q) \o <<n>> = g \o (q \o <<n>>)
  BY <1>1, ConcatAssociative
<1> QED BY <1>1, <1>2, <1>3

\* Chunks are read, broadcast and forwarded in this order, and a client joins
\* between any two of these steps.
LEMMA ViewStep == TInv /\ ViewInv /\ [Next]_vars => ViewInv'
<1> SUFFICES ASSUME TypeOK, ShellInv, ChannelInv, ViewInv, [Next]_vars PROVE ViewInv'
  BY DEF TInv
<1> USE DEF channelVars, handlerVars, goroutineVars, sessionVars
<1>t. /\ reader \in [Sessions -> ReaderPcs]
      /\ consumed \in [Sessions -> Nat]
      /\ clients \in [Sessions -> SUBSET Clients]
      /\ pc \in [Clients -> HandlerPcs]
      /\ att \in [Clients -> Sessions]
      /\ ephemeral \in [Clients -> BOOLEAN]
      /\ chan \in [Clients -> Seq(Nat)]
      /\ out \in [Clients -> {"off", "select", "ended"}]
      /\ got \in [Clients -> Seq(Nat)]
      /\ dropped \in [Clients -> BOOLEAN]
  BY DEF TypeOK
<1>i. /\ \A s \in Sessions : Pending(s) <= consumed[s]
      /\ \A c \in Clients : pc[c] \in {"idle", "info", "subscribe"} => chan[c] = <<>>
      /\ \A c \in Clients :
            Live(c) => Joined(View(c), consumed[att[c]], Pending(att[c]))
  BY DEF ViewInv
<1>v. \A c \in Clients : View(c) \in Seq(Nat)
  BY <1>t DEF View
<1>c. ASSUME NEW c \in Clients, Live(c) PROVE pc[c] \notin {"idle", "info", "subscribe"}
  BY <1>c, <1>t DEF Live, ChannelInv
\* Steps that neither join, read, broadcast nor forward
<1>f. ASSUME UNCHANGED <<consumed, chan, got, dropped>>,
             \A s \in Sessions : Pending(s)' = Pending(s),
             \A c \in Clients : Live(c)' => Live(c) /\ att'[c] = att[c],
             \A c \in Clients : pc'[c] \in {"idle", "info", "subscribe"} =>
                                pc[c] \in {"idle", "info", "subscribe"}
      PROVE  ViewInv'
  <2>1. \A s \in Sessions : Pending(s)' <= consumed'[s]
    BY <1>f, <1>i
  <2>2. \A c \in Clients : pc'[c] \in {"idle", "info", "subscribe"} => chan'[c] = <<>>
    BY <1>f, <1>i
  <2>3. ASSUME NEW c \in Clients, Live(c)'
        PROVE  Joined(View(c), consumed[att[c]], Pending(att[c]))'
    <3>1. Joined(View(c), consumed[att[c]], Pending(att[c]))
      BY <1>f, <1>i, <2>3
    <3>2. /\ View(c)' = View(c) /\ consumed'[att'[c]] = consumed[att[c]]
          /\ Pending(att[c])' = Pending(att[c]) /\ att'[c] = att[c]
      BY <1>f, <1>t, <2>3 DEF View
    <3>3. Joined(View(c)', consumed'[att'[c]], Pending(att[c])')
      BY <3>1, <3>2
    <3> QED BY <3>3, <3>2 DEF Joined, Steady
  <2> QED BY <2>1, <2>2, <2>3 DEF ViewInv
<1>n. ASSUME NEW c \in Clients, pc[c] = "idle" PROVE \A s \in Sessions : c \notin clients[s]
  BY <1>n DEF ChannelInv
<1>1. ASSUME NEW s \in Sessions, CreateSession(s) PROVE ViewInv'
  <2>1. reader[s] = "off" /\ reader' = [reader EXCEPT ![s] = "read"]
    BY <1>1 DEF CreateSession, ShellInv, Open
  <2>2. \A x \in Sessions : Pending(x)' = Pending(x)
    BY <1>t, <2>1 DEF Pending
  <2> QED BY <1>1, <1>f, <2>2 DEF CreateSession, Live
<1>2. ASSUME NEW s \in Sessions,
             \/ CloseMark(s) \/ CloseKill(s) \/ Remove(s) \/ Output(s) \/ Exit(s)
      PROVE  ViewInv'
  <2>1. UNCHANGED <<consumed, chan, got, dropped, reader, clients, out, ephemeral,
                    att, pc>>
    BY <1>2 DEF CloseMark, CloseKill, Remove, Output, Exit
  <2> QED BY <1>f, <2>1 DEF Live, Pending
<1>3. ASSUME NEW S \in SUBSET Sessions, BeginClose(S) PROVE ViewInv'
  BY <1>3, <1>f DEF BeginClose, Live, Pending
<1>4. ASSUME NEW s \in Sessions, CloseDisconnect(s) \/ ReaderDisconnect(s)
      PROVE  ViewInv'
  <2>1. /\ UNCHANGED <<consumed, chan, got, dropped, out, ephemeral, att, pc>>
        /\ clients' = [clients EXCEPT ![s] = {}]
    BY <1>4 DEF CloseDisconnect, ReaderDisconnect, Disconnect
  <2>2. \A x \in Sessions : Pending(x)' = Pending(x)
    BY <1>4, <1>t DEF CloseDisconnect, ReaderDisconnect, Pending
  <2>3. \A c \in Clients : Live(c)' => Live(c) /\ att'[c] = att[c]
    BY <1>t, <2>1 DEF Live
  <2> QED BY <1>f, <2>1, <2>2, <2>3
<1>5. ASSUME NEW s \in Sessions, Read(s) PROVE ViewInv'
  <2>1. /\ UNCHANGED <<clients, chan, got, dropped, out, ephemeral, att, pc>>
        /\ reader[s] = "read" /\ reader' = [reader EXCEPT ![s] = "touch"]
        /\ consumed' = [consumed EXCEPT ![s] = @ + 1]
    BY <1>5 DEF Read
  <2>2. Pending(s) = 0 /\ Pending(s)' = 1 /\ consumed'[s] = consumed[s] + 1
    <3>1. reader[s] = "read" /\ reader'[s] = "touch" /\ consumed'[s] = consumed[s] + 1
      BY <1>t, <2>1
    <3> QED BY <3>1 DEF Pending
  <2>3. \A x \in Sessions : x # s => consumed'[x] = consumed[x] /\ Pending(x)' = Pending(x)
    BY <1>t, <2>1 DEF Pending
  <2>4. \A x \in Sessions : Pending(x)' <= consumed'[x]
    <3> SUFFICES ASSUME NEW x \in Sessions PROVE Pending(x)' <= consumed'[x]
      OBVIOUS
    <3>1. CASE x = s
      BY <1>t, <2>2, <3>1
    <3>2. CASE x # s
      BY <1>i, <2>3, <3>2
    <3> QED BY <3>1, <3>2
  <2>5. ASSUME NEW c \in Clients, Live(c)'
        PROVE  Joined(View(c), consumed[att[c]], Pending(att[c]))'
    <3>1. Joined(View(c), consumed[att[c]], Pending(att[c]))
      BY <1>i, <2>1, <2>5 DEF Live
    <3>2. View(c)' = View(c) /\ att'[c] = att[c]
      BY <2>1 DEF View
    <3>3. CASE att[c] = s
      <4>1. Pending(att[c]) = 0 /\ Pending(att[c])' = 1
        BY <2>2, <3>2, <3>3 DEF Pending
      <4>2. Joined(View(c), consumed[s] + 1, 1)
        BY <1>t, <1>v, <3>1, <3>3, <4>1, ReadJoins
      <4>3. Joined(View(c)', consumed'[att'[c]], Pending(att[c])')
        BY <2>2, <3>2, <3>3, <4>1, <4>2
      <4> QED BY <4>3 DEF Joined, Steady
    <3>4. CASE att[c] # s
      <4>1. Joined(View(c)', consumed'[att'[c]], Pending(att[c])')
        BY <1>t, <2>3, <3>1, <3>2, <3>4
      <4> QED BY <4>1 DEF Joined, Steady
    <3> QED BY <3>3, <3>4
  <2> QED BY <1>i, <2>1, <2>4, <2>5 DEF ViewInv
<1>6. ASSUME NEW s \in Sessions,
             Touch(s) \/ ReadEnds(s) \/ ReaderMark(s) \/ ReaderKill(s)
      PROVE  ViewInv'
  <2>1. /\ UNCHANGED <<consumed, clients, chan, got, dropped, out, ephemeral, att, pc>>
        /\ \A x \in Sessions : x # s => reader'[x] = reader[x]
        /\ \/ reader[s] = "touch" /\ reader'[s] = "broadcast"
           \/ reader[s] \in {"read", "mark", "kill"}
                /\ reader'[s] \in {"ended", "mark", "disconnect"}
    BY <1>6, <1>t DEF Touch, ReadEnds, ReaderMark, ReaderKill
  <2>2. \A x \in Sessions : Pending(x)' = Pending(x)
    BY <2>1 DEF Pending
  <2> QED BY <1>f, <2>1, <2>2 DEF Live
<1>7. ASSUME NEW s \in Sessions, Broadcast(s) PROVE ViewInv'
  <2>1. /\ UNCHANGED <<consumed, clients, got, out, ephemeral, att, pc>>
        /\ reader[s] = "broadcast"
        /\ reader' = [reader EXCEPT ![s] = IF doneOpen[s] THEN "read" ELSE "ended"]
        /\ \A c \in Clients :
              /\ c \in clients[s] /\ ~Full(c) => chan'[c] = Append(chan[c], consumed[s])
              /\ c \notin clients[s] => chan'[c] = chan[c]
              /\ dropped'[c] = (dropped[c] \/ (c \in clients[s] /\ Full(c)))
    BY <1>7 DEF Broadcast
  <2>2. Pending(s) = 1 /\ Pending(s)' = 0
    <3>1. reader[s] = "broadcast" /\ reader'[s] \in {"read", "ended"}
      BY <1>t, <2>1
    <3> QED BY <3>1 DEF Pending
  <2>3. \A x \in Sessions : x # s => Pending(x)' = Pending(x)
    BY <1>t, <2>1 DEF Pending
  <2>4. \A x \in Sessions : Pending(x)' <= consumed'[x]
    <3> SUFFICES ASSUME NEW x \in Sessions PROVE Pending(x)' <= consumed'[x]
      OBVIOUS
    <3>1. CASE x = s
      BY <1>t, <2>1, <2>2, <3>1
    <3>2. CASE x # s
      BY <1>i, <2>1, <2>3, <3>2
    <3> QED BY <3>1, <3>2
  <2>5. \A c \in Clients : pc'[c] \in {"idle", "info", "subscribe"} => chan'[c] = <<>>
    <3> SUFFICES ASSUME NEW c \in Clients, pc[c] \in {"idle", "info", "subscribe"}
                 PROVE  chan'[c] = <<>>
      BY <2>1
    <3>1. c \notin clients[s]
      BY DEF ChannelInv
    <3> QED BY <1>i, <2>1, <3>1
  <2>6. ASSUME NEW c \in Clients, Live(c)'
        PROVE  Joined(View(c), consumed[att[c]], Pending(att[c]))'
    <3>1. /\ Live(c) /\ att'[c] = att[c] /\ consumed' = consumed
          /\ ~(c \in clients[s] /\ Full(c))
      BY <1>t, <2>1, <2>6 DEF Live
    <3>2. Joined(View(c), consumed[att[c]], Pending(att[c]))
      BY <1>i, <3>1
    <3>3. CASE c \in clients[s]
      <4>1. att[c] = s
        BY <3>3 DEF ChannelInv
      <4>2. chan'[c] = Append(chan[c], consumed[s]) /\ got'[c] = got[c]
        BY <2>1, <3>1, <3>3
      <4>3. View(c)' = Append(View(c), consumed[s])
        BY <1>t, <4>2, AppendToView DEF View
      <4>4. Pending(att[c]) = 1 /\ Pending(att[c])' = 0
        BY <2>2, <3>1, <4>1 DEF Pending
      <4>5. Joined(Append(View(c), consumed[s]), consumed[s], 0)
        BY <1>t, <1>v, <3>2, <4>1, <4>4, BroadcastJoins
      <4>6. Joined(View(c)', consumed'[att'[c]], Pending(att[c])')
        BY <3>1, <4>1, <4>3, <4>4, <4>5
      <4> QED BY <4>6 DEF Joined, Steady
    <3>4. CASE c \notin clients[s]
      <4>1. att[c] # s /\ chan'[c] = chan[c] /\ got'[c] = got[c]
        BY <2>1, <3>1, <3>4 DEF Live
      <4>2. View(c)' = View(c)
        BY <4>1 DEF View
      <4>3. Pending(att[c])' = Pending(att[c])
        BY <1>t, <2>3, <3>1, <4>1 DEF Pending
      <4>4. Joined(View(c)', consumed'[att'[c]], Pending(att[c])')
        BY <3>1, <3>2, <4>2, <4>3
      <4> QED BY <4>4 DEF Joined, Steady
    <3> QED BY <3>3, <3>4
  <2> QED BY <2>4, <2>5, <2>6 DEF ViewInv
<1>8. ASSUME NEW c \in Clients, NEW s \in Sessions, Attach(c, s) PROVE ViewInv'
  <2>1. /\ UNCHANGED <<consumed, chan, got, dropped, reader, clients, out, ephemeral>>
        /\ pc[c] = "idle" /\ att' \in [Clients -> Sessions]
        /\ \A d \in Clients : d # c => pc'[d] = pc[d] /\ att'[d] = att[d]
    BY <1>8, <1>t DEF Attach, Goto
  <2>2. \A x \in Sessions : c \notin clients[x]
    BY <1>n, <2>1
  <2>3. \A d \in Clients : Live(d)' => Live(d) /\ att'[d] = att[d]
    BY <2>1, <2>2 DEF Live
  <2>4. \A d \in Clients : pc'[d] \in {"idle", "info", "subscribe"} =>
                             pc[d] \in {"idle", "info", "subscribe"}
    BY <2>1
  <2> QED BY <1>f, <2>1, <2>3, <2>4 DEF Pending
<1>9. ASSUME NEW c \in Clients, NEW s \in Sessions, NEW e \in BOOLEAN,
             Connect(c, s, e)
      PROVE  ViewInv'
  <2>1. /\ UNCHANGED <<consumed, chan, got, dropped, clients, out>>
        /\ pc[c] = "idle" /\ att' \in [Clients -> Sessions]
        /\ \A d \in Clients : d # c => /\ pc'[d] = pc[d] /\ att'[d] = att[d]
                                       /\ ephemeral'[d] = ephemeral[d]
    BY <1>9, <1>t DEF Connect, Goto
  <2>2. \A x \in Sessions : c \notin clients[x]
    BY <1>n, <2>1
  <2>3. \A d \in Clients : Live(d)' => Live(d) /\ att'[d] = att[d]
    BY <2>1, <2>2 DEF Live
  <2>4. \A d \in Clients : pc'[d] \in {"idle", "info", "subscribe"} =>
                             pc[d] \in {"idle", "info", "subscribe"}
    BY <2>1
  <2>5. /\ reader[s] = "off"
        /\ reader' = reader \/ reader' = [reader EXCEPT ![s] = "read"]
    BY <1>9 DEF Connect, ShellInv, Open
  <2>6. \A x \in Sessions : Pending(x)' = Pending(x)
    BY <1>t, <2>5 DEF Pending
  <2> QED BY <1>f, <2>1, <2>3, <2>4, <2>6
<1>10. ASSUME NEW c \in Clients,
              \/ Info(c) \/ Loop(c) \/ Type(c) \/ ReadFails(c) \/ WriteBegins(c)
              \/ WriteEnds(c) \/ Cleanup(c) \/ LogDisconnect(c) \/ CloseEphemeral(c)
       PROVE  ViewInv'
  <2>1. UNCHANGED <<consumed, chan, got, dropped, reader, clients, out, ephemeral, att>>
    BY <1>10 DEF Info, Loop, Type, ReadFails, WriteBegins, WriteEnds, Cleanup,
                 LogDisconnect, CloseEphemeral
  <2>2. \/ pc' = pc
        \/ \E p \in HandlerPcs \ {"idle", "info", "subscribe"} : Goto(c, p)
        \/ pc[c] = "info"
    BY <1>10 DEF Info, Loop, Type, ReadFails, WriteBegins, WriteEnds, Cleanup,
                 LogDisconnect, CloseEphemeral, HandlerPcs
  <2>3. \A d \in Clients : pc'[d] \in {"idle", "info", "subscribe"} =>
                             pc[d] \in {"idle", "info", "subscribe"}
    <3>1. CASE pc' = pc
      BY <3>1
    <3>2. ASSUME NEW p \in HandlerPcs \ {"idle", "info", "subscribe"}, Goto(c, p)
          PROVE  \A d \in Clients : pc'[d] \in {"idle", "info", "subscribe"} =>
                             pc[d] \in {"idle", "info", "subscribe"}
      BY <1>t, <3>2 DEF Goto
    <3>3. CASE pc[c] = "info"
      <4>1. Info(c) \/ CloseEphemeral(c) \/ pc[c] # "info" \/ WriteEnds(c)
        BY <1>10 DEF Loop, Type, ReadFails, WriteBegins, Cleanup, LogDisconnect
      <4>2. \A d \in Clients : d # c => pc'[d] = pc[d]
        BY <1>t, <3>3, <4>1 DEF Info, CloseEphemeral, WriteEnds, Goto
      <4> QED BY <3>3, <4>2
    <3> QED BY <2>2, <3>1, <3>2, <3>3
  <2> QED BY <1>f, <2>1, <2>3 DEF Live, Pending
<1>11. ASSUME NEW c \in Clients, Subscribe(c) PROVE ViewInv'
  <2>1. /\ UNCHANGED <<consumed, reader, chan, dropped, att, ephemeral>>
        /\ pc[c] = "subscribe" /\ pc' = [pc EXCEPT ![c] = "loop"]
        /\ got' = [got EXCEPT ![c] = IF ephemeral[c] THEN <<>> ELSE Replay(att[c])]
        /\ \A d \in Clients : d # c => out'[d] = out[d]
        /\ clients' = [clients EXCEPT ![att[c]] = @ \cup {c}]
    BY <1>11, <1>t DEF Subscribe, Goto
  <2>2. chan[c] = <<>>
    BY <1>i, <2>1
  <2>3. \A s \in Sessions : Pending(s)' <= consumed'[s]
    BY <1>i, <2>1 DEF Pending
  <2>4. \A d \in Clients : pc'[d] \in {"idle", "info", "subscribe"} => chan'[d] = <<>>
    BY <1>i, <1>t, <2>1
  <2>5. ASSUME NEW d \in Clients, Live(d)'
        PROVE  Joined(View(d), consumed[att[d]], Pending(att[d]))'
    <3>1. CASE d = c
      <4>1. got'[d] = Replay(att[c]) /\ chan'[d] = <<>>
        BY <1>t, <2>1, <2>2, <2>5, <3>1 DEF Live
      <4>2. Replay(att[c]) \in Seq(Nat)
        BY <1>t, ReplayType
      <4>3. View(d)' = Replay(att[c])
        BY <4>1, <4>2 DEF View
      <4>4. Joined(Replay(att[c]), consumed[att[c]], Pending(att[c]))
        BY <1>i, <1>t, ReplayJoins
      <4>5. Pending(att[d])' = Pending(att[c])
        BY <2>1, <3>1 DEF Pending
      <4>6. Joined(View(d)', consumed'[att'[d]], Pending(att[d])')
        BY <2>1, <3>1, <4>3, <4>4, <4>5
      <4> QED BY <4>6 DEF Joined, Steady
    <3>2. CASE d # c
      <4>1. Live(d)
        BY <1>t, <2>1, <2>5, <3>2 DEF Live
      <4>2. View(d)' = View(d) /\ Pending(att[d])' = Pending(att[d])
        BY <1>t, <2>1, <3>2 DEF View, Pending
      <4>3. Joined(View(d)', consumed'[att'[d]], Pending(att[d])')
        BY <1>i, <2>1, <4>1, <4>2
      <4> QED BY <4>3 DEF Joined, Steady
    <3> QED BY <3>1, <3>2
  <2> QED BY <2>3, <2>4, <2>5 DEF ViewInv
<1>12. ASSUME NEW c \in Clients, Unsubscribe(c) PROVE ViewInv'
  <2>1. /\ UNCHANGED <<consumed, reader, chan, dropped, att, ephemeral, got, out>>
        /\ clients' = [clients EXCEPT ![att[c]] = @ \ {c}]
        /\ pc' = [pc EXCEPT ![c] = IF ephemeral[c] THEN "close" ELSE "over"]
    BY <1>12 DEF Unsubscribe, Goto
  <2>2. \A d \in Clients : Live(d)' => Live(d) /\ att'[d] = att[d]
    BY <1>t, <2>1 DEF Live
  <2>3. \A d \in Clients : pc'[d] \in {"idle", "info", "subscribe"} =>
                             pc[d] \in {"idle", "info", "subscribe"}
    BY <1>t, <2>1
  <2> QED BY <1>f, <2>1, <2>2, <2>3 DEF Pending
<1>13. ASSUME NEW c \in Clients, Forward(c) PROVE ViewInv'
  <2>1. /\ UNCHANGED <<consumed, reader, clients, dropped, att, ephemeral, pc>>
        /\ chan[c] # <<>> /\ chan' = [chan EXCEPT ![c] = Tail(@)]
        /\ \/ got' = [got EXCEPT ![c] = Append(@, Head(chan[c]))] /\ out' = out
           \/ out' = [out EXCEPT ![c] = "ended"] /\ got' = got
    BY <1>13 DEF Forward
  <2>2. \A s \in Sessions : Pending(s)' <= consumed'[s]
    BY <1>i, <2>1 DEF Pending
  <2>3. \A d \in Clients : pc'[d] \in {"idle", "info", "subscribe"} => chan'[d] = <<>>
    BY <1>i, <1>t, <2>1
  <2>4. ASSUME NEW d \in Clients, Live(d)'
        PROVE  Joined(View(d), consumed[att[d]], Pending(att[d]))'
    <3>1. Live(d) /\ out'[d] = "select"
      BY <1>t, <2>1, <2>4 DEF Live
    <3>2. View(d)' = View(d)
      <4>1. CASE d = c
        <5>1. got'[d] = Append(got[d], Head(chan[d])) /\ chan'[d] = Tail(chan[d])
          BY <1>t, <2>1, <3>1, <4>1
        <5>2. got[d] \in Seq(Nat) /\ chan[d] \in Seq(Nat) /\ chan[d] # <<>>
          BY <1>t, <2>1, <4>1
        <5>3. Append(got[d], Head(chan[d])) \o Tail(chan[d]) = got[d] \o chan[d]
          BY <5>2, ForwardKeepsView
        <5> QED BY <5>1, <5>3 DEF View
      <4>2. CASE d # c
        BY <1>t, <2>1, <4>2 DEF View
      <4> QED BY <4>1, <4>2
    <3>3. Pending(att[d])' = Pending(att[d])
      BY <2>1 DEF Pending
    <3>4. Joined(View(d)', consumed'[att'[d]], Pending(att[d])')
      BY <1>i, <2>1, <3>1, <3>2, <3>3
    <3> QED BY <3>4 DEF Joined, Steady
  <2> QED BY <2>2, <2>3, <2>4 DEF ViewInv
<1>14. ASSUME NEW c \in Clients, SeesDone(c) \/ SeesClosed(c) \/ Leave(c)
       PROVE  ViewInv'
  <2>1. /\ UNCHANGED <<consumed, reader, chan, dropped, att, ephemeral, got, clients, pc>>
        /\ out' = out \/ out' = [out EXCEPT ![c] = "ended"]
    BY <1>14 DEF SeesDone, SeesClosed, Leave
  <2>2. \A d \in Clients : Live(d)' => Live(d) /\ att'[d] = att[d]
    BY <1>t, <2>1 DEF Live
  <2> QED BY <1>f, <2>1, <2>2 DEF Pending
<1>15. CASE UNCHANGED vars
  BY <1>15, <1>f DEF vars, Live, Pending
<1> HIDE DEF channelVars, handlerVars, goroutineVars, sessionVars
<1> QED
  BY <1>1, <1>2, <1>3, <1>4, <1>5, <1>6, <1>7, <1>8, <1>9, <1>10, <1>11, <1>12,
     <1>13, <1>14, <1>15
  DEF Next, Close, ReadLoop, Handler, Goroutine

(* A client of the persistent handler that has kept up has been sent every  *)
(* chunk from the first of its replay to the last one broadcast, none left  *)
(* out between the replay and the live output, and one twice at most,       *)
(* wherever Subscribe falls between Write and broadcast of readLoop.        *)
THEOREM ReplayAndLiveMeet == Spec => []ReplayMeetsLive
<1>1. Init => ViewInv
  <2> SUFFICES ASSUME Init PROVE ViewInv
    OBVIOUS
  <2>1. \A s \in Sessions : Pending(s) <= consumed[s]
    BY DEF Init, Pending
  <2>2. \A c \in Clients : chan[c] = <<>> /\ att[c] \in Sessions
    BY InitType DEF Init, TypeOK
  <2>3. \A c \in Clients : ~Live(c)
    BY <2>2 DEF Init, Live
  <2> QED BY <2>1, <2>2, <2>3 DEF ViewInv
<1>2. TInv /\ ViewInv => ReplayMeetsLive
  <2> SUFFICES ASSUME TInv, ViewInv, NEW c \in Clients, Live(c)
               PROVE  LET v == View(c)
                          Repeats == {i \in 1..(Len(v) - 1) : v[i + 1] = v[i]}
                      IN /\ \A i \in 1..(Len(v) - 1) : v[i + 1] \in {v[i], v[i] + 1}
                         /\ Cardinality(Repeats) <= 1
                         /\ IF v = <<>> THEN consumed[att[c]] <= 1
                            ELSE v[Len(v)] >= consumed[att[c]] - 1
    BY DEF ReplayMeetsLive, Live
  <2> DEFINE v == View(c)
             n == consumed[att[c]]
             Repeats == {i \in 1..(Len(v) - 1) : v[i + 1] = v[i]}
  <2>1. v \in Seq(Nat) /\ n \in Nat
    BY DEF TInv, TypeOK, View
  <2>2. Joined(v, n, Pending(att[c]))
    BY DEF ViewInv
  <2> HIDE DEF v, n
  <2>3. \A i \in 1..(Len(v) - 1) : v[i + 1] \in {v[i], v[i] + 1}
    BY <2>2 DEF Joined
  <2>4. Cardinality(Repeats) <= 1
    <3>1. CASE Repeats = {}
      <4> HIDE DEF Repeats
      <4>1. Cardinality(Repeats) = 0
        BY <3>1, FS_EmptySet, Zenon
      <4> QED BY <4>1
    <3>2. ASSUME NEW i \in Repeats PROVE Cardinality(Repeats) <= 1
      <4>1. \A j \in Repeats : j = i
        BY <2>2, <3>2 DEF Joined
      <4>3. Repeats = {i}
        BY <4>1, <3>2, Zenon
      <4> HIDE DEF Repeats
      <4>2. Cardinality(Repeats) = 1
        BY <4>3, FS_Singleton, Zenon
      <4> QED BY <4>2
    <3> QED BY <3>1, <3>2
  <2>5. IF v = <<>> THEN n <= 1 ELSE v[Len(v)] >= n - 1
    <3>0. Pending(att[c]) \in {0, 1}
      BY DEF Pending
    <3>1. CASE v = <<>>
      BY <2>1, <2>2, <3>0, <3>1 DEF Joined
    <3>2. CASE v # <<>>
      <4>1. v[Len(v)] \in Nat
        BY <2>1, <3>2
      <4> QED BY <2>1, <2>2, <3>0, <3>2, <4>1 DEF Joined
    <3> QED BY <3>1, <3>2
  <2> QED BY <2>3, <2>4, <2>5 DEF v, n
<1> QED BY <1>1, <1>2, Inductive, ViewStep, PTL DEF Spec
=================================================================================
