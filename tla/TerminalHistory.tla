---------------------------- MODULE TerminalHistory ----------------------------
(***************************************************************************)
(* A session of Terminal with the ring buffer readLoop writes to, which the *)
(* module Terminal only counts.  A chunk is one byte of its number.         *)
(***************************************************************************)
EXTENDS Terminal, RingBuffer

CONSTANT Watched    \* the session the buffer belongs to

ASSUME HistoryAssumption == /\ Watched \in Sessions /\ Size = History
                            /\ IsFiniteSet(Bytes)
                            /\ Bytes = 0..(Cardinality(Bytes) - 1)

Byte(n) == n % Cardinality(Bytes)

\* readLoop writes what it has read into the buffer; nobody else does.
Buffered == IF consumed'[Watched] # consumed[Watched]
            THEN Put(Byte(consumed'[Watched])) ELSE UNCHANGED bufferVars

HistoryInit == Init /\ BufferInit
HistoryNext == Next /\ Buffered
HistorySpec == HistoryInit /\ [][HistoryNext]_<<vars, bufferVars>> /\ Fairness

(* What a client that subscribes is sent out of the buffer, its contents at *)
(* every fill and wrap, are the last chunks the shell wrote, as Replay has  *)
(* them and with no byte of an older one.                                   *)
BufferReplays ==
  ReadAll = [i \in DOMAIN Replay(Watched) |-> Byte(Replay(Watched)[i])]
===============================================================================
