----------------------------- MODULE OutputLimit -----------------------------
(***************************************************************************)
(* The text one execution accumulates (the `output` string of Execute and  *)
(* the column it ends in), and how streamOutput adds a line to it.  A line *)
(* is known by the pipe it came from, its number on that pipe and its size *)
(* in bytes, newline included; the characters are left out.                *)
(***************************************************************************)
EXTENDS Integers, Sequences

CONSTANTS MaxOutput,  \* cfg.Execution.MaxOutputSize, in bytes
          MarkerSize  \* bytes of "... [OUTPUT TRUNCATED - ...]"

ASSUME OutputAssumption == /\ MaxOutput \in Nat \ {0}
                           /\ MarkerSize \in Nat \ {0}

Streams == {"stdout", "stderr"}

Line == [from : Streams, n : Nat, size : Nat]

\* lines: the lines kept whole; cut: a partial line and the marker follow them
Output == [lines : Seq(Line), size : Nat, cut : BOOLEAN]

EmptyOutput == [lines |-> <<>>, size |-> 0, cut |-> FALSE]

\* Mutant of AddLine: a line that does not fit is skipped and later, shorter
\* lines are still kept.
MutSkipLongLine(o, line) ==
    IF o.size + line.size > MaxOutput
    THEN [o EXCEPT !.cut = TRUE]
    ELSE [o EXCEPT !.lines = Append(@, line), !.size = @ + line.size]

\* Mutant of AddLine: the test of the limit is made on the old length only, so
\* the line that crosses the limit is kept whole.
MutNoTruncation(o, line) ==
    IF o.size < MaxOutput
    THEN [o EXCEPT !.lines = Append(@, line), !.size = @ + line.size]
    ELSE o

\* The body of streamOutput's critical section.
AddLine(o, line) ==
    IF o.size >= MaxOutput
    THEN o
    ELSE IF o.size + line.size > MaxOutput
         THEN [o EXCEPT !.size = MaxOutput + MarkerSize, !.cut = TRUE]
         ELSE [o EXCEPT !.lines = Append(@, line), !.size = @ + line.size]

==============================================================================
