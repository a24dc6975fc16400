----------------------------- MODULE TailBuffer -----------------------------
(***************************************************************************)
(* HW2/hw2_tail.c: finds the last line_num lines of a file by reading       *)
(* chunks of BUF_SIZE bytes backwards from its end and counting newlines,   *)
(* then prints from there.  Of a byte only "newline or not" matters; bytes  *)
(* of the file and of the buffer are numbered from 0, as in the code.       *)
(***************************************************************************)
EXTENDS Integers, FiniteSets, FiniteSetsExt

CONSTANTS BUF_SIZE,
          MaxSize,    \* bound: largest file
          MaxLines    \* bound: largest argument of -n

ASSUME TailAssumption ==
    /\ BUF_SIZE \in Nat \ {0} /\ MaxSize \in Nat /\ MaxLines \in Nat

VARIABLES file, file_size,   \* which bytes are newlines
          lines,             \* argument of -n
          pos, seek_size,    \* file position, size of the step back
          line_count, offset,
          step, start,       \* next step; first byte printed
          skipped, overlap   \* history: a newline at buffer[0] was passed over;
                             \* a chunk reached into the one read before it

input == <<file, file_size, lines>>
search == <<pos, seek_size, line_count, offset>>
tailVars == <<file, file_size, lines, pos, seek_size, line_count, offset, step, start,
          skipped, overlap>>

Smaller(m, n) == IF m < n THEN m ELSE n
line_num == lines + 1

\* An offset that lies before the beginning of the file, whatever its value.
TooFar == MaxSize + 1

TailInit ==
    /\ file_size \in 0..MaxSize
    /\ file \in [0..(file_size - 1) -> {"newline", "other"}]
    /\ lines \in 0..MaxLines
    /\ seek_size = Smaller(BUF_SIZE, file_size)
    /\ pos = file_size - Smaller(BUF_SIZE, file_size)
    /\ line_count = 0 /\ offset = 0 /\ step = "read" /\ start = 0
    /\ skipped = FALSE /\ overlap = FALSE
-----------------------------------------------------------------------------
read_size == Smaller(BUF_SIZE, file_size - pos)

\* for(i = read_size - 1; i > 0; i--): the indices where line_count goes up.
Newlines == {i \in 1..(read_size - 1) : file[pos + i] = "newline"}

Wanted == line_num - line_count

\* Mutant of FoundLine: "offset -= 1" is missing.
FoundLineKeepsNewline ==
    /\ step = "read" /\ Cardinality(Newlines) >= Wanted
    /\ \E i \in Newlines :
         /\ Cardinality({j \in Newlines : j >= i}) = Wanted
         /\ offset' = Smaller(offset + read_size - i, TooFar)
    /\ step' = "print"
    /\ UNCHANGED <<input, pos, seek_size, line_count, start, skipped, overlap>>

\* The newline before the last lines is in this chunk.
FoundLine ==
    /\ step = "read" /\ Cardinality(Newlines) >= Wanted
    /\ \E i \in Newlines :
         /\ Cardinality({j \in Newlines : j >= i}) = Wanted
         /\ offset' = Smaller(offset + read_size - i - 1, TooFar)
    /\ step' = "print"
    /\ UNCHANGED <<input, pos, seek_size, line_count, start, skipped, overlap>>

\* A short read: the whole file.
WholeFile ==
    /\ step = "read" /\ Cardinality(Newlines) < Wanted /\ read_size < BUF_SIZE
    /\ offset' = file_size
    /\ step' = "print" /\ skipped' = (skipped \/ (read_size > 0 /\ file[pos] = "newline"))
    /\ UNCHANGED <<input, pos, seek_size, line_count, start, overlap>>

\* Back over the chunk just read, and over the one to be read next.
PreviousChunk ==
    /\ step = "read" /\ Cardinality(Newlines) < Wanted /\ read_size = BUF_SIZE
    /\ line_count' = line_count + Cardinality(Newlines)
    /\ offset' = Smaller(offset + seek_size, TooFar)
    /\ LET cur == pos + read_size - seek_size IN
         /\ seek_size' = Smaller(BUF_SIZE, cur)
         /\ pos' = cur - seek_size'
    /\ skipped' = (skipped \/ file[pos] = "newline")
    /\ overlap' = (overlap \/ seek_size' < BUF_SIZE)
    /\ UNCHANGED <<input, step, start>>

\* lseek to offset bytes before the end; EINVAL before the beginning.
PrintTail ==
    /\ step = "print"
    /\ IF offset =< file_size THEN start' = file_size - offset /\ step' = "done"
                              ELSE start' = start /\ step' = "error"
    /\ UNCHANGED <<input, search, skipped, overlap>>

TailNext == FoundLine \/ WholeFile \/ PreviousChunk \/ PrintTail
TailSpec == TailInit /\ [][TailNext]_tailVars
-----------------------------------------------------------------------------
(* Properties *)

\* Every variable keeps its type, and a chunk is read from inside the file.
TailTypeOK ==
    /\ file_size \in 0..MaxSize /\ lines \in 0..MaxLines
    /\ file \in [0..(file_size - 1) -> {"newline", "other"}]
    /\ pos \in 0..file_size /\ seek_size \in 0..Smaller(BUF_SIZE, file_size)
    /\ line_count \in 0..lines /\ offset \in 0..TooFar
    /\ step \in {"read", "print", "done", "error"} /\ start \in 0..file_size
    /\ skipped \in BOOLEAN /\ overlap \in BOOLEAN

AllNewlines == {i \in 0..(file_size - 1) : file[i] = "newline"}

\* Where the last lines of a file that ends with a newline begin.
LastLines ==
    IF Cardinality(AllNewlines) =< lines THEN 0
    ELSE 1 + CHOOSE i \in AllNewlines : Cardinality({j \in AllNewlines : j > i}) = lines

EndsWithNewline == file_size > 0 => file[file_size - 1] = "newline"

\* The code finds the last lines of a file over any number of chunks, as long
\* as no newline is the first byte of a chunk (the loop at hw2_tail.c 66 stops
\* before index 0) and no chunk reaches into the next (line 89 steps back less
\* than line 64 reads).
\* (Stated together with the types.)
RightWithoutOverlap ==
    /\ TailTypeOK
    /\ step \in {"done", "error"} /\ EndsWithNewline /\ ~skipped /\ ~overlap =>
           step = "done" /\ start = LastLines
=============================================================================
