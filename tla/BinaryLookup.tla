---------------------------- MODULE BinaryLookup ----------------------------
(***************************************************************************)
(* HW11/part1/lookup5.c (the same file in part2 and part3): binary search   *)
(* of a word in a table of records in dictionary order.  Words are natural  *)
(* numbers, compared as strcmp compares them.  The window is start..end-1;  *)
(* a comparison that goes up keeps mid in the window, so the search of an   *)
(* absent word is ended only by the limit on cnt.                           *)
(***************************************************************************)
EXTENDS Integers

CONSTANTS Words,    \* words of the table and words sought
          MaxRec,   \* bound: largest number of records
          Limit     \* iterations after which the search gives up

ASSUME LookupAssumption ==
    /\ Words \subseteq Nat /\ MaxRec \in Nat /\ Limit \in Nat \ {0}

VARIABLES numrec, table,     \* the mapped file
          sought,            \* the word
          start, end, cnt,   \* the search
          found,             \* index of the record found, or None
          done

lookupVars == <<numrec, table, sought, start, end, cnt, found, done>>

None == -1
Records == 0..(numrec - 1)
InOrder == \A i, j \in Records : i =< j => table[i] =< table[j]

\* The file holds whole records "already in dictionary order" (lookup5.c 4).  It is
\* mapped by the first call and kept (first_time).
LookupInit ==
    /\ numrec \in 0..MaxRec
    /\ table \in [Records -> Words] /\ InOrder
    /\ sought \in Words
    /\ start = 0 /\ end = numrec /\ cnt = 0
    /\ found = None /\ done = FALSE

\* lookup() is called: every call starts with the whole table.
Begin(word) ==
    /\ sought' = word
    /\ start' = 0 /\ end' = numrec /\ cnt' = 0
    /\ found' = None /\ done' = FALSE
    /\ UNCHANGED <<numrec, table>>

\* "while(start != end)" ends: the window is empty.
Exhausted ==
    /\ ~done /\ start = end
    /\ done' = TRUE
    /\ UNCHANGED <<numrec, table, sought, start, end, cnt, found>>

\* Mutant of Mid: a quarter in place of the half.
MidQuarter == (end - start) \div 4 + start

Mid == (end - start) \div 2 + start

Hit ==
    /\ ~done /\ start # end
    /\ table[Mid] = sought
    /\ found' = Mid /\ done' = TRUE
    /\ UNCHANGED <<numrec, table, sought, start, end, cnt>>

\* Mutant of Narrow: start = mid + 1 and end = mid - 1, as for a closed window.
NarrowClosed ==
    /\ ~done /\ start # end
    /\ table[Mid] # sought
    /\ start' = IF table[Mid] < sought THEN Mid + 1 ELSE start
    /\ end' = IF table[Mid] > sought THEN Mid - 1 ELSE end
    /\ cnt' = cnt + 1
    /\ done' = (cnt' = Limit \/ start' >= end')
    /\ UNCHANGED <<numrec, table, sought, found>>

\* Mutant of Narrow: cnt and its limit are missing.
NarrowUnlimited ==
    /\ ~done /\ start # end
    /\ table[Mid] # sought
    /\ start' = IF table[Mid] < sought THEN Mid ELSE start
    /\ end' = IF table[Mid] > sought THEN Mid ELSE end
    /\ UNCHANGED <<numrec, table, sought, cnt, found, done>>

Narrow ==
    /\ ~done /\ start # end
    /\ table[Mid] # sought
    /\ start' = IF table[Mid] < sought THEN Mid ELSE start
    /\ end' = IF table[Mid] > sought THEN Mid ELSE end
    /\ cnt' = cnt + 1
    /\ done' = (cnt' = Limit)
    /\ UNCHANGED <<numrec, table, sought, found>>

SearchStep == Exhausted \/ Hit \/ Narrow
LookupNext == SearchStep \/ \E word \in Words : Begin(word)
LookupSpec == LookupInit /\ [][LookupNext]_lookupVars
-----------------------------------------------------------------------------
(* Properties *)

\* Every variable keeps its type, and mid is an index of the table whenever the
\* table is looked at.
LookupTypeOK ==
    /\ numrec \in 0..MaxRec /\ table \in [Records -> Words] /\ sought \in Words
    /\ start \in Nat /\ end \in 0..numrec /\ start =< end
    /\ cnt \in 0..Limit /\ found \in Records \union {None} /\ done \in BOOLEAN
    /\ start # end => Mid \in start..(end - 1)

Present == \E i \in Records : table[i] = sought

\* The search never narrows the word away: as long as it has not been found,
\* every record that holds it is inside the window.
WindowHolds ==
    found = None => \A i \in Records : table[i] = sought => i \in start..(end - 1)

\* An answer is never wrong: what is found is the word, and a word reported as
\* absent (lookup5.c 77) is absent unless the limit cut the search short.
NeverWrong ==
    /\ found # None => table[found] = sought
    /\ done /\ found = None /\ Present => cnt = Limit

\* What the limit is enough for.
EnoughLimit == numrec =< 2 ^ (Limit - 1)
=============================================================================
