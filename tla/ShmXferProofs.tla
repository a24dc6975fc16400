--------------------------- MODULE ShmXferProofs ---------------------------
(***************************************************************************)
(* Proofs about ShmXfer for any readers, data, buffer size, number of runs  *)
(* and number of blocks.  All results come from one inductive invariant,    *)
(* IInv, whose heart is Tokens: from InitSemInUse to RemoveSem there is at  *)
(* most one token, in WRITE_SEM, in READ_SEM, with the writer or with a     *)
(* reader.  A kill leaves it where it is, which the next run's InitSemInUse *)
(* finds harmless or records as overlap; from then on IInv promises no more *)
(* than types and which object is mapped.                                   *)
(***************************************************************************)
EXTENDS ShmXfer, TLAPS, FiniteSetTheorems, WellFoundedInduction

NoneHolding == \A r \in Readers : ~Holding(r)

\* A reader may come to look at the object, or does.
Live == sem.READ_SEM > 0 \/ ~NoneHolding

Transfer == {"reserve", "test", "drain"}

\* The writer has the token, or there has been none yet, or it is gone for good.
ReadersOut ==
    \/ wpc \in {"shm_open", "ftruncate", "mmap", "read", "release", "rmid",
                "shm_unlink", "done"}
    \/ ~crashed /\ wpc \in {"off", "failed", "initSemAvailable", "initSemInUse"}

Tokens ==
    /\ sem.READ_SEM =< 1
    /\ sem.READ_SEM = 1 => NoneHolding
    /\ \A r, s \in Readers : Holding(r) /\ Holding(s) => r = s
    /\ \A r \in Readers : Holding(r) => rsem[r] = sem.id
    /\ ReadersOut => ~Live
    /\ wpc \in {"shm_open", "ftruncate", "mmap"} \union Transfer => sem.WRITE_SEM =< 1
    /\ wpc = "initSemInUse" /\ ~crashed => sem.WRITE_SEM =< 1
    /\ wpc \in Transfer /\ sem.WRITE_SEM = 1 => ~Live
    /\ wpc \in {"read", "release", "rmid"} => sem.WRITE_SEM = 0

\* Readers attached to the current set have mapped the current object.
Attached(r) == rpc[r] = "reserve" \/ Holding(r)

Attachments ==
    /\ sem.id =< run
    /\ wpc \notin Idle \union {"shm_unlink"} => sem.id # 0
    /\ wpc = "shm_unlink" => sem.id = 0
    /\ wpc \in {"ftruncate", "mmap", "reserve", "read", "release", "test",
                "drain", "rmid", "shm_unlink"} => wobj = shmName /\ wobj # 0
    /\ wpc \in {"mmap", "reserve", "read", "release", "test", "drain", "rmid"}
         => mem[wobj].sized
    /\ wpc \notin Idle => run # 0
    /\ \A r \in Readers :
         /\ rsem[r] =< run
         /\ rpc[r] = "shm_open" => rsem[r] # 0
         /\ Attached(r) => rsem[r] # 0 /\ robj[r] # 0
         /\ Attached(r) /\ rsem[r] = sem.id => robj[r] = shmName

\* What a reader finds in the object.
Contents ==
    /\ wpc = "release" => mem[wobj].cnt # -1
    /\ Live => /\ wobj = shmName /\ wobj # 0
               /\ mem[wobj].sized /\ mem[wobj].cnt # -1
    /\ \A r \in Readers :
         /\ rpc[r] = "write" => mem[wobj].cnt # 0
         /\ rpc[r] = "finish" => mem[wobj].cnt = 0

\* Where a block that has been read and not written is, and where there is none.
NothingUnderWay ==
    \/ ReadersOut /\ wpc # "release"
    \/ wpc \in Transfer /\ sem.WRITE_SEM = 1
    \/ \E r \in Readers : rpc[r] \in {"release", "finish"}

BlockInObject ==
    \/ wpc = "release" \/ sem.READ_SEM > 0
    \/ \E r \in Readers : rpc[r] \in {"test", "write"}

Order ==
    /\ wpc \notin Idle \union {"initSemAvailable", "initSemInUse"} => ~crashed
    /\ wpc = "killed" => crashed
    /\ sent = drained \/ sent = Append(drained, BlockIn(wobj))
    /\ NothingUnderWay => sent = drained
    /\ BlockInObject =>
         sent = IF mem[wobj].cnt # 0 THEN Append(drained, BlockIn(wobj)) ELSE drained

IInv == TypeOK /\ Attachments /\ (~overlap => Tokens /\ Contents /\ Order)
-----------------------------------------------------------------------------
\* A reader between reserveSem and releaseSem is the only one, the token is with
\* it, and it looks at the object the writer fills.
LEMMA HolderFacts ==
    ASSUME IInv, ~overlap, NEW r \in Readers, Holding(r)
    PROVE  /\ sem.READ_SEM = 0 /\ ~ReadersOut
           /\ wpc \in Transfer => sem.WRITE_SEM = 0
           /\ \A s \in Readers : Holding(s) => s = r
           /\ sem.id = rsem[r]
           /\ robj[r] = wobj /\ wobj \in Objects
           /\ mem[wobj].sized /\ mem[wobj].cnt # -1
<1>1. Live /\ Tokens /\ Contents /\ sem.READ_SEM \in Nat /\ sem.WRITE_SEM \in Nat
  BY DEF IInv, Live, NoneHolding, TypeOK, SemSet
<1>2. /\ sem.READ_SEM = 0 /\ ~ReadersOut /\ sem.id = rsem[r]
      /\ wpc \in Transfer => sem.WRITE_SEM = 0
      /\ \A s \in Readers : Holding(s) => s = r
  BY <1>1 DEF Tokens, NoneHolding
<1>3. robj[r] = shmName /\ wobj = shmName /\ wobj # 0 /\ mem[wobj].sized /\ mem[wobj].cnt # -1
  BY <1>1, <1>2 DEF IInv, Attachments, Attached, Contents
<1>4. wobj \in Objects
  BY <1>3 DEF IInv, TypeOK, Objects
<1> QED
  BY <1>2, <1>3, <1>4

\* Updating one field keeps the type of a record.
LEMMA SemSetUpdate ==
    ASSUME NEW s \in SemSet, NEW n \in Nat
    PROVE  [s EXCEPT !.WRITE_SEM = n] \in SemSet /\ [s EXCEPT !.READ_SEM = n] \in SemSet
  BY DEF SemSet

\* releaseSem (semop + 1) keeps the type of the set.
LEMMA PostType ==
    ASSUME sem \in SemSet, NEW id
    PROVE  Post(id) \in SemSet
<1>1. sem.WRITE_SEM + 1 \in Nat
  BY DEF SemSet
<1> QED
  BY <1>1, SemSetUpdate DEF Post

\* A change of one object keeps the type of all objects.
LEMMA SegmentUpdate ==
    ASSUME NEW o \in Objects, NEW m \in [Objects -> Segment], NEW c \in -1..BUF_SIZE
    PROVE  [m EXCEPT ![o].cnt = c] \in [Objects -> Segment]
  BY DEF Segment

\* So does a change of its contents.
LEMMA BlockUpdate ==
    ASSUME NEW o \in Objects, NEW m \in [Objects -> Segment], NEW b \in Block
    PROVE  [m EXCEPT ![o].cnt = b.cnt, ![o].buf = b.buf] \in [Objects -> Segment]
<1>1. b.cnt \in -1..BUF_SIZE /\ b.buf \in Data \union {NoData}
  BY ConstAssumption DEF Block
<1> QED
  BY <1>1 DEF Segment

\* bytes += cnt keeps the type of the counters.
LEMMA BytesUpdate ==
    ASSUME NEW f \in [Readers -> Counter], NEW r \in Readers, NEW i \in Int
    PROVE  [f EXCEPT ![r].bytes = i] \in [Readers -> Counter]
  BY DEF Counter

\* xfrs++ keeps the type of the counters.
LEMMA XfrsUpdate ==
    ASSUME NEW f \in [Readers -> Counter], NEW r \in Readers, NEW n \in Nat
    PROVE  [f EXCEPT ![r].xfrs = n] \in [Readers -> Counter]
  BY DEF Counter

\* Once overlap, always overlap.
LEMMA OverlapKept == [Next]_vars => (overlap => overlap')
<1> SUFFICES ASSUME [Next]_vars PROVE (overlap => overlap')
  OBVIOUS
<1> USE DEF semVars, shmVars, writerVars, readerVars, history, faults
<1>1. CASE SemGet
  BY <1>1 DEF SemGet
<1>2. CASE InitSemAvailable
  BY <1>2 DEF InitSemAvailable
<1>3. CASE InitSemInUse
  BY <1>3 DEF InitSemInUse
<1>4. CASE ShmOpen
  BY <1>4 DEF ShmOpen
<1>5. CASE Ftruncate
  BY <1>5 DEF Ftruncate
<1>6. CASE Mmap
  BY <1>6 DEF Mmap
<1>7. CASE WReserve
  BY <1>7 DEF WReserve
<1>8. CASE ReadBlock
  BY <1>8 DEF ReadBlock
<1>9. CASE ReadEof
  BY <1>9 DEF ReadEof
<1>10. CASE ReadError
  BY <1>10 DEF ReadError
<1>11. CASE WRelease
  BY <1>11 DEF WRelease
<1>12. CASE WTest
  BY <1>12 DEF WTest
<1>13. CASE RemoveSem
  BY <1>13 DEF RemoveSem
<1>14. CASE ShmUnlink
  BY <1>14 DEF ShmUnlink
<1>15. CASE WriterFails
  BY <1>15 DEF WriterFails
<1>16. CASE WKilled
  BY <1>16 DEF WKilled
<1>17. CASE UNCHANGED vars
  BY <1>17 DEF vars
<1>18. ASSUME NEW r \in Readers, RSemGet(r) PROVE (overlap => overlap')
  BY <1>18 DEF RSemGet
<1>19. ASSUME NEW r \in Readers, RShmOpen(r) PROVE (overlap => overlap')
  BY <1>19 DEF RShmOpen
<1>20. ASSUME NEW r \in Readers, RReserve(r) PROVE (overlap => overlap')
  BY <1>20 DEF RReserve
<1>21. ASSUME NEW r \in Readers, RSetGone(r) PROVE (overlap => overlap')
  BY <1>21 DEF RSetGone
<1>22. ASSUME NEW r \in Readers, RTest(r) PROVE (overlap => overlap')
  BY <1>22 DEF RTest
<1>23. ASSUME NEW r \in Readers, RWrite(r) PROVE (overlap => overlap')
  BY <1>23 DEF RWrite
<1>24. ASSUME NEW r \in Readers, RRelease(r) PROVE (overlap => overlap')
  BY <1>24 DEF RRelease
<1>25. ASSUME NEW r \in Readers, RFinish(r) PROVE (overlap => overlap')
  BY <1>25 DEF RFinish
<1>26. ASSUME NEW r \in Readers, RDies(r) PROVE (overlap => overlap')
  BY <1>26 DEF RDies
<1>27. ASSUME NEW r \in Readers, RKilled(r) PROVE (overlap => overlap')
  BY <1>27 DEF RKilled
<1> QED
  BY <1>1, <1>2, <1>3, <1>4, <1>5, <1>6, <1>7, <1>8, <1>9, <1>10, <1>11, <1>12, <1>13,
     <1>14, <1>15, <1>16, <1>17, <1>18, <1>19, <1>20, <1>21, <1>22, <1>23, <1>24, <1>25, <1>26,
     <1>27
  DEF Next, WriterStep, ReaderStep
\* At most one token: no step of the writer or of a reader makes a second one.
LEMMA TokensStep == IInv /\ [Next]_vars /\ ~overlap' => Tokens'
<1> SUFFICES ASSUME IInv, [Next]_vars, ~overlap' PROVE Tokens'
  OBVIOUS
<1>0. TypeOK /\ Attachments /\ Tokens /\ Contents /\ Order
  BY OverlapKept DEF IInv
<1>t. /\ sem.READ_SEM \in Nat /\ sem.WRITE_SEM \in Nat
      /\ rpc \in [Readers -> ReaderPC] /\ wpc \in WriterPC
  BY <1>0 DEF TypeOK, SemSet
<1>h. \A r \in Readers : Holding(r) =>
        /\ sem.READ_SEM = 0 /\ ~ReadersOut /\ (wpc \in Transfer => sem.WRITE_SEM = 0)
        /\ sem.id = rsem[r] /\ \A s \in Readers : Holding(s) => s = r
  BY HolderFacts, OverlapKept
<1> USE DEF Tokens, ReadersOut, Transfer, Live, NoneHolding, Holding, Idle,
        semVars, shmVars, writerVars, readerVars, history, faults
<1>1. CASE SemGet
  <2>1. /\ wpc \in Idle /\ wpc' = "initSemAvailable" /\ UNCHANGED <<rpc, rsem, crashed, overlap>>
    BY <1>1 DEF SemGet
  <2>2. CASE sem.id = 0
    <3>1. NoneHolding
      BY <1>0, <2>2 DEF Attachments, Attached
    <3>2. sem'.READ_SEM = 0
      BY <1>1, <2>2 DEF SemGet
    <3> QED
      BY <1>0, <2>1, <3>1, <3>2
  <2>3. CASE sem.id # 0
    <3>1. sem' = sem
      BY <1>1, <2>3 DEF SemGet
    <3>2. ~crashed => ReadersOut
      BY <1>0, <2>1 DEF Order
    <3> QED
      BY <1>0, <1>t, <2>1, <3>1, <3>2
  <2> QED
    BY <2>2, <2>3
<1>2. CASE InitSemAvailable
  BY <1>0, <1>2, <1>t DEF InitSemAvailable
<1>3. CASE InitSemInUse
  <2>1. /\ wpc = "initSemInUse" /\ wpc' = "shm_open" /\ UNCHANGED <<rpc, rsem>>
        /\ crashed => ~OldToken
    BY <1>3 DEF InitSemInUse
  <2>2. sem'.READ_SEM = 0 /\ sem'.WRITE_SEM = sem.WRITE_SEM /\ sem'.id = sem.id
    BY <1>0, <1>3 DEF InitSemInUse, TypeOK, SemSet
  <2>3. sem.WRITE_SEM =< 1 /\ NoneHolding
    <3>1. CASE crashed
      BY <1>t, <2>1, <3>1 DEF OldToken
    <3>2. CASE ~crashed
      BY <1>0, <2>1, <3>2
    <3> QED
      BY <3>1, <3>2
  <2> QED
    BY <1>0, <1>t, <2>1, <2>2, <2>3
<1>4. CASE ShmOpen
  BY <1>0, <1>4, <1>t DEF ShmOpen
<1>5. CASE Ftruncate
  BY <1>0, <1>5, <1>t DEF Ftruncate
<1>6. CASE Mmap
  BY <1>0, <1>6, <1>t DEF Mmap
<1>7. CASE WReserve
  BY <1>0, <1>7, <1>t DEF WReserve
<1>8. CASE ReadBlock
  BY <1>0, <1>8, <1>t DEF ReadBlock
<1>9. CASE ReadEof
  BY <1>0, <1>9, <1>t DEF ReadEof
<1>10. CASE ReadError
  BY <1>0, <1>10, <1>t DEF ReadError
<1>11. CASE WRelease
  BY <1>0, <1>11, <1>t DEF WRelease
<1>12. CASE WTest
  BY <1>0, <1>12, <1>t DEF WTest
<1>13. CASE RemoveSem
  BY <1>0, <1>13, <1>t DEF RemoveSem
<1>14. CASE ShmUnlink
  BY <1>0, <1>14, <1>t DEF ShmUnlink
<1>15. CASE WriterFails
  BY <1>0, <1>15, <1>t DEF WriterFails
<1>16. CASE WKilled
  BY <1>0, <1>16, <1>t DEF WKilled
<1>17. CASE UNCHANGED vars
  BY <1>0, <1>17 DEF vars
<1>18. ASSUME NEW r \in Readers, RSemGet(r) PROVE Tokens'
  BY <1>0, <1>18, <1>t DEF RSemGet
<1>19. ASSUME NEW r \in Readers, RShmOpen(r) PROVE Tokens'
  BY <1>0, <1>19, <1>t DEF RShmOpen
<1>20. ASSUME NEW r \in Readers, RReserve(r) PROVE Tokens'
  BY <1>0, <1>20, <1>t DEF RReserve
<1>21. ASSUME NEW r \in Readers, RSetGone(r) PROVE Tokens'
  BY <1>0, <1>21, <1>t DEF RSetGone
<1>22. ASSUME NEW r \in Readers, RTest(r) PROVE Tokens'
  BY <1>0, <1>22, <1>t DEF RTest
<1>23. ASSUME NEW r \in Readers, RWrite(r) PROVE Tokens'
  BY <1>0, <1>23, <1>t DEF RWrite
<1>24. ASSUME NEW r \in Readers, RRelease(r) PROVE Tokens'
  <2>1. /\ Holding(r) /\ sem.id = rsem[r] /\ sem.READ_SEM = 0 /\ ~ReadersOut
        /\ wpc \in Transfer => sem.WRITE_SEM = 0
        /\ \A s \in Readers : Holding(s) => s = r
    BY <1>h, <1>24 DEF RRelease
  <2>2. /\ UNCHANGED <<wpc, rsem, crashed, overlap>> /\ ~Holding(r)'
        /\ \A s \in Readers : s # r => Holding(s)' = Holding(s)
    BY <1>t, <1>24 DEF RRelease
  <2>3. sem' = [sem EXCEPT !.WRITE_SEM = @ + 1]
    BY <2>1, <1>24 DEF RRelease, Post
  <2>4. sem'.READ_SEM = 0 /\ sem'.id = sem.id /\ sem'.WRITE_SEM = sem.WRITE_SEM + 1
    BY <1>0, <2>1, <2>3 DEF TypeOK, SemSet
  <2>5. NoneHolding'
    BY <2>1, <2>2
  <2> QED
    BY <1>0, <1>t, <2>1, <2>2, <2>4, <2>5
<1>25. ASSUME NEW r \in Readers, RFinish(r) PROVE Tokens'
  <2>1. /\ Holding(r) /\ sem.id = rsem[r] /\ sem.READ_SEM = 0 /\ ~ReadersOut
        /\ wpc \in Transfer => sem.WRITE_SEM = 0
        /\ \A s \in Readers : Holding(s) => s = r
    BY <1>h, <1>25 DEF RFinish
  <2>2. /\ UNCHANGED <<wpc, rsem, crashed, overlap>> /\ ~Holding(r)'
        /\ \A s \in Readers : s # r => Holding(s)' = Holding(s)
    BY <1>t, <1>25 DEF RFinish
  <2>3. sem' = [sem EXCEPT !.WRITE_SEM = @ + 1]
    BY <2>1, <1>25 DEF RFinish, Post
  <2>4. sem'.READ_SEM = 0 /\ sem'.id = sem.id /\ sem'.WRITE_SEM = sem.WRITE_SEM + 1
    BY <1>0, <2>1, <2>3 DEF TypeOK, SemSet
  <2>5. NoneHolding'
    BY <2>1, <2>2
  <2> QED
    BY <1>0, <1>t, <2>1, <2>2, <2>4, <2>5
<1>26. ASSUME NEW r \in Readers, RDies(r) PROVE Tokens'
  BY <1>0, <1>26, <1>t DEF RDies
<1>27. ASSUME NEW r \in Readers, RKilled(r) PROVE Tokens'
  BY <1>0, <1>27, <1>t DEF RKilled
<1> QED
  BY <1>1, <1>2, <1>3, <1>4, <1>5, <1>6, <1>7, <1>8, <1>9, <1>10, <1>11, <1>12, <1>13,
     <1>14, <1>15, <1>16, <1>17, <1>18, <1>19, <1>20, <1>21, <1>22, <1>23, <1>24, <1>25, <1>26,
     <1>27
  DEF Next, WriterStep, ReaderStep
\* A reader attached to the current set stays attached to the current object.
LEMMA AttachmentsStep == IInv /\ [Next]_vars => Attachments'
<1> SUFFICES ASSUME IInv, [Next]_vars PROVE Attachments'
  OBVIOUS
<1>0. TypeOK /\ Attachments
  BY DEF IInv
<1>t. /\ sem \in SemSet /\ run \in 0..MaxRuns /\ mem \in [Objects -> Segment] /\ wobj \in 0..MaxRuns
      /\ shmName \in 0..MaxRuns /\ rpc \in [Readers -> ReaderPC] /\ wpc \in WriterPC
      /\ rsem \in [Readers -> 0..MaxRuns] /\ robj \in [Readers -> 0..MaxRuns]
  BY <1>0 DEF TypeOK
<1> USE ConstAssumption DEF Attachments, Attached, Holding, Idle,
        Objects, semVars, shmVars, writerVars, readerVars, history, faults
<1>1. CASE SemGet
  <2>1. /\ sem'.id =< run' /\ sem'.id # 0 /\ run' # 0 /\ wpc' = "initSemAvailable"
        /\ UNCHANGED <<shmVars, readerVars, wobj>> /\ run' = run + 1
    BY <1>0, <1>t, <1>1 DEF SemGet, SemSet
  <2>2. \A s \in Readers : rsem[s] =< run /\ rsem[s] \in Nat /\ run \in Nat
    BY <1>0, <1>t
  <2>3. \A s \in Readers : rsem[s] = sem'.id => rsem[s] = sem.id
    BY <2>2, <1>1 DEF SemGet
  <2>4. \A s \in Readers : rsem'[s] =< run'
    BY <2>1, <2>2
  <2> QED
    BY <1>0, <2>1, <2>3, <2>4
<1>2. CASE InitSemAvailable
  BY <1>0, <1>2, <1>t DEF InitSemAvailable
<1>3. CASE InitSemInUse
  BY <1>0, <1>3, <1>t DEF InitSemInUse
<1>4. CASE ShmOpen
  BY <1>0, <1>4, <1>t DEF ShmOpen
<1>5. CASE Ftruncate
  BY <1>0, <1>5, <1>t DEF Ftruncate
<1>6. CASE Mmap
  BY <1>0, <1>6, <1>t DEF Mmap
<1>7. CASE WReserve
  BY <1>0, <1>7, <1>t DEF WReserve
<1>8. CASE ReadBlock
  BY <1>0, <1>8, <1>t DEF ReadBlock
<1>9. CASE ReadEof
  BY <1>0, <1>9, <1>t DEF ReadEof
<1>10. CASE ReadError
  BY <1>0, <1>10, <1>t DEF ReadError
<1>11. CASE WRelease
  BY <1>0, <1>11, <1>t DEF WRelease
<1>12. CASE WTest
  BY <1>0, <1>12, <1>t DEF WTest
<1>13. CASE RemoveSem
  BY <1>0, <1>13, <1>t DEF RemoveSem
<1>14. CASE ShmUnlink
  BY <1>0, <1>14, <1>t DEF ShmUnlink
<1>15. CASE WriterFails
  BY <1>0, <1>15, <1>t DEF WriterFails
<1>16. CASE WKilled
  BY <1>0, <1>16, <1>t DEF WKilled
<1>17. CASE UNCHANGED vars
  BY <1>0, <1>17 DEF vars
<1>18. ASSUME NEW r \in Readers, RSemGet(r) PROVE Attachments'
  BY <1>0, <1>18, <1>t DEF RSemGet
<1>19. ASSUME NEW r \in Readers, RShmOpen(r) PROVE Attachments'
  BY <1>0, <1>19, <1>t DEF RShmOpen
<1>20. ASSUME NEW r \in Readers, RReserve(r) PROVE Attachments'
  BY <1>0, <1>20, <1>t DEF RReserve
<1>21. ASSUME NEW r \in Readers, RSetGone(r) PROVE Attachments'
  BY <1>0, <1>21, <1>t DEF RSetGone
<1>22. ASSUME NEW r \in Readers, RTest(r) PROVE Attachments'
  BY <1>0, <1>22, <1>t DEF RTest
<1>23. ASSUME NEW r \in Readers, RWrite(r) PROVE Attachments'
  BY <1>0, <1>23, <1>t DEF RWrite
<1>24. ASSUME NEW r \in Readers, RRelease(r) PROVE Attachments'
  <2>1. sem'.id = sem.id /\ UNCHANGED <<shmVars, writerVars, rsem, robj>>
    BY <1>t, <1>24 DEF RRelease, Post, SemSet
  <2>2. rpc' = [rpc EXCEPT ![r] = "reserve"] \/ rpc' = [rpc EXCEPT ![r] = "failed"]
    BY <1>24 DEF RRelease
  <2>3. \A s \in Readers :
          (Attached(s)' => Attached(s)) /\ (rpc'[s] = "shm_open" => rpc[s] = "shm_open")
    BY <1>t, <2>2, <1>24 DEF RRelease
  <2>4. ASSUME NEW s \in Readers, Attached(s)'
        PROVE  rsem[s] # 0 /\ robj[s] # 0 /\ (rsem[s] = sem.id => robj[s] = shmName)
    <3>1. Attached(s)
      BY <2>3, <2>4
    <3> HIDE DEF Attached
    <3> QED
      BY <1>0, <3>1
  <2> HIDE DEF Attached
  <2> QED
    BY <1>0, <1>t, <2>1, <2>3, <2>4
<1>25. ASSUME NEW r \in Readers, RFinish(r) PROVE Attachments'
  <2>1. sem'.id = sem.id /\ UNCHANGED <<shmVars, writerVars, rsem, robj>>
    BY <1>t, <1>25 DEF RFinish, Post, SemSet
  <2>2. rpc' = [rpc EXCEPT ![r] = "done"] \/ rpc' = [rpc EXCEPT ![r] = "failed"]
    BY <1>25 DEF RFinish
  <2>3. \A s \in Readers :
          (Attached(s)' => Attached(s)) /\ (rpc'[s] = "shm_open" => rpc[s] = "shm_open")
    BY <1>t, <2>2, <1>25 DEF RFinish
  <2>4. ASSUME NEW s \in Readers, Attached(s)'
        PROVE  rsem[s] # 0 /\ robj[s] # 0 /\ (rsem[s] = sem.id => robj[s] = shmName)
    <3>1. Attached(s)
      BY <2>3, <2>4
    <3> HIDE DEF Attached
    <3> QED
      BY <1>0, <3>1
  <2> HIDE DEF Attached
  <2> QED
    BY <1>0, <1>t, <2>1, <2>3, <2>4
<1>26. ASSUME NEW r \in Readers, RDies(r) PROVE Attachments'
  BY <1>0, <1>26, <1>t DEF RDies
<1>27. ASSUME NEW r \in Readers, RKilled(r) PROVE Attachments'
  BY <1>0, <1>27, <1>t DEF RKilled
<1> QED
  BY <1>1, <1>2, <1>3, <1>4, <1>5, <1>6, <1>7, <1>8, <1>9, <1>10, <1>11, <1>12, <1>13,
     <1>14, <1>15, <1>16, <1>17, <1>18, <1>19, <1>20, <1>21, <1>22, <1>23, <1>24, <1>25, <1>26,
     <1>27
  DEF Next, WriterStep, ReaderStep
\* What a reader can find in the object changes only while no reader can look.
LEMMA ContentsStep == IInv /\ [Next]_vars /\ ~overlap' => Contents'
<1> SUFFICES ASSUME IInv, [Next]_vars, ~overlap' PROVE Contents'
  OBVIOUS
<1>0. TypeOK /\ Attachments /\ Tokens /\ Contents /\ Order
  BY OverlapKept DEF IInv
<1>t. /\ sem \in SemSet /\ sem.READ_SEM \in Nat /\ mem \in [Objects -> Segment] /\ wobj \in 0..MaxRuns
      /\ rpc \in [Readers -> ReaderPC] /\ wpc \in WriterPC /\ robj \in [Readers -> 0..MaxRuns]
  BY <1>0 DEF TypeOK, SemSet
<1>out. ReadersOut => ~Live
  BY <1>0 DEF Tokens
<1>h. \A r \in Readers : Holding(r) =>
        /\ robj[r] = wobj /\ wobj \in Objects /\ \A s \in Readers : Holding(s) => s = r
        /\ sem.READ_SEM = 0 /\ mem[wobj].cnt # -1 /\ ~ReadersOut
        /\ wpc \in Transfer => sem.WRITE_SEM = 0
  BY HolderFacts, OverlapKept
<1> USE ConstAssumption DEF Contents, ReadersOut, Transfer, Live, NoneHolding, Holding, Idle, Objects,
        semVars, shmVars, writerVars, readerVars, history, faults
<1>1. CASE SemGet
  BY <1>0, <1>1, <1>t, <1>out DEF SemGet
<1>2. CASE InitSemAvailable
  BY <1>0, <1>2, <1>t, <1>out DEF InitSemAvailable
<1>3. CASE InitSemInUse
  BY <1>0, <1>3, <1>t, <1>out DEF InitSemInUse
<1>4. CASE ShmOpen
  BY <1>0, <1>4, <1>t, <1>out DEF ShmOpen
<1>5. CASE Ftruncate
  BY <1>0, <1>5, <1>t, <1>out DEF Ftruncate
<1>6. CASE Mmap
  BY <1>0, <1>6, <1>t, <1>out DEF Mmap
<1>7. CASE WReserve
  BY <1>0, <1>7, <1>t, <1>out DEF WReserve
<1>8. CASE ReadBlock
  <2>1. PICK b \in Block : mem' = [mem EXCEPT ![wobj].cnt = b.cnt, ![wobj].buf = b.buf]
    BY <1>8 DEF ReadBlock
  <2>2. ~Live /\ wobj \in Objects /\ b.cnt # -1
    BY <1>0, <1>t, <1>out, <1>8 DEF ReadBlock, Attachments, Block
  <2>3. mem'[wobj].cnt = b.cnt
    BY <1>t, <2>1, <2>2 DEF Segment
  <2> QED
    BY <1>t, <1>8, <2>2, <2>3 DEF ReadBlock
<1>9. CASE ReadEof
  <2>1. ~Live /\ wobj \in Objects
    BY <1>0, <1>t, <1>out, <1>9 DEF ReadEof, Attachments
  <2>2. mem'[wobj].cnt = 0
    BY <1>t, <2>1, <1>9 DEF ReadEof, Segment
  <2> QED
    BY <1>t, <1>9, <2>1, <2>2 DEF ReadEof
<1>10. CASE ReadError
  BY <1>0, <1>10, <1>t, <1>out DEF ReadError
<1>11. CASE WRelease
  <2>1. NoneHolding /\ wobj = shmName /\ wobj # 0 /\ mem[wobj].sized /\ mem[wobj].cnt # -1
    BY <1>0, <1>out, <1>11 DEF WRelease, Attachments
  <2> QED
    BY <1>t, <1>11, <2>1 DEF WRelease
<1>12. CASE WTest
  BY <1>0, <1>12, <1>t, <1>out DEF WTest
<1>13. CASE RemoveSem
  BY <1>0, <1>13, <1>t, <1>out DEF RemoveSem
<1>14. CASE ShmUnlink
  BY <1>0, <1>14, <1>t, <1>out DEF ShmUnlink
<1>15. CASE WriterFails
  BY <1>0, <1>15, <1>t, <1>out DEF WriterFails
<1>16. CASE WKilled
  BY <1>0, <1>16, <1>t, <1>out DEF WKilled
<1>17. CASE UNCHANGED vars
  BY <1>0, <1>17 DEF vars
<1>18. ASSUME NEW r \in Readers, RSemGet(r) PROVE Contents'
  BY <1>0, <1>18, <1>t, <1>out DEF RSemGet
<1>19. ASSUME NEW r \in Readers, RShmOpen(r) PROVE Contents'
  BY <1>0, <1>19, <1>t, <1>out DEF RShmOpen
<1>20. ASSUME NEW r \in Readers, RReserve(r) PROVE Contents'
  BY <1>0, <1>20, <1>t, <1>out DEF RReserve
<1>21. ASSUME NEW r \in Readers, RSetGone(r) PROVE Contents'
  BY <1>0, <1>21, <1>t, <1>out DEF RSetGone
<1>22. ASSUME NEW r \in Readers, RTest(r) PROVE Contents'
  <2>1. robj[r] = wobj /\ UNCHANGED <<sem, mem, shmName, wobj, wpc>> /\ Live
    BY <1>h, <1>0, <1>22 DEF RTest
  <2>2. \/ mem[wobj].cnt = 0 /\ rpc' = [rpc EXCEPT ![r] = "finish"]
        \/ mem[wobj].cnt # 0 /\ rpc' = [rpc EXCEPT ![r] = "write"]
    BY <2>1, <1>22 DEF RTest
  <2> QED
    BY <1>0, <1>t, <2>1, <2>2
<1>23. ASSUME NEW r \in Readers, RWrite(r) PROVE Contents'
  BY <1>0, <1>23, <1>t, <1>out DEF RWrite
<1>24. ASSUME NEW r \in Readers, RRelease(r) PROVE Contents'
  BY <1>0, <1>24, <1>t, <1>out DEF RRelease
<1>25. ASSUME NEW r \in Readers, RFinish(r) PROVE Contents'
  BY <1>0, <1>25, <1>t, <1>out DEF RFinish
<1>26. ASSUME NEW r \in Readers, RDies(r) PROVE Contents'
  BY <1>0, <1>26, <1>t, <1>out DEF RDies
<1>27. ASSUME NEW r \in Readers, RKilled(r) PROVE Contents'
  BY <1>0, <1>27, <1>t, <1>out DEF RKilled
<1> QED
  BY <1>1, <1>2, <1>3, <1>4, <1>5, <1>6, <1>7, <1>8, <1>9, <1>10, <1>11, <1>12, <1>13,
     <1>14, <1>15, <1>16, <1>17, <1>18, <1>19, <1>20, <1>21, <1>22, <1>23, <1>24, <1>25, <1>26,
     <1>27
  DEF Next, WriterStep, ReaderStep
\* A block enters sent when the object is free, and drained when it leaves it.
LEMMA OrderStep == IInv /\ [Next]_vars /\ ~overlap' => Order'
<1> SUFFICES ASSUME IInv, [Next]_vars, ~overlap' PROVE Order'
  OBVIOUS
<1>0. TypeOK /\ Attachments /\ Tokens /\ Contents /\ Order
  BY OverlapKept DEF IInv
<1>t. /\ sem \in SemSet /\ sem.READ_SEM \in Nat /\ mem \in [Objects -> Segment] /\ wobj \in 0..MaxRuns
      /\ rpc \in [Readers -> ReaderPC] /\ wpc \in WriterPC /\ robj \in [Readers -> 0..MaxRuns]
  BY <1>0 DEF TypeOK, SemSet
<1>out. ReadersOut => ~Live
  BY <1>0 DEF Tokens
<1>h. \A r \in Readers : Holding(r) =>
        /\ robj[r] = wobj /\ wobj \in Objects /\ \A s \in Readers : Holding(s) => s = r
        /\ sem.READ_SEM = 0 /\ mem[wobj].cnt # -1 /\ ~ReadersOut
        /\ wpc \in Transfer => sem.WRITE_SEM = 0
  BY HolderFacts, OverlapKept
<1> USE ConstAssumption DEF Order, NothingUnderWay, BlockInObject, BlockIn,
        ReadersOut, Transfer, Live, NoneHolding, Holding, Idle, Objects,
        semVars, shmVars, writerVars, readerVars, history, faults
<1>1. CASE SemGet
  <2>1. /\ wpc \in Idle /\ wpc' = "initSemAvailable"
        /\ UNCHANGED <<sent, drained, mem, wobj, rpc, crashed>>
    BY <1>1 DEF SemGet
  <2>2. sem'.READ_SEM > 0 => sem.READ_SEM > 0
    BY <1>1 DEF SemGet
  <2>3. ~crashed => ReadersOut /\ wpc # "release"
    BY <1>0, <2>1
  <2>4. \A s \in Readers : rpc[s] \in {"release", "finish"} => sent = drained
    BY <1>0
  <2> QED
    BY <1>0, <1>t, <2>1, <2>2, <2>3, <2>4
<1>2. CASE InitSemAvailable
  BY <1>0, <1>2, <1>t, <1>out DEF InitSemAvailable
<1>3. CASE InitSemInUse
  <2>1. /\ wpc = "initSemInUse" /\ wpc' = "shm_open" /\ UNCHANGED rpc
        /\ sent' = <<>> /\ drained' = <<>> /\ crashed' = FALSE /\ (crashed => ~OldToken)
    BY <1>3 DEF InitSemInUse
  <2>2. sem'.READ_SEM = 0
    BY <1>t, <1>3 DEF InitSemInUse, SemSet
  <2>3. NoneHolding
    BY <1>t, <1>out, <2>1 DEF OldToken
  <2> QED
    BY <2>1, <2>2, <2>3
<1>4. CASE ShmOpen
  <2>1. sent = drained /\ ~Live /\ ~crashed
    BY <1>0, <1>out, <1>4 DEF ShmOpen
  <2> QED
    BY <1>t, <2>1, <1>4 DEF ShmOpen
<1>5. CASE Ftruncate
  BY <1>0, <1>5, <1>t, <1>out DEF Ftruncate
<1>6. CASE Mmap
  BY <1>0, <1>6, <1>t, <1>out DEF Mmap
<1>7. CASE WReserve
  <2>1. /\ sem.WRITE_SEM = 1 /\ ~Live /\ sent = drained /\ ~crashed
    BY <1>0, <1>t, <1>7 DEF WReserve, Tokens, SemSet
  <2>2. /\ UNCHANGED <<rpc, sent, drained, mem, wobj, crashed, sem.READ_SEM>>
        /\ wpc' \in {"read", "rmid"}
    BY <1>t, <1>7 DEF WReserve, SemSet
  <2> HIDE DEF BlockIn
  <2> QED
    BY <2>1, <2>2
<1>8. CASE ReadBlock
  <2>1. /\ sent = drained /\ ~Live /\ ~crashed /\ wobj \in Objects
    BY <1>0, <1>t, <1>out, <1>8 DEF ReadBlock, Attachments
  <2>2. PICK b \in Block : /\ mem' = [mem EXCEPT ![wobj].cnt = b.cnt, ![wobj].buf = b.buf]
                          /\ sent' = Append(sent, b)
    BY <1>8 DEF ReadBlock
  <2>3. b = [cnt |-> b.cnt, buf |-> b.buf] /\ b.cnt # 0
    BY DEF Block
  <2>4. mem'[wobj].cnt = b.cnt /\ mem'[wobj].buf = b.buf
    BY <1>t, <2>1, <2>2 DEF Segment
  <2>5. BlockIn(wobj)' = b
    BY <2>3, <2>4, <1>8 DEF ReadBlock
  <2>6. /\ UNCHANGED <<sem, rpc, drained, crashed, wobj>> /\ wpc' = "release"
    BY <1>8 DEF ReadBlock
  <2> HIDE DEF BlockIn
  <2> QED
    BY <2>1, <2>2, <2>3, <2>4, <2>5, <2>6
<1>9. CASE ReadEof
  <2>1. /\ sent = drained /\ ~Live /\ ~crashed /\ wobj \in Objects
    BY <1>0, <1>t, <1>out, <1>9 DEF ReadEof, Attachments
  <2>2. mem'[wobj].cnt = 0
    BY <1>t, <2>1, <1>9 DEF ReadEof, Segment
  <2>3. /\ UNCHANGED <<sem, rpc, sent, drained, crashed, wobj>> /\ wpc' = "release"
    BY <1>9 DEF ReadEof
  <2> HIDE DEF BlockIn
  <2> QED
    BY <2>1, <2>2, <2>3
<1>10. CASE ReadError
  <2>1. /\ sent = drained /\ ~Live /\ ~crashed /\ wobj \in Objects
    BY <1>0, <1>t, <1>out, <1>10 DEF ReadError, Attachments
  <2>2. /\ UNCHANGED <<sem, rpc, sent, drained, crashed, wobj>> /\ wpc' = "failed"
    BY <1>10 DEF ReadError
  <2> HIDE DEF BlockIn
  <2> QED
    BY <2>1, <2>2
<1>11. CASE WRelease
  <2>1. /\ sem.WRITE_SEM = 0 /\ NoneHolding /\ ~crashed
        /\ sent = IF mem[wobj].cnt # 0 THEN Append(drained, BlockIn(wobj)) ELSE drained
    BY <1>0, <1>out, <1>11 DEF WRelease, Tokens
  <2>2. /\ UNCHANGED <<rpc, sent, drained, mem, wobj, crashed, sem.WRITE_SEM>> /\ wpc' = "test"
    BY <1>t, <1>11 DEF WRelease, SemSet
  <2>3. BlockIn(wobj)' = BlockIn(wobj)
    BY <2>2
  <2> HIDE DEF BlockIn
  <2> QED
    BY <2>1, <2>2, <2>3
<1>12. CASE WTest
  BY <1>0, <1>12, <1>t, <1>out DEF WTest
<1>13. CASE RemoveSem
  BY <1>0, <1>13, <1>t, <1>out DEF RemoveSem
<1>14. CASE ShmUnlink
  BY <1>0, <1>14, <1>t, <1>out DEF ShmUnlink
<1>15. CASE WriterFails
  BY <1>0, <1>15, <1>t, <1>out DEF WriterFails
<1>16. CASE WKilled
  <2>1. /\ UNCHANGED <<sem, rpc, sent, drained, mem, wobj>> /\ wpc' = "killed" /\ crashed'
    BY <1>16 DEF WKilled
  <2>2. BlockIn(wobj)' = BlockIn(wobj) /\ (BlockInObject' => BlockInObject)
    BY <2>1
  <2>3. NothingUnderWay' => NothingUnderWay
    BY <2>1
  <2> HIDE DEF BlockIn, BlockInObject, NothingUnderWay
  <2> QED
    BY <1>0, <2>1, <2>2, <2>3
<1>17. CASE UNCHANGED vars
  BY <1>0, <1>17 DEF vars
<1>18. ASSUME NEW r \in Readers, RSemGet(r) PROVE Order'
  BY <1>0, <1>18, <1>t, <1>out DEF RSemGet
<1>19. ASSUME NEW r \in Readers, RShmOpen(r) PROVE Order'
  BY <1>0, <1>19, <1>t, <1>out DEF RShmOpen
<1>20. ASSUME NEW r \in Readers, RReserve(r) PROVE Order'
  <2>1. /\ UNCHANGED <<wpc, crashed, sent, drained, mem, wobj, sem.WRITE_SEM>>
        /\ sem.READ_SEM > 0 /\ rpc' = [rpc EXCEPT ![r] = "test"]
    BY <1>t, <1>20 DEF RReserve, SemSet
  <2>2. \A s \in Readers : rpc'[s] \in {"release", "finish"} => rpc[s] \in {"release", "finish"}
    BY <1>t, <2>1
  <2>3. sent = IF mem[wobj].cnt # 0 THEN Append(drained, BlockIn(wobj)) ELSE drained
    BY <1>0, <2>1
  <2> HIDE DEF BlockIn
  <2>4. BlockIn(wobj)' = BlockIn(wobj)
    BY <2>1 DEF BlockIn
  <2> QED
    BY <1>0, <2>1, <2>2, <2>3, <2>4
<1>21. ASSUME NEW r \in Readers, RSetGone(r) PROVE Order'
  BY <1>0, <1>21, <1>t, <1>out DEF RSetGone
<1>22. ASSUME NEW r \in Readers, RTest(r) PROVE Order'
  <2>1. /\ UNCHANGED <<sem, wpc, crashed, sent, drained, mem, wobj>>
        /\ robj[r] = wobj /\ rpc[r] = "test"
    BY <1>h, <1>22 DEF RTest
  <2>2. \/ mem[wobj].cnt = 0 /\ rpc' = [rpc EXCEPT ![r] = "finish"]
        \/ mem[wobj].cnt # 0 /\ rpc' = [rpc EXCEPT ![r] = "write"]
    BY <2>1, <1>22 DEF RTest
  <2>3. sent = IF mem[wobj].cnt # 0 THEN Append(drained, BlockIn(wobj)) ELSE drained
    BY <1>0, <2>1
  <2>4. BlockIn(wobj)' = BlockIn(wobj)
    BY <2>1
  <2>5. \A s \in Readers : s # r => ~Holding(s) /\ ~Holding(s)'
    BY <1>t, <1>h, <2>1, <2>2
  <2> HIDE DEF BlockIn
  <2> QED
    BY <1>0, <1>t, <2>1, <2>2, <2>3, <2>4, <2>5
<1>23. ASSUME NEW r \in Readers, RWrite(r) PROVE Order'
  <2>1. /\ robj[r] = wobj /\ wobj \in Objects /\ mem[wobj].cnt > 0
        /\ sem.READ_SEM = 0 /\ ~ReadersOut /\ \A s \in Readers : Holding(s) => s = r
    BY <1>0, <1>t, <1>h, <1>23 DEF RWrite, Contents, Segment
  <2>2. /\ UNCHANGED <<sem, wpc, crashed, sent, mem, wobj>>
        /\ rpc' = [rpc EXCEPT ![r] = "release"]
        /\ drained' = Append(drained, BlockIn(wobj))
    BY <2>1, <1>23 DEF RWrite
  <2>3. sent = Append(drained, BlockIn(wobj))
    BY <1>0, <2>1, <1>23 DEF RWrite
  <2>4. \A s \in Readers : rpc'[s] \notin {"test", "write"}
    BY <1>t, <2>1, <2>2
  <2> HIDE DEF BlockIn
  <2> QED
    BY <1>0, <2>1, <2>2, <2>3, <2>4
<1>24. ASSUME NEW r \in Readers, RRelease(r) PROVE Order'
  <2>1. /\ sem.READ_SEM = 0 /\ ~ReadersOut /\ \A s \in Readers : Holding(s) => s = r
        /\ sent = drained
    BY <1>0, <1>h, <1>24 DEF RRelease
  <2>2. /\ UNCHANGED <<wpc, sent, drained, mem, wobj, crashed, sem.READ_SEM>>
        /\ \A s \in Readers : ~Holding(s)'
    BY <1>t, <2>1, <1>24 DEF RRelease, Post, SemSet
  <2> HIDE DEF BlockIn
  <2> QED
    BY <1>0, <2>1, <2>2
<1>25. ASSUME NEW r \in Readers, RFinish(r) PROVE Order'
  <2>1. /\ sem.READ_SEM = 0 /\ ~ReadersOut /\ \A s \in Readers : Holding(s) => s = r
        /\ sent = drained
    BY <1>0, <1>h, <1>25 DEF RFinish
  <2>2. /\ UNCHANGED <<wpc, sent, drained, mem, wobj, crashed, sem.READ_SEM>>
        /\ \A s \in Readers : ~Holding(s)'
    BY <1>t, <2>1, <1>25 DEF RFinish, Post, SemSet
  <2> HIDE DEF BlockIn
  <2> QED
    BY <1>0, <2>1, <2>2
<1>26. ASSUME NEW r \in Readers, RDies(r) PROVE Order'
  BY <1>0, <1>26, <1>t, <1>out DEF RDies
<1>27. ASSUME NEW r \in Readers, RKilled(r) PROVE Order'
  BY <1>0, <1>27, <1>t, <1>out DEF RKilled
<1> QED
  BY <1>1, <1>2, <1>3, <1>4, <1>5, <1>6, <1>7, <1>8, <1>9, <1>10, <1>11, <1>12, <1>13,
     <1>14, <1>15, <1>16, <1>17, <1>18, <1>19, <1>20, <1>21, <1>22, <1>23, <1>24, <1>25, <1>26,
     <1>27
  DEF Next, WriterStep, ReaderStep
\* Every step keeps the types.
LEMMA TypeStep == IInv /\ [Next]_vars => TypeOK'
<1> SUFFICES ASSUME IInv, [Next]_vars PROVE TypeOK'
  OBVIOUS
<1> USE ConstAssumption DEF TypeOK, Idle, WriterPC, ReaderPC, semVars, shmVars,
        writerVars, readerVars, history, faults
<1>0. TypeOK
  BY DEF IInv
<1>b. \A r \in Readers : Attached(r) => robj[r] \in Objects
  BY <1>0 DEF IInv, Attachments, Objects
<1>a. wpc \in {"ftruncate", "mmap", "reserve", "read", "release", "test", "drain"}
        => wobj \in Objects
  BY <1>0 DEF IInv, Attachments, Objects
<1>1. CASE SemGet
  <2>1. sem' \in SemSet
    BY <1>0, <1>1 DEF SemGet, SemSet
  <2>2. wcount' \in Counter
    BY <1>1 DEF SemGet, Zero, Counter
  <2> QED
    BY <1>0, <1>1, <2>1, <2>2 DEF SemGet
<1>2. CASE InitSemAvailable
  <2>1. sem' \in SemSet
    BY <1>0, <1>2, SemSetUpdate DEF InitSemAvailable
  <2> QED
    BY <1>0, <1>2, <2>1 DEF InitSemAvailable
<1>3. CASE InitSemInUse
  <2>1. sem' \in SemSet
    BY <1>0, <1>3, SemSetUpdate DEF InitSemInUse
  <2>2. sent' \in Seq(Block) /\ drained' \in Seq(Piece)
    BY <1>3 DEF InitSemInUse
  <2>3. overlap' \in BOOLEAN /\ crashed' \in BOOLEAN
    BY <1>3 DEF InitSemInUse
  <2> QED
    BY <1>0, <1>3, <2>1, <2>2, <2>3 DEF InitSemInUse
<1>4. CASE ShmOpen
  BY <1>0, <1>4 DEF ShmOpen
<1>5. CASE Ftruncate
  <2>1. mem' \in [Objects -> Segment]
    BY <1>0, <1>a, <1>5, ZenonT(60) DEF Ftruncate, Segment
  <2> QED
    BY <1>0, <1>5, <2>1 DEF Ftruncate
<1>6. CASE Mmap
  BY <1>0, <1>6 DEF Mmap
<1>7. CASE WReserve
  <2>1. sem.WRITE_SEM - 1 \in Nat
    BY <1>0, <1>7 DEF WReserve, SemSet
  <2>2. sem' \in SemSet
    BY <1>0, <1>7, <2>1, SemSetUpdate DEF WReserve
  <2> QED
    BY <1>0, <1>7, <2>2 DEF WReserve
<1>8. CASE ReadBlock
  <2>1. PICK b \in Block :
          /\ mem' = [mem EXCEPT ![wobj].cnt = b.cnt, ![wobj].buf = b.buf]
          /\ sent' = Append(sent, b)
    BY <1>8 DEF ReadBlock
  <2>2. wobj \in Objects
    BY <1>a, <1>8 DEF ReadBlock
  <2>3. mem' \in [Objects -> Segment]
    BY <1>0, <2>1, <2>2, BlockUpdate
  <2>4. sent' \in Seq(Block)
    BY <1>0, <2>1
  <2> QED
    BY <1>0, <1>8, <2>3, <2>4 DEF ReadBlock
<1>9. CASE ReadEof
  <2>1. 0 \in -1..BUF_SIZE /\ wobj \in Objects
    BY <1>a, <1>9 DEF ReadEof
  <2>2. mem' \in [Objects -> Segment]
    BY <1>0, <1>9, <2>1, SegmentUpdate DEF ReadEof
  <2> QED
    BY <1>0, <1>9, <2>2 DEF ReadEof
<1>10. CASE ReadError
  <2>1. -1 \in -1..BUF_SIZE /\ wobj \in Objects
    BY <1>a, <1>10 DEF ReadError
  <2>2. mem' \in [Objects -> Segment]
    BY <1>0, <1>10, <2>1, SegmentUpdate DEF ReadError
  <2> QED
    BY <1>0, <1>10, <2>2 DEF ReadError
<1>11. CASE WRelease
  <2>1. sem.READ_SEM + 1 \in Nat
    BY <1>0, <1>11 DEF WRelease, SemSet
  <2>2. sem' \in SemSet
    BY <1>0, <1>11, <2>1, SemSetUpdate DEF WRelease
  <2> QED
    BY <1>0, <1>11, <2>2 DEF WRelease
<1>12. CASE WTest
  <2>1. mem[wobj].cnt \in Int
    BY <1>0, <1>a, <1>12 DEF WTest, Segment
  <2>2. wcount' \in Counter
    BY <1>0, <1>12, <2>1 DEF WTest, Counter
  <2> QED
    BY <1>0, <1>12, <2>2 DEF WTest
<1>13. CASE RemoveSem
  <2>1. sem' \in SemSet
    BY <1>13 DEF RemoveSem, SemSet
  <2> QED
    BY <1>0, <1>13, <2>1 DEF RemoveSem
<1>14. CASE ShmUnlink
  BY <1>0, <1>14 DEF ShmUnlink
<1>15. CASE WriterFails
  BY <1>0, <1>15 DEF WriterFails
<1>16. CASE WKilled
  BY <1>0, <1>16 DEF WKilled
<1>17. CASE UNCHANGED vars
  BY <1>0, <1>17 DEF vars
<1>18. ASSUME NEW r \in Readers, RSemGet(r) PROVE TypeOK'
  <2>1. sem.id \in 0..MaxRuns
    BY <1>0 DEF SemSet
  <2> QED
    BY <1>0, <1>18, <2>1 DEF RSemGet
<1>19. ASSUME NEW r \in Readers, RShmOpen(r) PROVE TypeOK'
  BY <1>0, <1>19 DEF RShmOpen
<1>20. ASSUME NEW r \in Readers, RReserve(r) PROVE TypeOK'
  <2>1. sem.READ_SEM - 1 \in Nat
    BY <1>0, <1>20 DEF RReserve, SemSet
  <2>2. sem' \in SemSet
    BY <1>0, <1>20, <2>1, SemSetUpdate DEF RReserve
  <2> QED
    BY <1>0, <1>20, <2>2 DEF RReserve
<1>21. ASSUME NEW r \in Readers, RSetGone(r) PROVE TypeOK'
  BY <1>0, <1>21 DEF RSetGone
<1>22. ASSUME NEW r \in Readers, RTest(r) PROVE TypeOK'
  <2> DEFINE n == rcount[r].bytes + mem[robj[r]].cnt
  <2>1. robj[r] \in Objects
    BY <1>b, <1>22 DEF RTest, Attached, Holding
  <2>2. n \in Int
    BY <1>0, <2>1 DEF Segment, Counter
  <2>3. rcount' = rcount \/ rcount' = [rcount EXCEPT ![r].bytes = n]
    BY <1>22 DEF RTest
  <2> HIDE DEF n
  <2>a. rcount \in [Readers -> Counter]
    BY <1>0
  <2>b. [rcount EXCEPT ![r].bytes = n] \in [Readers -> Counter]
    BY <2>a, <2>2, BytesUpdate
  <2>4. rcount' \in [Readers -> Counter]
    BY <2>a, <2>b, <2>3
  <2>5. rpc' \in [Readers -> ReaderPC]
    BY <1>0, <1>22 DEF RTest
  <2> QED
    BY <1>0, <1>22, <2>4, <2>5 DEF RTest
<1>23. ASSUME NEW r \in Readers, RWrite(r) PROVE TypeOK'
  <2>1. robj[r] \in Objects
    BY <1>b, <1>23 DEF RWrite, Attached, Holding
  <2>2. BlockIn(robj[r]) \in Piece
    BY <1>0, <2>1 DEF BlockIn, Segment, Piece
  <2>3. drained' \in Seq(Piece)
    BY <1>0, <1>23, <2>2 DEF RWrite
  <2> QED
    BY <1>0, <1>23, <2>3 DEF RWrite
<1>24. ASSUME NEW r \in Readers, RRelease(r) PROVE TypeOK'
  <2> DEFINE n == rcount[r].xfrs + 1
  <2>1. sem' \in SemSet
    BY <1>0, <1>24, PostType DEF RRelease
  <2>2. n \in Nat
    BY <1>0 DEF Counter
  <2>3. rcount' = rcount \/ rcount' = [rcount EXCEPT ![r].xfrs = n]
    BY <1>24 DEF RRelease
  <2> HIDE DEF n
  <2>a. rcount \in [Readers -> Counter]
    BY <1>0
  <2>b. [rcount EXCEPT ![r].xfrs = n] \in [Readers -> Counter]
    BY <2>a, <2>2, XfrsUpdate
  <2>4. rcount' \in [Readers -> Counter]
    BY <2>a, <2>b, <2>3
  <2>5. rpc' \in [Readers -> ReaderPC]
    BY <1>0, <1>24 DEF RRelease
  <2> QED
    BY <1>0, <1>24, <2>1, <2>4, <2>5 DEF RRelease
<1>25. ASSUME NEW r \in Readers, RFinish(r) PROVE TypeOK'
  <2>1. sem' \in SemSet
    BY <1>0, <1>25, PostType DEF RFinish
  <2> QED
    BY <1>0, <1>25, <2>1 DEF RFinish
<1>26. ASSUME NEW r \in Readers, RDies(r) PROVE TypeOK'
  BY <1>0, <1>26 DEF RDies
<1>27. ASSUME NEW r \in Readers, RKilled(r) PROVE TypeOK'
  BY <1>0, <1>27 DEF RKilled
<1> QED
  BY <1>1, <1>2, <1>3, <1>4, <1>5, <1>6, <1>7, <1>8, <1>9, <1>10, <1>11, <1>12, <1>13,
     <1>14, <1>15, <1>16, <1>17, <1>18, <1>19, <1>20, <1>21, <1>22, <1>23, <1>24, <1>25,
     <1>26, <1>27
  DEF Next, WriterStep, ReaderStep

-----------------------------------------------------------------------------
\* No process runs and no object exists.
LEMMA InitIInv == Init => IInv
<1> SUFFICES ASSUME Init PROVE IInv
  OBVIOUS
<1>1. TypeOK
  <2>1. sent \in Seq(Block) /\ drained \in Seq(Piece)
    BY DEF Init
  <2>2. crashed \in BOOLEAN /\ overlap \in BOOLEAN
    BY DEF Init
  <2> QED
    BY <2>1, <2>2, ConstAssumption
    DEF Init, TypeOK, SemSet, Segment, Counter, Zero, Objects, Idle, WriterPC, ReaderPC
<1>2. Attachments /\ Tokens /\ Contents /\ Order
  BY DEF Init, Tokens, Attachments, Contents, Order, NothingUnderWay, BlockInObject, ReadersOut,
         Live, Transfer, NoneHolding, Holding, Attached, Idle
<1> QED
  BY <1>1, <1>2 DEF IInv

\* The inductive invariant holds in every reachable state.
THEOREM Invariance == Spec => []IInv
<1>1. Init => IInv
  BY InitIInv
<1>2. IInv /\ [Next]_vars => IInv'
  <2> SUFFICES ASSUME IInv, [Next]_vars PROVE IInv'
    OBVIOUS
  <2>1. TypeOK' /\ Attachments'
    BY TypeStep, AttachmentsStep
  <2>2. ~overlap' => (Tokens /\ Contents /\ Order)'
    BY TokensStep, ContentsStep, OrderStep
  <2> QED
    BY <2>1, <2>2 DEF IInv
<1> QED
  BY <1>1, <1>2, PTL DEF Spec

\* Type correctness, for any number of readers, runs and blocks.
THEOREM TypeCorrect == Spec => []TypeOK
<1>1. IInv => TypeOK
  BY DEF IInv
<1> QED
  BY <1>1, Invariance, PTL

\* The shared object is never used by two processes at once: the two semaphores
\* of writer.c and reader.c give mutual exclusion over any number of readers and
\* of writer runs, failed and killed ones included, until a run is set up while
\* the token of a killed one is still about.
THEOREM Exclusion == Spec => []BufferExclusive
<1>1. IInv => BufferExclusive
  <2> SUFFICES ASSUME IInv, ~overlap
               PROVE  /\ wpc \in {"read", "release"} => \A r \in Readers : ~Holding(r)
                      /\ \A r, s \in Readers : Holding(r) /\ Holding(s) => r = s
    BY DEF BufferExclusive
  <2>1. wpc \in {"read", "release"} => ReadersOut
    BY DEF ReadersOut
  <2> QED
    BY <2>1 DEF IInv, Tokens, Live, NoneHolding
<1> QED
  BY <1>1, Invariance, PTL

\* A reader looks only at the object the writer fills, after it has its size,
\* and never at the -1 of a failed read().
THEOREM LiveBlocks == Spec => []ReadersSeeLiveBlock
<1>1. IInv => ReadersSeeLiveBlock
  BY HolderFacts DEF ReadersSeeLiveBlock, Holding, Objects
<1> QED
  BY <1>1, Invariance, PTL

\* Blocks reach stdout in the order of stdin, none lost and none twice.
THEOREM Delivery == Spec => []InOrderDelivery
<1>1. IInv => InOrderDelivery
  BY DEF IInv, InOrderDelivery, Order, NothingUnderWay, ReadersOut
<1> QED
  BY <1>1, Invariance, PTL
-----------------------------------------------------------------------------
ChannelPut == IF overlap THEN <<>> ELSE sent
ChannelGot == IF overlap THEN <<>> ELSE drained
ChannelVars == <<ChannelPut, ChannelGot, ~crashed>>

\* Each step of the programs is a step of the one-item channel, or none: here
\* while no overlap has been recorded.
LEMMA StepWithoutOverlap ==
    IInv /\ [Next]_vars /\ ~overlap' => [Channel!Next]_ChannelVars
<1> SUFFICES ASSUME IInv, [Next]_vars, ~overlap' PROVE [Channel!Next]_ChannelVars
  OBVIOUS
<1>0. ~overlap /\ TypeOK /\ Attachments /\ Tokens /\ Contents /\ Order
  BY OverlapKept DEF IInv
<1> USE DEF ChannelPut, ChannelGot, ChannelVars, semVars, shmVars, writerVars, readerVars,
            history, faults
<1>1. CASE InitSemInUse
  <2>1. sent = drained \/ crashed
    BY <1>0, <1>1 DEF InitSemInUse, Order, NothingUnderWay, ReadersOut
  <2>2. sent' = <<>> /\ drained' = <<>> /\ crashed' = FALSE
    BY <1>1 DEF InitSemInUse
  <2> QED
    BY <1>0, <2>1, <2>2 DEF Channel!Next, Channel!Reopen
<1>2. CASE ReadBlock
  <2>1. sent = drained /\ ~crashed
    BY <1>0, <1>2 DEF ReadBlock, Order, NothingUnderWay, ReadersOut, Idle
  <2>2. PICK b \in Block : sent' = Append(sent, b)
    BY <1>2 DEF ReadBlock
  <2>3. UNCHANGED <<drained, crashed>>
    BY <1>2 DEF ReadBlock
  <2> QED
    BY <1>0, <2>1, <2>2, <2>3 DEF Channel!Next, Channel!Put
<1>3. ASSUME NEW r \in Readers, RWrite(r) PROVE [Channel!Next]_ChannelVars
  <2>1. robj[r] = wobj /\ mem[wobj].cnt > 0
    <3>1. robj[r] = wobj /\ wobj \in Objects /\ mem[wobj].cnt # -1
      BY <1>0, <1>3, HolderFacts DEF RWrite, Holding
    <3>2. mem[wobj].cnt # 0 /\ mem[wobj].cnt \in -1..BUF_SIZE
      BY <1>0, <1>3, <3>1 DEF RWrite, Contents, TypeOK, Segment
    <3> QED
      BY <3>1, <3>2, ConstAssumption
  <2>2. /\ sent = Append(drained, BlockIn(wobj)) /\ drained' = sent
        /\ UNCHANGED <<sent, crashed>>
    BY <1>0, <1>3, <2>1 DEF RWrite, Order, BlockInObject
  <2>3. CASE sent = drained
    BY <1>0, <2>2, <2>3
  <2>4. CASE sent # drained
    BY <1>0, <2>2, <2>4 DEF Channel!Next, Channel!Get
  <2> QED
    BY <2>3, <2>4
<1>4. CASE WKilled
  <2>1. UNCHANGED <<sent, drained>> /\ crashed' = TRUE
    BY <1>4 DEF WKilled
  <2>2. CASE crashed
    BY <1>0, <2>1, <2>2
  <2>3. CASE ~crashed
    BY <1>0, <2>1, <2>3 DEF Channel!Next, Channel!Crash
  <2> QED
    BY <2>2, <2>3
<1>5. CASE SemGet \/ InitSemAvailable \/ ShmOpen \/ Ftruncate \/ Mmap \/ WReserve
           \/ ReadEof \/ ReadError \/ WRelease \/ WTest \/ RemoveSem \/ ShmUnlink
           \/ WriterFails \/ UNCHANGED vars
  BY <1>5 DEF SemGet, InitSemAvailable, ShmOpen, Ftruncate, Mmap, WReserve, ReadEof,
              ReadError, WRelease, WTest, RemoveSem, ShmUnlink, WriterFails, vars
<1>6. ASSUME NEW r \in Readers,
             RSemGet(r) \/ RShmOpen(r) \/ RReserve(r) \/ RSetGone(r) \/ RTest(r)
             \/ RRelease(r) \/ RFinish(r) \/ RDies(r) \/ RKilled(r)
      PROVE  [Channel!Next]_ChannelVars
  BY <1>6 DEF RSemGet, RShmOpen, RReserve, RSetGone, RTest, RRelease, RFinish, RDies, RKilled
<1> QED
  BY <1>1, <1>2, <1>3, <1>4, <1>5, <1>6 DEF Next, WriterStep, ReaderStep

\* From the moment of an overlap the channel is an empty one that may crash and
\* be opened again.
LEMMA StepWithOverlap ==
    IInv /\ [Next]_vars /\ overlap' => [Channel!Next]_ChannelVars
<1> SUFFICES ASSUME IInv, [Next]_vars, overlap' PROVE [Channel!Next]_ChannelVars
  OBVIOUS
<1>0. crashed \in BOOLEAN /\ crashed' \in BOOLEAN /\ overlap \in BOOLEAN
  BY TypeStep DEF IInv, TypeOK
<1>1. \/ overlap /\ (crashed' = crashed \/ crashed' = TRUE)
      \/ InitSemInUse
  BY DEF Next, WriterStep, ReaderStep, vars, semVars, shmVars, writerVars, readerVars, history,
         faults, SemGet, InitSemAvailable, ShmOpen, Ftruncate, Mmap, WReserve, ReadBlock, ReadEof,
         ReadError, WRelease, WTest, RemoveSem, ShmUnlink, WriterFails, WKilled, RSemGet, RShmOpen,
         RReserve, RSetGone, RTest, RWrite, RRelease, RFinish, RDies, RKilled
<1> USE DEF ChannelPut, ChannelGot, ChannelVars
<1>2. CASE overlap /\ (crashed' = crashed \/ crashed' = TRUE)
  BY <1>0, <1>2 DEF Channel!Next, Channel!Crash
<1>3. CASE InitSemInUse
  <2>1. crashed' = FALSE /\ (overlap \/ crashed)
    BY <1>3 DEF InitSemInUse
  <2> QED
    BY <1>0, <2>1 DEF Channel!Next, Channel!Reopen
<1> QED
  BY <1>1, <1>2, <1>3

\* The two programs implement a channel of one item.
THEOREM Refinement == Spec => ImplementsChannel
<1>1. Init => Channel!Init
  BY DEF Init, Channel!Init
<1>2. IInv /\ [Next]_vars => [Channel!Next]_ChannelVars
  BY StepWithOverlap, StepWithoutOverlap
<1> QED
  BY <1>1, <1>2, Invariance, PTL DEF Spec, ImplementsChannel, Channel!Spec, ChannelVars, ChannelPut, ChannelGot
-----------------------------------------------------------------------------
(* Sums over the readers *)

\* A set of numbers has a least one.
LEMMA LeastNumber ==
    ASSUME NEW T \in SUBSET Nat, T # {}
    PROVE  \E n \in T : \A m \in T : n =< m
<1> DEFINE R == {ss \in Nat \X Nat : ss[1] < ss[2]}
<1>1. IsWellFoundedOn(R, Nat)
  BY NatLessThanWellFounded DEF OpToRel
<1> HIDE DEF R
<1>2. PICK n \in T : \A m \in T : <<m, n>> \notin R
  BY <1>1, WFMin
<1>3. n \in Nat /\ \A m \in T : m \in Nat
  OBVIOUS
<1>4. \A m \in T : ~(m < n)
  BY <1>2, <1>3 DEF R
<1> QED BY <1>3, <1>4

\* One step of the recursion inside SumOver, and the function it defines.
PickOf(s) == CHOOSE x \in s : TRUE
Body(f, g, s) == IF s = {} THEN 0 ELSE f[PickOf(s)] + g[s \ {PickOf(s)}]
Iter(f) == CHOOSE g : g = [s \in SUBSET Readers |-> Body(f, g, s)]

\* What SumOver computes, unfolded.
LEMMA SumIter == ASSUME NEW f PROVE SumOver(f) = Iter(f)[Readers]
  BY DEF SumOver, MapThenSumSet, MapThenFoldSet, Iter, Body, PickOf

\* The element taken from a set of readers leaves a set of one reader fewer.
LEMMA OneLess ==
    ASSUME NEW s \in SUBSET Readers, s # {}
    PROVE  /\ PickOf(s) \in s /\ PickOf(s) \in Readers /\ s \ {PickOf(s)} \in SUBSET Readers
           /\ Cardinality(s) \in Nat
           /\ Cardinality(s \ {PickOf(s)}) = Cardinality(s) - 1
<1>1. PickOf(s) \in s
  BY DEF PickOf
<1>2. IsFiniteSet(s)
  BY ConstAssumption, FS_Subset
<1> QED BY <1>1, <1>2, FS_RemoveElement, FS_CardinalityType

\* A function that adds up the sets of at most n readers.
Small(n) == {s \in SUBSET Readers : Cardinality(s) =< n}
Layer(f, n, g) == g \in [Small(n) -> Int] /\ \A s \in Small(n) : g[s] = Body(f, g, s)

\* A function that adds up every set of at most n readers exists: a least n without
\* one cannot be, as the one for n - 1 extends to it.
LEMMA LayerExists ==
    ASSUME NEW f \in [Readers -> Int], NEW n \in Nat
    PROVE  \E g : Layer(f, n, g)
<1> SUFFICES ASSUME ~ \E g : Layer(f, n, g) PROVE FALSE
  OBVIOUS
<1> DEFINE T == {k \in Nat : ~ \E g : Layer(f, k, g)}
<1>1. PICK m \in T : \A k \in T : m =< k
  <2>1. n \in T /\ T \in SUBSET Nat
    OBVIOUS
  <2> HIDE DEF T
  <2> QED BY <2>1, LeastNumber
<1>2. m \in Nat /\ ~ \E g : Layer(f, m, g)
  OBVIOUS
<1>3. CASE m = 0
  <2> DEFINE h == [s \in Small(0) |-> 0]
  <2>1. \A s \in Small(0) : s = {}
    <3> SUFFICES ASSUME NEW s \in Small(0), s # {} PROVE FALSE
      OBVIOUS
    <3>1. Cardinality(s) =< 0 /\ IsFiniteSet(s)
      BY ConstAssumption, FS_Subset DEF Small
    <3> QED BY <3>1, FS_EmptySet, FS_CardinalityType
  <2>2. Layer(f, 0, h)
    BY <2>1 DEF Layer, Body
  <2> QED BY <1>2, <1>3, <2>2
<1>4. CASE m # 0
  <2>1. m - 1 \in Nat /\ ~(m =< m - 1)
    BY <1>2, <1>4
  <2>2. PICK g : Layer(f, m - 1, g)
    BY <1>1, <2>1
  <2> DEFINE h == [s \in Small(m) |-> Body(f, g, s)]
  <2>3. ASSUME NEW s \in Small(m), s # {}
        PROVE  /\ s \ {PickOf(s)} \in Small(m - 1) /\ s \ {PickOf(s)} \in Small(m)
               /\ PickOf(s) \in Readers
    <3>1. s \in SUBSET Readers /\ Cardinality(s) =< m
      BY DEF Small
    <3> QED BY <1>2, <2>3, <3>1, OneLess DEF Small
  <2>4. \A s \in Small(m) : Body(f, g, s) \in Int
    BY <2>2, <2>3 DEF Body, Layer
  <2>5. \A s \in Small(m - 1) : s \in Small(m) => h[s] = g[s]
    BY <2>2 DEF Layer
  <2>6. \A s \in Small(m) : h[s] = Body(f, h, s)
    BY <2>3, <2>5 DEF Body
  <2>7. Layer(f, m, h)
    BY <2>4, <2>6 DEF Layer
  <2> QED BY <1>2, <2>7
<1> QED BY <1>3, <1>4

\* So the recursive definition means what it says.
LEMMA IterDef ==
    ASSUME NEW f \in [Readers -> Int], NEW s \in SUBSET Readers
    PROVE  Iter(f)[s] = Body(f, Iter(f), s)
<1> DEFINE n == Cardinality(Readers)
<1>1. n \in Nat /\ Small(n) = SUBSET Readers
  BY ConstAssumption, FS_CardinalityType, FS_Subset DEF Small
<1>2. PICK g : Layer(f, n, g)
  BY <1>1, LayerExists
<1>3. g = [t \in SUBSET Readers |-> Body(f, g, t)]
  BY <1>1, <1>2 DEF Layer
<1>4. Iter(f) = [t \in SUBSET Readers |-> Body(f, Iter(f), t)]
  BY <1>3 DEF Iter
<1> QED BY <1>4

\* Induction over the sets of readers: a property whose counterexamples leave a
\* counterexample when an element is taken from them has none.
LEMMA NoBadSet ==
    ASSUME NEW Bad \in SUBSET SUBSET Readers,
           \A s \in Bad : s # {} /\ s \ {PickOf(s)} \in Bad
    PROVE  Bad = {}
<1> SUFFICES ASSUME Bad # {} PROVE FALSE
  OBVIOUS
<1> DEFINE T == {Cardinality(s) : s \in Bad}
<1>1. \A s \in Bad : Cardinality(s) \in Nat /\ Cardinality(s \ {PickOf(s)}) = Cardinality(s) - 1
  BY OneLess
<1>2. PICK m \in T : \A k \in T : m =< k
  <2>1. T \in SUBSET Nat /\ T # {}
    BY <1>1
  <2> HIDE DEF T
  <2> QED BY <2>1, LeastNumber
<1>3. PICK s \in Bad : Cardinality(s) = m
  OBVIOUS
<1>4. Cardinality(s \ {PickOf(s)}) \in T
  OBVIOUS
<1>5. m =< m - 1 /\ m \in Nat
  BY <1>1, <1>2, <1>3, <1>4
<1> QED BY <1>5

\* The sum of integers is an integer.
LEMMA IterInt ==
    ASSUME NEW f \in [Readers -> Int]
    PROVE  \A s \in SUBSET Readers : Iter(f)[s] \in Int
<1> DEFINE Bad == {s \in SUBSET Readers : Iter(f)[s] \notin Int}
<1>1. ASSUME NEW s \in Bad PROVE s # {} /\ s \ {PickOf(s)} \in Bad
  <2>1. Iter(f)[s] = Body(f, Iter(f), s)
    BY IterDef
  <2>2. s # {}
    BY <2>1 DEF Body
  <2>3. PickOf(s) \in Readers /\ s \ {PickOf(s)} \in SUBSET Readers
    BY <2>2, OneLess
  <2> QED BY <2>1, <2>2, <2>3 DEF Body
<1>2. Bad \in SUBSET SUBSET Readers
  OBVIOUS
<1>3. Bad = {}
  <2> HIDE DEF Bad
  <2> QED BY <1>1, <1>2, NoBadSet
<1> QED BY <1>3

\* Changing one term changes the sum by as much.
LEMMA SumChange ==
    ASSUME NEW f \in [Readers -> Int], NEW r \in Readers, NEW g \in [Readers -> Int],
           \A q \in Readers : q # r => g[q] = f[q]
    PROVE  SumOver(f) \in Int /\ SumOver(g) = SumOver(f) + (g[r] - f[r])
<1> DEFINE D(s) == IF r \in s THEN g[r] - f[r] ELSE 0
           Bad == {s \in SUBSET Readers : Iter(g)[s] # Iter(f)[s] + D(s)}
<1>1. ASSUME NEW s \in Bad PROVE s # {} /\ s \ {PickOf(s)} \in Bad
  <2> DEFINE x == PickOf(s)
             t == s \ {x}
  <2>1. Iter(f)[s] = Body(f, Iter(f), s) /\ Iter(g)[s] = Body(g, Iter(g), s)
    BY IterDef
  <2>2. s # {}
    BY <2>1 DEF Body
  <2>3. x \in s /\ x \in Readers /\ t \in SUBSET Readers
    BY <2>2, OneLess
  <2>4. Iter(f)[s] = f[x] + Iter(f)[t] /\ Iter(g)[s] = g[x] + Iter(g)[t]
    BY <2>1, <2>2 DEF Body
  <2>5. Iter(f)[t] \in Int /\ Iter(g)[t] \in Int /\ f[x] \in Int /\ g[x] \in Int /\ f[r] \in Int /\ g[r] \in Int
    BY <2>3, IterInt
  <2>6. D(s) = (g[x] - f[x]) + D(t)
    BY <2>3, <2>5
  <2>7. Iter(g)[s] # Iter(f)[s] + D(s)
    OBVIOUS
  <2>9. D(t) \in Int
    BY <2>5
  <2>8. Iter(g)[t] # Iter(f)[t] + D(t)
    <3> HIDE DEF D, x, t
    <3> QED BY <2>4, <2>5, <2>6, <2>7, <2>9
  <2> QED BY <2>2, <2>3, <2>8
<1>2. Bad \in SUBSET SUBSET Readers
  OBVIOUS
<1>3. Bad = {}
  <2> HIDE DEF Bad
  <2> QED BY <1>1, <1>2, NoBadSet
<1>4. Iter(g)[Readers] = Iter(f)[Readers] + (g[r] - f[r])
  BY <1>3
<1> QED BY <1>4, SumIter, IterInt

\* The sum of zeros is zero.
LEMMA SumZero == SumOver([r \in Readers |-> 0]) = 0
<1> DEFINE f == [r \in Readers |-> 0]
           Bad == {s \in SUBSET Readers : Iter(f)[s] # 0}
<1>0. f \in [Readers -> Int]
  OBVIOUS
<1>1. ASSUME NEW s \in Bad PROVE s # {} /\ s \ {PickOf(s)} \in Bad
  <2>1. Iter(f)[s] = Body(f, Iter(f), s)
    BY <1>0, IterDef
  <2>2. s # {}
    BY <2>1 DEF Body
  <2>3. PickOf(s) \in Readers /\ s \ {PickOf(s)} \in SUBSET Readers
    BY <2>2, OneLess
  <2>4. Iter(f)[s \ {PickOf(s)}] \in Int
    BY <1>0, <2>3, IterInt
  <2>5. Iter(f)[s] = 0 + Iter(f)[s \ {PickOf(s)}]
    BY <2>1, <2>2, <2>3 DEF Body
  <2> QED BY <2>2, <2>3, <2>4, <2>5
<1>2. Bad \in SUBSET SUBSET Readers
  OBVIOUS
<1>3. Bad = {}
  <2> HIDE DEF Bad
  <2> QED BY <1>1, <1>2, NoBadSet
<1> QED BY <1>3, SumIter
-----------------------------------------------------------------------------
(* The reports *)

BytesRead == [r \in Readers |-> rcount[r].bytes]
XfrsDone == [r \in Readers |-> rcount[r].xfrs]

\* Until the second run nothing was set up over an old token, only a kill counts
\* as a crash, and a reader about to release has a block, not end of file.
FirstRun ==
    run =< 1 =>
        /\ ~overlap /\ (crashed => wpc = "killed")
        /\ run = 0 => wpc = "off" /\ wcount = Zero
        /\ \A r \in Readers : rpc[r] = "release" => mem[wobj].cnt # 0

\* A reader died with the token, and nobody will ever have it again.
TokenGone == wpc \in Transfer /\ sem.WRITE_SEM = 0 /\ ~Live

\* The block in the object has not been added up, or not been counted, by a reader.
Unread == sem.READ_SEM > 0 \/ \E r \in Readers : rpc[r] = "test"
Uncounted == sem.READ_SEM > 0 \/ \E r \in Readers : rpc[r] \in {"test", "write", "release"}

\* The two reports differ by the block that is under way, which the writer adds
\* up at "test" and the reader when it has the token.
Balance ==
    /\ wcount.bytes + (IF wpc = "test" THEN mem[wobj].cnt ELSE 0)
         = SumOver(BytesRead) + (IF Unread THEN mem[wobj].cnt ELSE 0)
    /\ wcount.xfrs + (IF wpc = "test" /\ mem[wobj].cnt # 0 THEN 1 ELSE 0)
         = SumOver(XfrsDone) + (IF Uncounted /\ mem[wobj].cnt # 0 THEN 1 ELSE 0)

Balanced == run =< 1 /\ wpc \notin {"killed", "failed"} /\ ~TokenGone => Balance

RInv == FirstRun /\ Balanced

\* Nothing has been counted.
LEMMA InitRInv == Init => RInv
<1> SUFFICES ASSUME Init PROVE RInv
  OBVIOUS
<1>1. BytesRead = [r \in Readers |-> 0] /\ XfrsDone = [r \in Readers |-> 0]
  BY DEF Init, BytesRead, XfrsDone, Zero
<1>2. SumOver(BytesRead) = 0 /\ SumOver(XfrsDone) = 0
  BY <1>1, SumZero
<1>3. Balance
  BY <1>2 DEF Init, Balance, Unread, Uncounted, Zero
<1> QED BY <1>3 DEF Init, RInv, FirstRun, Balanced

\* What the first run starts from stays so until the second.
LEMMA FirstRunStep == IInv /\ RInv /\ [Next]_vars => FirstRun'
<1> SUFFICES ASSUME IInv, RInv, [Next]_vars, run' =< 1
             PROVE  /\ ~overlap' /\ (crashed' => wpc' = "killed")
                    /\ run' = 0 => wpc' = "off" /\ wcount' = Zero
                    /\ \A r \in Readers : rpc'[r] = "release" => mem'[wobj'].cnt # 0
  BY DEF FirstRun
<1>1. run \in Nat /\ (run' = run \/ (SemGet /\ run' = run + 1))
  <2>1. run \in Nat
    BY ConstAssumption DEF IInv, TypeOK
  <2>2. SemGet \/ run' = run
    BY DEF Next, WriterStep, ReaderStep, vars, writerVars,
       InitSemAvailable, InitSemInUse, ShmOpen, Ftruncate, Mmap, WReserve, ReadBlock,
       ReadEof, ReadError, WRelease, WTest, RemoveSem, ShmUnlink, WriterFails, WKilled,
       RSemGet, RShmOpen, RReserve, RSetGone, RTest, RWrite, RRelease, RFinish, RDies, RKilled
  <2> QED BY <2>1, <2>2 DEF SemGet
<1>2. run =< 1
  BY <1>1
<1>3. /\ ~overlap /\ (crashed => wpc = "killed")
      /\ run = 0 => wpc = "off" /\ wcount = Zero
      /\ \A r \in Readers : rpc[r] = "release" => mem[wobj].cnt # 0
  BY <1>2 DEF RInv, FirstRun
<1>4. CASE SemGet
  <2>1. run = 0 /\ run' # 0 /\ UNCHANGED <<crashed, overlap, rpc, mem, wobj>>
    BY <1>1, <1>4 DEF SemGet, shmVars, readerVars, history, faults
  <2> QED BY <1>3, <2>1
<1>5. CASE run' = run
  <2>1. ~overlap' /\ (crashed' => wpc' = "killed")
    <3>1. overlap' = overlap \/ InitSemInUse
      BY DEF Next, WriterStep, ReaderStep, vars, writerVars, history, faults,
         SemGet, InitSemAvailable, ShmOpen, Ftruncate, Mmap, WReserve, ReadBlock,
         ReadEof, ReadError, WRelease, WTest, RemoveSem, ShmUnlink, WriterFails, WKilled,
         RSemGet, RShmOpen, RReserve, RSetGone, RTest, RWrite, RRelease, RFinish, RDies, RKilled
    <3>2. InitSemInUse => ~overlap'
      BY <1>3 DEF InitSemInUse
    <3>3. crashed' = crashed \/ WKilled \/ InitSemInUse
      BY DEF Next, WriterStep, ReaderStep, vars, writerVars, history, faults,
         SemGet, InitSemAvailable, ShmOpen, Ftruncate, Mmap, WReserve, ReadBlock,
         ReadEof, ReadError, WRelease, WTest, RemoveSem, ShmUnlink, WriterFails,
         RSemGet, RShmOpen, RReserve, RSetGone, RTest, RWrite, RRelease, RFinish, RDies, RKilled
    <3>4. wpc = "killed" => wpc' = "killed"
      BY <1>1, <1>5 DEF Next, WriterStep, ReaderStep, vars, writerVars, history, faults, Idle,
         SemGet, InitSemAvailable, InitSemInUse, ShmOpen, Ftruncate, Mmap, WReserve, ReadBlock,
         ReadEof, ReadError, WRelease, WTest, RemoveSem, ShmUnlink, WriterFails, WKilled,
         RSemGet, RShmOpen, RReserve, RSetGone, RTest, RWrite, RRelease, RFinish, RDies, RKilled
    <3> QED BY <1>3, <3>1, <3>2, <3>3, <3>4 DEF WKilled, InitSemInUse
  <2>2. run' = 0 => wpc' = "off" /\ wcount' = Zero
    BY <1>1, <1>3, <1>5 DEF Next, WriterStep, ReaderStep, vars, writerVars, history, faults, Idle,
       SemGet, InitSemAvailable, InitSemInUse, ShmOpen, Ftruncate, Mmap, WReserve, ReadBlock,
       ReadEof, ReadError, WRelease, WTest, RemoveSem, ShmUnlink, WriterFails, WKilled,
       RSemGet, RShmOpen, RReserve, RSetGone, RTest, RWrite, RRelease, RFinish, RDies, RKilled
  <2>3. ASSUME NEW r \in Readers, rpc'[r] = "release" PROVE mem'[wobj'].cnt # 0
    <3>1. CASE ShmOpen \/ Ftruncate \/ ReadBlock \/ ReadEof \/ ReadError
      <4>1. ReadersOut /\ rpc' = rpc
        BY <3>1 DEF ReadersOut, readerVars, ShmOpen, Ftruncate, ReadBlock, ReadEof, ReadError
      <4>2. ~Holding(r)
        BY <1>3, <4>1 DEF IInv, Tokens, Live, NoneHolding
      <4> QED BY <2>3, <4>1, <4>2 DEF Holding
    <3>2. CASE RWrite(r)
      <4>1. rpc[r] = "write" /\ UNCHANGED <<mem, wobj>>
        BY <3>2 DEF RWrite, shmVars, writerVars
      <4> QED BY <1>3, <4>1 DEF IInv, Contents
    <3>3. \/ ShmOpen \/ Ftruncate \/ ReadBlock \/ ReadEof \/ ReadError \/ RWrite(r)
          \/ UNCHANGED <<mem, wobj>> /\ rpc[r] = "release"
      BY <1>5, <2>3, ConstAssumption DEF IInv, TypeOK, Next, WriterStep, ReaderStep, vars, shmVars,
         writerVars, readerVars,
         SemGet, InitSemAvailable, InitSemInUse, Mmap, WReserve,
         WRelease, WTest, RemoveSem, ShmUnlink, WriterFails, WKilled,
         RSemGet, RShmOpen, RReserve, RSetGone, RTest, RWrite, RRelease, RFinish, RDies, RKilled
    <3> QED BY <1>3, <3>1, <3>2, <3>3
  <2> QED BY <2>1, <2>2, <2>3
<1> QED BY <1>1, <1>4, <1>5

\* The sums are numbers.
LEMMA SumsInt ==
    ASSUME IInv
    PROVE  /\ BytesRead \in [Readers -> Int] /\ SumOver(BytesRead) \in Int
           /\ XfrsDone \in [Readers -> Int] /\ SumOver(XfrsDone) \in Int
<1>1. BytesRead \in [Readers -> Int] /\ XfrsDone \in [Readers -> Int]
  BY DEF IInv, TypeOK, Counter, BytesRead, XfrsDone
<1> QED BY <1>1, SumIter, IterInt

\* Where no reader has the token or may take it, and the writer is not at "test",
\* the reports are equal, and stay equal while nobody counts.
LEMMA QuietStep ==
    ASSUME Balance, ~Live, ~Live', wpc # "test", wpc' # "test", UNCHANGED <<wcount, rcount>>
    PROVE  Balance'
<1>1. ~Unread /\ ~Uncounted /\ ~Unread' /\ ~Uncounted'
  BY DEF Live, NoneHolding, Holding, Unread, Uncounted
<1>2. BytesRead' = BytesRead /\ XfrsDone' = XfrsDone
  BY DEF BytesRead, XfrsDone
<1> QED BY <1>1, <1>2 DEF Balance

\* The writer at work: the token goes to the readers with the block, which it
\* adds up only then.
LEMMA WriterBalance ==
    ASSUME IInv, Balance, ~overlap, run =< 1, ~crashed, ~TokenGone',
           SemGet \/ WriterStep, run' =< 1, RInv
    PROVE  Balance'
<1>1. Tokens /\ sem \in SemSet
  BY DEF IInv, TypeOK
<1>2. CASE InitSemAvailable \/ InitSemInUse \/ ShmOpen \/ Ftruncate \/ Mmap \/ ReadBlock
           \/ ReadEof \/ RemoveSem \/ ShmUnlink
  <2>1. ~Live
    BY <1>1, <1>2 DEF Tokens, ReadersOut, InitSemAvailable, InitSemInUse, ShmOpen, Ftruncate,
          Mmap, ReadBlock, ReadEof, RemoveSem, ShmUnlink
  <2>2. rpc' = rpc /\ (sem'.READ_SEM = sem.READ_SEM \/ sem'.READ_SEM = 0)
    BY <1>1, <1>2 DEF SemSet, semVars, readerVars, InitSemAvailable, InitSemInUse, ShmOpen, Ftruncate,
          Mmap, ReadBlock, ReadEof, RemoveSem, ShmUnlink
  <2>3. ~Live'
    BY <2>1, <2>2 DEF Live, NoneHolding, Holding
  <2>4. wpc # "test" /\ wpc' # "test" /\ UNCHANGED <<wcount, rcount>>
    BY <1>2 DEF readerVars, InitSemAvailable, InitSemInUse, ShmOpen, Ftruncate,
          Mmap, ReadBlock, ReadEof, RemoveSem, ShmUnlink
  <2> QED BY <2>1, <2>3, <2>4, QuietStep
<1>3. CASE WReserve
  <2>1. wpc \in {"reserve", "drain"} /\ sem.WRITE_SEM = 1
    BY <1>1, <1>3 DEF WReserve, Tokens, Transfer, SemSet
  <2>2. ~Live
    BY <1>1, <2>1 DEF Tokens, Transfer
  <2>3. rpc' = rpc /\ sem'.READ_SEM = sem.READ_SEM /\ wpc' # "test" /\ UNCHANGED <<wcount, rcount>>
    BY <1>1, <1>3 DEF WReserve, readerVars, SemSet
  <2>4. ~Live'
    BY <2>2, <2>3 DEF Live, NoneHolding, Holding
  <2> QED BY <2>1, <2>2, <2>3, <2>4, QuietStep
<1>4. CASE SemGet
  <2>1. run = 0 /\ wpc = "off" /\ wcount = Zero
    <3>1. run \in Nat /\ run' = run + 1
      BY <1>4, ConstAssumption DEF SemGet, IInv, TypeOK
    <3>2. run = 0
      BY <3>1
    <3> QED BY <3>2 DEF RInv, FirstRun
  <2>2. ~Live
    BY <1>1, <2>1 DEF Tokens, ReadersOut
  <2>3. wcount' = wcount /\ wpc' # "test" /\ UNCHANGED <<rcount, rpc>> /\ sem'.READ_SEM \in {0, sem.READ_SEM}
    BY <1>4, <2>1 DEF SemGet, readerVars
  <2>4. ~Live'
    BY <2>2, <2>3 DEF Live, NoneHolding, Holding
  <2> QED BY <2>1, <2>2, <2>3, <2>4, QuietStep
<1>5. CASE WRelease
  <2>1. /\ wpc = "release" /\ wpc' = "test" /\ UNCHANGED <<wcount, rcount, mem, wobj>>
        /\ sem'.READ_SEM = sem.READ_SEM + 1 /\ sem.READ_SEM \in Nat
    BY <1>1, <1>5 DEF WRelease, shmVars, readerVars, SemSet
  <2>2. ~Live
    BY <1>1, <2>1 DEF Tokens, ReadersOut
  <2>3. ~Unread /\ ~Uncounted
    BY <2>2 DEF Live, NoneHolding, Holding, Unread, Uncounted
  <2>4. Unread' /\ Uncounted'
    BY <2>1 DEF Unread, Uncounted
  <2>5. BytesRead' = BytesRead /\ XfrsDone' = XfrsDone
    BY <2>1 DEF BytesRead, XfrsDone
  <2>6. wcount.bytes = SumOver(BytesRead) /\ wcount.xfrs = SumOver(XfrsDone)
    <3>1. wcount.bytes \in Int /\ wcount.xfrs \in Int
      BY DEF IInv, TypeOK, Counter
    <3>2. SumOver(BytesRead) \in Int /\ SumOver(XfrsDone) \in Int
      BY SumsInt
    <3> QED BY <2>1, <2>3, <3>1, <3>2 DEF Balance
  <2>7. SumOver(BytesRead') = SumOver(BytesRead) /\ SumOver(XfrsDone') = SumOver(XfrsDone)
    BY <2>5
  <2>8. /\ wcount'.bytes + mem'[wobj'].cnt = SumOver(BytesRead)' + mem'[wobj'].cnt
        /\ wcount'.xfrs + (IF mem'[wobj'].cnt # 0 THEN 1 ELSE 0)
             = SumOver(XfrsDone)' + (IF mem'[wobj'].cnt # 0 THEN 1 ELSE 0)
    BY <2>1, <2>5, <2>6
  <2> QED BY <2>1, <2>4, <2>8 DEF Balance
<1>6. CASE WTest
  <2> DEFINE c == mem[wobj].cnt
  <2>1. /\ wpc = "test" /\ wpc' # "test" /\ UNCHANGED <<rcount, rpc, mem, wobj, sem>>
        /\ wcount' = IF c = 0 THEN wcount
                     ELSE [bytes |-> wcount.bytes + c, xfrs |-> wcount.xfrs + 1]
    BY <1>6 DEF WTest, shmVars, semVars, readerVars
  <2>2. UNCHANGED <<Unread, Uncounted, BytesRead, XfrsDone>>
    BY <2>1 DEF BytesRead, XfrsDone, Unread, Uncounted
  <2>3. wcount.bytes \in Int /\ wcount.xfrs \in Int
    BY DEF IInv, TypeOK, Counter
  <2>4. /\ wcount'.bytes = wcount.bytes + (IF c = 0 THEN 0 ELSE c)
        /\ wcount'.xfrs = wcount.xfrs + (IF c # 0 THEN 1 ELSE 0)
    BY <2>1, <2>3
  <2>5. SumOver(BytesRead)' = SumOver(BytesRead) /\ SumOver(XfrsDone)' = SumOver(XfrsDone)
    BY <2>2
  <2>6. /\ wcount.bytes + c = SumOver(BytesRead) + (IF Unread THEN c ELSE 0)
        /\ wcount.xfrs + (IF c # 0 THEN 1 ELSE 0)
             = SumOver(XfrsDone) + (IF Uncounted /\ c # 0 THEN 1 ELSE 0)
    BY <2>1 DEF Balance
  <2>7. c \in Int
    <3>1. wobj \in Objects
      BY <1>6 DEF WTest, IInv, TypeOK, Attachments, Objects
    <3> QED BY <3>1 DEF IInv, TypeOK, Segment
  <2>8. /\ wcount'.bytes + 0 = SumOver(BytesRead) + (IF Unread THEN c ELSE 0)
        /\ wcount'.xfrs + 0 = SumOver(XfrsDone) + (IF Uncounted /\ c # 0 THEN 1 ELSE 0)
    <3> HIDE DEF c
    <3> QED BY <2>3, <2>4, <2>6, <2>7
  <2> QED BY <2>1, <2>2, <2>5, <2>8 DEF Balance
<1> QED BY <1>2, <1>3, <1>4, <1>5, <1>6 DEF WriterStep

\* A step of a reader that counts nothing, and leaves the block as far as it was.
LEMMA SameBalance ==
    ASSUME Balance, UNCHANGED <<wcount, rcount, wpc, mem, wobj>>,
           Unread' <=> Unread,
           mem[wobj].cnt # 0 => (Uncounted' <=> Uncounted)
    PROVE  Balance'
<1>1. BytesRead' = BytesRead /\ XfrsDone' = XfrsDone
  BY DEF BytesRead, XfrsDone
<1>2. SumOver(BytesRead)' = SumOver(BytesRead) /\ SumOver(XfrsDone)' = SumOver(XfrsDone)
  BY <1>1
<1>3. (IF Unread THEN mem[wobj].cnt ELSE 0)' = IF Unread THEN mem[wobj].cnt ELSE 0
  OBVIOUS
<1>4. (IF Uncounted /\ mem[wobj].cnt # 0 THEN 1 ELSE 0)'
        = IF Uncounted /\ mem[wobj].cnt # 0 THEN 1 ELSE 0
  OBVIOUS
<1> QED BY <1>2, <1>3, <1>4 DEF Balance

\* A reader that holds the token is the only one the block depends on.
LEMMA HolderDecides ==
    ASSUME IInv, ~overlap, NEW r \in Readers, Holding(r)
    PROVE  /\ Unread <=> rpc[r] = "test"
           /\ Uncounted <=> rpc[r] \in {"test", "write", "release"}
<1>1. sem.READ_SEM = 0 /\ \A s \in Readers : Holding(s) => s = r
  BY HolderFacts
<1>2. \A s \in Readers : rpc[s] \in {"test", "write", "release"} => s = r
  BY <1>1 DEF Holding
<1>3. ~(sem.READ_SEM > 0)
  BY <1>1
<1> QED BY <1>2, <1>3 DEF Unread, Uncounted

\* A reader adds up the bytes when it looks at the block, and counts the transfer
\* when it has returned the token.
LEMMA ReaderBalance ==
    ASSUME IInv, RInv, Balance, run =< 1, ~overlap, ~TokenGone', wpc # "killed", NEW r \in Readers,
           RSemGet(r) \/ ReaderStep(r) \/ RDies(r) \/ RKilled(r)
    PROVE  Balance'
<1>1. Tokens /\ sem \in SemSet /\ rpc \in [Readers -> ReaderPC] /\ rcount \in [Readers -> Counter]
  BY DEF IInv, TypeOK
<1>2. CASE RSemGet(r) \/ RShmOpen(r) \/ RSetGone(r) \/ (RKilled(r) /\ ~Holding(r))
  <2>1. /\ UNCHANGED <<wcount, rcount, wpc, mem, wobj, sem>>
        /\ \A q \in Readers : q # r => rpc'[q] = rpc[q]
        /\ rpc[r] \in {"off", "shm_open", "reserve"}
        /\ rpc'[r] \in {"failed", "shm_open", "reserve", "killed"}
    BY <1>1, <1>2 DEF RSemGet, RShmOpen, RSetGone, RKilled, semVars, shmVars, writerVars
  <2>2. (Unread' <=> Unread) /\ (Uncounted' <=> Uncounted)
    BY <2>1 DEF Unread, Uncounted
  <2> QED BY <2>1, <2>2, SameBalance
<1>3. CASE RReserve(r)
  <2>1. /\ UNCHANGED <<wcount, rcount, wpc, mem, wobj>>
        /\ sem.READ_SEM > 0 /\ rpc'[r] = "test"
    BY <1>1, <1>3 DEF RReserve, shmVars, writerVars
  <2>2. Unread /\ Unread' /\ Uncounted /\ Uncounted'
    BY <2>1 DEF Unread, Uncounted
  <2> QED BY <2>1, <2>2, SameBalance
<1>4. ASSUME Holding(r)
      PROVE  /\ sem.READ_SEM = 0 /\ sem.id = rsem[r] /\ robj[r] = wobj /\ wobj \in Objects
             /\ wpc \in Transfer /\ sem.WRITE_SEM = 0 /\ mem[wobj].cnt \in Int
             /\ \A q \in Readers : q # r => ~Holding(q)
  <2>1. /\ sem.READ_SEM = 0 /\ ~ReadersOut /\ sem.id = rsem[r] /\ robj[r] = wobj /\ wobj \in Objects
        /\ wpc \in Transfer => sem.WRITE_SEM = 0
        /\ \A q \in Readers : Holding(q) => q = r
    BY <1>4, HolderFacts
  <2>2. ~crashed
    BY DEF RInv, FirstRun
  <2>3. wpc \in Transfer
    BY <2>1, <2>2 DEF ReadersOut, Transfer, IInv, TypeOK, WriterPC, Idle
  <2>4. mem[wobj].cnt \in Int
    BY <2>1 DEF IInv, TypeOK, Segment
  <2> QED BY <2>1, <2>3, <2>4
<1>5. CASE RTest(r)
  <2> DEFINE c == mem[wobj].cnt
  <2>1. Holding(r) /\ rpc[r] = "test"
    BY <1>5 DEF RTest, Holding
  <2>2. /\ UNCHANGED <<wcount, wpc, mem, wobj, sem>>
        /\ c = 0 => rpc' = [rpc EXCEPT ![r] = "finish"] /\ rcount' = rcount
        /\ c # 0 => /\ rpc' = [rpc EXCEPT ![r] = "write"]
                    /\ rcount' = [rcount EXCEPT ![r].bytes = @ + c]
    BY <1>4, <1>5, <2>1 DEF RTest, semVars, shmVars, writerVars
  <2>3. Unread /\ Uncounted
    BY <2>1 DEF Unread, Uncounted
  <2>4. ~Unread' /\ (Uncounted' <=> c # 0)
    <3>1. \A q \in Readers : q # r => rpc'[q] = rpc[q] /\ rpc[q] \notin {"test", "write", "release"}
      BY <1>1, <1>4, <2>1, <2>2 DEF Holding
    <3>2. rpc'[r] = (IF c = 0 THEN "finish" ELSE "write")
      BY <1>1, <2>2
    <3>3. ~(sem'.READ_SEM > 0)
      BY <1>4, <2>1, <2>2
    <3> QED BY <3>1, <3>2, <3>3 DEF Unread, Uncounted
  <2>5. XfrsDone' = XfrsDone
    BY <1>1, <2>2 DEF XfrsDone, Counter
  <2>6. SumOver(BytesRead)' = SumOver(BytesRead) + c
    <3>1. BytesRead'[r] = BytesRead[r] + c /\ \A q \in Readers : q # r => BytesRead'[q] = BytesRead[q]
      <4>1. BytesRead[r] \in Int /\ c \in Int
        BY <1>4, <2>1, SumsInt
      <4>2. CASE c = 0
        BY <2>2, <4>1, <4>2 DEF BytesRead
      <4>3. CASE c # 0
        BY <1>1, <2>2, <4>3 DEF BytesRead, Counter
      <4> QED BY <4>2, <4>3
    <3>2. BytesRead \in [Readers -> Int] /\ BytesRead[r] \in Int /\ c \in Int /\ SumOver(BytesRead) \in Int
      BY <1>4, <2>1, SumsInt
    <3>3. BytesRead' \in [Readers -> Int]
      <4>1. DOMAIN BytesRead' = Readers /\ BytesRead' = [q \in Readers |-> BytesRead'[q]]
        BY DEF BytesRead
      <4>2. \A q \in Readers : BytesRead'[q] \in Int
        BY <3>1, <3>2
      <4> QED BY <4>1, <4>2
    <3>4. SumOver(BytesRead') = SumOver(BytesRead) + (BytesRead'[r] - BytesRead[r])
      BY <3>1, <3>2, <3>3, SumChange
    <3>5. BytesRead'[r] - BytesRead[r] = c
      BY <3>1, <3>2
    <3> QED BY <3>4, <3>5
  <2>7. wcount.bytes + (IF wpc = "test" THEN c ELSE 0) = SumOver(BytesRead) + c
    BY <2>3 DEF Balance
  <2>8. SumOver(BytesRead) + c = SumOver(BytesRead)' + 0
    BY <1>4, <2>1, <2>6, SumsInt
  <2>9. wcount'.bytes + (IF wpc' = "test" THEN mem'[wobj'].cnt ELSE 0)
          = SumOver(BytesRead)' + (IF Unread' THEN mem'[wobj'].cnt ELSE 0)
    BY <2>2, <2>4, <2>7, <2>8
  <2>10. wcount'.xfrs + (IF wpc' = "test" /\ mem'[wobj'].cnt # 0 THEN 1 ELSE 0)
          = SumOver(XfrsDone)' + (IF Uncounted' /\ mem'[wobj'].cnt # 0 THEN 1 ELSE 0)
    BY <2>2, <2>3, <2>4, <2>5 DEF Balance
  <2> QED BY <2>9, <2>10 DEF Balance
<1>6. CASE RWrite(r)
  <2>1. /\ UNCHANGED <<wcount, rcount, wpc, mem, wobj, sem>>
        /\ rpc[r] = "write" /\ rpc' = [rpc EXCEPT ![r] = "release"]
    BY <1>6 DEF RWrite, semVars, shmVars, writerVars
  <2>2. (Unread' <=> Unread) /\ (Uncounted' <=> Uncounted)
    BY <1>1, <2>1 DEF Unread, Uncounted
  <2> QED BY <2>1, <2>2, SameBalance
<1>7. CASE RRelease(r)
  <2>1. Holding(r) /\ rpc[r] = "release"
    BY <1>7 DEF RRelease, Holding
  <2>2. /\ UNCHANGED <<wcount, wpc, mem, wobj>> /\ sem'.READ_SEM = sem.READ_SEM
        /\ rpc' = [rpc EXCEPT ![r] = "reserve"]
        /\ rcount' = [rcount EXCEPT ![r].xfrs = @ + 1]
    BY <1>1, <1>4, <1>7, <2>1 DEF RRelease, Post, shmVars, writerVars, SemSet
  <2>3. mem[wobj].cnt # 0
    BY <2>1 DEF RInv, FirstRun
  <2>4. ~Unread /\ Uncounted /\ ~Unread' /\ ~Uncounted'
    <3>1. \A q \in Readers : q # r => rpc'[q] = rpc[q] /\ rpc[q] \notin {"test", "write", "release"}
      BY <1>1, <1>4, <2>1, <2>2 DEF Holding
    <3>2. rpc'[r] = "reserve"
      BY <1>1, <2>2
    <3>3. ~(sem'.READ_SEM > 0) /\ ~(sem.READ_SEM > 0)
      BY <1>4, <2>1, <2>2
    <3> QED BY <2>1, <3>1, <3>2, <3>3 DEF Unread, Uncounted
  <2>5. BytesRead' = BytesRead
    BY <1>1, <2>2 DEF BytesRead, Counter
  <2>6. SumOver(XfrsDone)' = SumOver(XfrsDone) + 1
    <3>1. XfrsDone'[r] = XfrsDone[r] + 1 /\ \A q \in Readers : q # r => XfrsDone'[q] = XfrsDone[q]
      BY <1>1, <2>2 DEF XfrsDone, Counter
    <3>2. XfrsDone \in [Readers -> Int] /\ XfrsDone[r] \in Int /\ SumOver(XfrsDone) \in Int
      BY SumsInt
    <3>3. XfrsDone' \in [Readers -> Int]
      <4>1. XfrsDone' = [q \in Readers |-> XfrsDone'[q]]
        BY DEF XfrsDone
      <4>2. \A q \in Readers : XfrsDone'[q] \in Int
        BY <3>1, <3>2
      <4> QED BY <4>1, <4>2
    <3>4. SumOver(XfrsDone') = SumOver(XfrsDone) + (XfrsDone'[r] - XfrsDone[r])
      BY <3>1, <3>2, <3>3, SumChange
    <3>5. XfrsDone'[r] - XfrsDone[r] = 1
      BY <3>1, <3>2
    <3> QED BY <3>4, <3>5
  <2>7. wcount'.bytes + (IF wpc' = "test" THEN mem'[wobj'].cnt ELSE 0)
          = SumOver(BytesRead)' + (IF Unread' THEN mem'[wobj'].cnt ELSE 0)
    BY <2>2, <2>4, <2>5 DEF Balance
  <2>8. wcount.xfrs + (IF wpc = "test" THEN 1 ELSE 0) = SumOver(XfrsDone) + 1
    BY <2>3, <2>4 DEF Balance
  <2>9. SumOver(XfrsDone) + 1 = SumOver(XfrsDone)' + 0
    BY <2>6, SumsInt
  <2>10. wcount'.xfrs + (IF wpc' = "test" /\ mem'[wobj'].cnt # 0 THEN 1 ELSE 0)
          = SumOver(XfrsDone)' + (IF Uncounted' /\ mem'[wobj'].cnt # 0 THEN 1 ELSE 0)
    BY <2>2, <2>3, <2>4, <2>8, <2>9
  <2> QED BY <2>7, <2>10 DEF Balance
<1>8. CASE RFinish(r)
  <2>1. Holding(r) /\ rpc[r] = "finish"
    BY <1>8 DEF RFinish, Holding
  <2>2. /\ UNCHANGED <<wcount, rcount, wpc, mem, wobj>> /\ sem'.READ_SEM = sem.READ_SEM
        /\ \A q \in Readers : q # r => rpc'[q] = rpc[q]
        /\ rpc'[r] \in {"done", "failed"}
    BY <1>1, <1>8 DEF RFinish, Post, shmVars, writerVars, SemSet
  <2>3. (Unread' <=> Unread) /\ (Uncounted' <=> Uncounted)
    BY <2>1, <2>2 DEF Unread, Uncounted
  <2> QED BY <2>2, <2>3, SameBalance
<1>9. CASE RDies(r) \/ (RKilled(r) /\ Holding(r))
  <2>1. /\ Holding(r) /\ UNCHANGED <<sem, wpc>> /\ rpc' = [rpc EXCEPT ![r] = "died"]
    BY <1>9 DEF RDies, RKilled, Holding, semVars, writerVars
  <2>2. \A q \in Readers : ~Holding(q)'
    BY <1>1, <1>4, <2>1 DEF Holding
  <2>3. wpc' \in Transfer /\ sem'.WRITE_SEM = 0 /\ sem'.READ_SEM = 0
    BY <1>4, <2>1
  <2>4. TokenGone'
    BY <2>2, <2>3 DEF TokenGone, Live, NoneHolding
  <2> QED BY <2>4
<1> QED BY <1>2, <1>3, <1>5, <1>6, <1>7, <1>8, <1>9 DEF ReaderStep

\* A token that is gone does not come back, and the writer waits for ever.
LEMMA GoneStays ==
    ASSUME IInv, TokenGone, [Next]_vars, wpc' # "killed"
    PROVE  TokenGone'
<1>1. /\ wpc \in Transfer /\ sem.WRITE_SEM = 0 /\ sem.READ_SEM = 0 /\ \A r \in Readers : ~Holding(r)
      /\ sem \in SemSet /\ rpc \in [Readers -> ReaderPC]
  <2>1. sem.READ_SEM \in Nat
    BY DEF IInv, TypeOK, SemSet
  <2> QED BY <2>1 DEF TokenGone, Live, NoneHolding, IInv, TypeOK
<1>2. CASE WTest \/ UNCHANGED vars
  <2>1. wpc' \in Transfer /\ sem' = sem /\ rpc' = rpc
    BY <1>1, <1>2 DEF WTest, vars, semVars, readerVars, Transfer
  <2> QED BY <1>1, <2>1 DEF TokenGone, Live, NoneHolding, Holding
<1>3. CASE \E r \in Readers : RSemGet(r) \/ ReaderStep(r) \/ RDies(r) \/ RKilled(r)
  <2>1. PICK r \in Readers : RSemGet(r) \/ ReaderStep(r) \/ RDies(r) \/ RKilled(r)
    BY <1>3
  <2>2. RSemGet(r) \/ RShmOpen(r) \/ RSetGone(r) \/ RKilled(r)
    BY <1>1, <2>1 DEF ReaderStep, Holding, RReserve, RTest, RWrite, RRelease, RFinish, RDies
  <2>3. /\ UNCHANGED <<sem, wpc>>
        /\ \A q \in Readers : rpc'[q] = rpc[q] \/ rpc'[q] \in {"failed", "shm_open", "reserve", "killed"}
    BY <1>1, <2>2 DEF RSemGet, RShmOpen, RSetGone, RKilled, semVars, writerVars
  <2> QED BY <1>1, <2>3 DEF TokenGone, Live, NoneHolding, Holding
<1>4. WTest \/ UNCHANGED vars \/ \E r \in Readers : RSemGet(r) \/ ReaderStep(r) \/ RDies(r) \/ RKilled(r)
  BY <1>1 DEF Next, WriterStep, Transfer, Idle, SemGet, InitSemAvailable, InitSemInUse, ShmOpen, Ftruncate,
     Mmap, WReserve, ReadBlock, ReadEof, ReadError, WRelease, RemoveSem, ShmUnlink, WriterFails, WKilled
<1> QED BY <1>2, <1>3, <1>4

\* Until the first run fails or is killed, or a reader takes the token with it,
\* the reports differ by the block under way and by nothing else.
LEMMA BalancedStep == IInv /\ RInv /\ [Next]_vars => Balanced'
<1> SUFFICES ASSUME IInv, RInv, [Next]_vars, run' =< 1, wpc' \notin {"killed", "failed"}, ~TokenGone'
             PROVE  Balance'
  BY DEF Balanced
<1>1. run \in Nat /\ (run' = run \/ (SemGet /\ run' = run + 1))
  <2>1. run \in Nat
    BY ConstAssumption DEF IInv, TypeOK
  <2>2. SemGet \/ run' = run
    BY DEF Next, WriterStep, ReaderStep, vars, writerVars,
       InitSemAvailable, InitSemInUse, ShmOpen, Ftruncate, Mmap, WReserve, ReadBlock,
       ReadEof, ReadError, WRelease, WTest, RemoveSem, ShmUnlink, WriterFails, WKilled,
       RSemGet, RShmOpen, RReserve, RSetGone, RTest, RWrite, RRelease, RFinish, RDies, RKilled
  <2> QED BY <2>1, <2>2 DEF SemGet
<1>2. run =< 1 /\ ~TokenGone
  BY <1>1, GoneStays
<1>3. ~overlap /\ wpc \notin {"killed", "failed"}
  <2>1. ~overlap
    BY <1>2 DEF RInv, FirstRun
  <2>2. CASE SemGet
    <3>1. run = 0
      BY <1>1, <2>2 DEF SemGet
    <3> QED BY <1>2, <2>1, <3>1 DEF RInv, FirstRun
  <2>3. CASE ~SemGet
    BY <2>1, <2>3 DEF Next, WriterStep, ReaderStep, vars, writerVars,
       InitSemAvailable, InitSemInUse, ShmOpen, Ftruncate, Mmap, WReserve, ReadBlock,
       ReadEof, ReadError, WRelease, WTest, RemoveSem, ShmUnlink, WriterFails, WKilled, Idle,
       RSemGet, RShmOpen, RReserve, RSetGone, RTest, RWrite, RRelease, RFinish, RDies, RKilled
  <2> QED BY <2>2, <2>3
<1>4. ~crashed /\ Balance
  BY <1>2, <1>3 DEF RInv, FirstRun, Balanced
<1>5. CASE SemGet \/ WriterStep
  BY <1>2, <1>3, <1>4, <1>5, WriterBalance
<1>6. CASE \E r \in Readers : RSemGet(r) \/ ReaderStep(r) \/ RDies(r) \/ RKilled(r)
  BY <1>2, <1>3, <1>4, <1>6, ReaderBalance
<1>7. CASE UNCHANGED vars
  BY <1>4, <1>7, SameBalance DEF vars, Unread, Uncounted
<1> QED BY <1>5, <1>6, <1>7 DEF Next, ReadError, WriterFails, WKilled

\* At the end of the first run what the writer reports to have sent is the sum of
\* what the readers report to have received, in bytes and in transfers, whichever
\* readers shared the work, also when some of them have failed or been killed.
THEOREM Reports == Spec => []ReportsAgree
<1>1. IInv /\ RInv => ReportsAgree
  <2> SUFFICES ASSUME IInv, RInv, wpc = "done", run = 1
               PROVE  /\ wcount.bytes = SumOver(BytesRead)
                      /\ wcount.xfrs = SumOver(XfrsDone)
    BY DEF ReportsAgree, BytesRead, XfrsDone
  <2>1. Balance /\ ~overlap
    BY DEF RInv, FirstRun, Balanced, TokenGone, Transfer
  <2>2. ~Live
    BY <2>1 DEF IInv, Tokens, ReadersOut
  <2>3. ~Unread /\ ~Uncounted
    BY <2>2 DEF Live, NoneHolding, Holding, Unread, Uncounted
  <2>4. /\ wcount.bytes \in Int /\ wcount.xfrs \in Int
        /\ SumOver(BytesRead) \in Int /\ SumOver(XfrsDone) \in Int
    BY SumsInt DEF IInv, TypeOK, Counter
  <2>5. /\ wcount.bytes + 0 = SumOver(BytesRead) + 0
        /\ wcount.xfrs + 0 = SumOver(XfrsDone) + 0
    BY <2>1, <2>3 DEF Balance
  <2> QED BY <2>4, <2>5
<1>2. Init => RInv
  BY InitRInv
<1>3. IInv /\ RInv /\ [Next]_vars => RInv'
  BY FirstRunStep, BalancedStep DEF RInv
<1> QED
  BY <1>1, <1>2, <1>3, Invariance, PTL DEF Spec
=============================================================================
