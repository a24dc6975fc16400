------------------------------ MODULE ShmXfer ------------------------------
(***************************************************************************)
(* HW9/54_1: writer.c copies standard input to any number of reader.c       *)
(* processes through one POSIX shared-memory object, block by block, and    *)
(* two System V semaphores: WRITE_SEM (the object may be filled) and        *)
(* READ_SEM (it may be drained).                                            *)
(*                                                                          *)
(* The semaphore set behind SEM_KEY and the object behind SHM_NAME outlive  *)
(* the processes, so both have an identity here: the number of the writer   *)
(* run that created them, 0 for none.  A reader keeps the identity it       *)
(* opened.  Names such as "reserve" are the call a process makes next.      *)
(***************************************************************************)
EXTENDS Integers, Sequences, FiniteSets, FiniteSetsExt

CONSTANTS Readers,     \* reader processes, each started at most once
          Data,        \* contents of the buffer
          NoData,      \* contents of a fresh object
          BUF_SIZE,    \* largest block
          MaxRuns,     \* bound: times the writer is started
          MaxBlocks    \* bound: blocks before end of file on stdin

ASSUME ConstAssumption ==
    /\ IsFiniteSet(Readers) /\ BUF_SIZE \in Nat \ {0}
    /\ MaxRuns \in Nat \ {0}
    /\ MaxBlocks \in Nat
    /\ NoData \notin Data

VARIABLES sem,      \* set behind SEM_KEY: id (0: none) and the two values
          shmName,  \* object behind SHM_NAME (0: none)
          mem,      \* struct shmseg of every object, and whether it has its size
          run,      \* number of the latest writer run
          wpc, wobj, wcount,        \* the writer: next call, mapping, report
          rpc, rsem, robj, rcount,  \* the readers: next call, set, mapping, report
          sent, drained, \* history: blocks read from stdin, written to stdout,
                         \* since the semaphores were last set
          crashed,       \* history: the writer was killed since then
          overlap        \* history: a reader of a killed run was still inside

semVars == <<sem>>
shmVars == <<shmName, mem>>
writerVars == <<run, wpc, wobj, wcount>>
readerVars == <<rpc, rsem, robj, rcount>>
faults == <<crashed, overlap>>
history == <<sent, drained, faults>>
vars == <<sem, shmName, mem, run, wpc, wobj, wcount,
          rpc, rsem, robj, rcount, sent, drained, crashed, overlap>>

Objects == 1..MaxRuns
SemSet == [id : 0..MaxRuns, WRITE_SEM : Nat, READ_SEM : Nat]
Segment == [sized : BOOLEAN, cnt : -1..BUF_SIZE, buf : Data \union {NoData}]
Counter == [bytes : Int, xfrs : Nat]
Zero == [bytes |-> 0, xfrs |-> 0]
Piece == [cnt : -1..BUF_SIZE, buf : Data \union {NoData}]
Block == [cnt : 1..BUF_SIZE, buf : Data]
BlockIn(o) == [cnt |-> mem[o].cnt, buf |-> mem[o].buf]

Init ==
    /\ sem = [id |-> 0, WRITE_SEM |-> 0, READ_SEM |-> 0]
    /\ shmName = 0
    /\ mem = [o \in Objects |-> [sized |-> FALSE, cnt |-> 0, buf |-> NoData]]
    /\ run = 0 /\ wpc = "off" /\ wobj = 0 /\ wcount = Zero
    /\ rpc = [r \in Readers |-> "off"]
    /\ rsem = [r \in Readers |-> 0]
    /\ robj = [r \in Readers |-> 0]
    /\ rcount = [r \in Readers |-> Zero]
    /\ sent = <<>> /\ drained = <<>>
    /\ crashed = FALSE /\ overlap = FALSE
-----------------------------------------------------------------------------
(* The writer: setting up *)

Idle == {"off", "failed", "done", "killed"}

\* Between its reserveSem and its releaseSem.
Holding(r) == rpc[r] \in {"test", "write", "release", "finish"}

\* Nothing resets the values of a set that an earlier run left behind.
SemGet ==
    /\ wpc \in Idle /\ run < MaxRuns
    /\ run' = run + 1
    /\ sem' = IF sem.id = 0
              THEN [id |-> run + 1, WRITE_SEM |-> 0, READ_SEM |-> 0]
              ELSE sem
    /\ wpc' = "initSemAvailable"
    /\ wcount' = Zero
    /\ UNCHANGED <<shmVars, wobj, readerVars, history>>

\* Mutant of InitSemAvailable: WRITE_SEM starts at 2.
InitSemAvailableTwo ==
    /\ wpc = "initSemAvailable"
    /\ sem' = [sem EXCEPT !.WRITE_SEM = 2]
    /\ wpc' = "initSemInUse"
    /\ UNCHANGED <<shmVars, run, wobj, wcount, readerVars, history>>

InitSemAvailable ==
    /\ wpc = "initSemAvailable"
    /\ sem' = [sem EXCEPT !.WRITE_SEM = 1]
    /\ wpc' = "initSemInUse"
    /\ UNCHANGED <<shmVars, run, wobj, wcount, readerVars, history>>

\* The token of a run that was killed has come back to the set that is set up
\* for the next one, or is still with a reader.
OldToken == sem.WRITE_SEM > 1 \/ \E r \in Readers : Holding(r)

\* Mutant of InitSemInUse: a set that exists keeps its READ_SEM.
InitSemInUseKept ==
    /\ wpc = "initSemInUse"
    /\ wpc' = "shm_open"
    /\ sent' = <<>> /\ drained' = <<>>
    /\ crashed' = FALSE /\ overlap' = (overlap \/ (crashed /\ OldToken))
    /\ UNCHANGED <<semVars, shmVars, run, wobj, wcount, readerVars>>

InitSemInUse ==
    /\ wpc = "initSemInUse"
    /\ sem' = [sem EXCEPT !.READ_SEM = 0]
    /\ wpc' = "shm_open"
    /\ sent' = <<>> /\ drained' = <<>>
    /\ crashed' = FALSE /\ overlap' = (overlap \/ (crashed /\ OldToken))
    /\ UNCHANGED <<shmVars, run, wobj, wcount, readerVars>>

ShmOpen ==
    /\ wpc = "shm_open"
    /\ shmName' = IF shmName = 0 THEN run ELSE shmName
    /\ wobj' = shmName'
    /\ wpc' = "ftruncate"
    /\ UNCHANGED <<semVars, mem, run, wcount, readerVars, history>>

\* ftruncate to the size the object already has keeps its contents.
Ftruncate ==
    /\ wpc = "ftruncate"
    /\ mem' = [mem EXCEPT ![wobj].sized = TRUE]
    /\ wpc' = "mmap"
    /\ UNCHANGED <<semVars, shmName, run, wobj, wcount, readerVars, history>>

Mmap ==
    /\ wpc = "mmap"
    /\ wpc' = "reserve"
    /\ UNCHANGED <<semVars, shmVars, run, wobj, wcount, readerVars, history>>
-----------------------------------------------------------------------------
(* The writer: transferring blocks *)

\* Mutant of WReserve: semop with IPC_NOWAIT, its result ignored.
WReserveNoWait ==
    /\ wpc \in {"reserve", "drain"}
    /\ sem' = [sem EXCEPT !.WRITE_SEM = @ - 1]
    /\ wpc' = IF wpc = "reserve" THEN "read" ELSE "rmid"
    /\ UNCHANGED <<shmVars, run, wobj, wcount, readerVars, history>>

\* reserveSem(semid, WRITE_SEM), before a block and again after the last one.
WReserve ==
    /\ wpc \in {"reserve", "drain"}
    /\ sem.WRITE_SEM > 0
    /\ sem' = [sem EXCEPT !.WRITE_SEM = @ - 1]
    /\ wpc' = IF wpc = "reserve" THEN "read" ELSE "rmid"
    /\ UNCHANGED <<shmVars, run, wobj, wcount, readerVars, history>>

ReadBlock ==
    /\ wpc = "read" /\ Len(sent) < MaxBlocks
    /\ \E b \in Block :
         /\ mem' = [mem EXCEPT ![wobj].cnt = b.cnt, ![wobj].buf = b.buf]
         /\ sent' = Append(sent, b)
    /\ wpc' = "release"
    /\ UNCHANGED <<semVars, shmName, run, wobj, wcount, readerVars, drained, faults>>

ReadEof ==
    /\ wpc = "read"
    /\ mem' = [mem EXCEPT ![wobj].cnt = 0]
    /\ wpc' = "release"
    /\ UNCHANGED <<semVars, shmName, run, wobj, wcount, readerVars, history>>

\* Mutant of ReadError: READ_SEM is released before cnt is tested.
ReadErrorAfterRelease ==
    /\ wpc = "read"
    /\ mem' = [mem EXCEPT ![wobj].cnt = -1]
    /\ sem' = [sem EXCEPT !.READ_SEM = @ + 1]
    /\ wpc' = "failed"
    /\ UNCHANGED <<shmName, run, wobj, wcount, readerVars, history>>

\* read() fails: the writer exits with WRITE_SEM still reserved.
ReadError ==
    /\ wpc = "read"
    /\ mem' = [mem EXCEPT ![wobj].cnt = -1]
    /\ wpc' = "failed"
    /\ UNCHANGED <<semVars, shmName, run, wobj, wcount, readerVars, history>>

WRelease ==
    /\ wpc = "release"
    /\ sem' = [sem EXCEPT !.READ_SEM = @ + 1]
    /\ wpc' = "test"
    /\ UNCHANGED <<shmVars, run, wobj, wcount, readerVars, history>>

\* Mutant of WTest: end of file is counted as a transfer.
WTestCountsEof ==
    /\ wpc = "test"
    /\ wpc' = IF mem[wobj].cnt = 0 THEN "drain" ELSE "reserve"
    /\ wcount' = [bytes |-> wcount.bytes + mem[wobj].cnt,
                  xfrs |-> wcount.xfrs + 1]
    /\ UNCHANGED <<semVars, shmVars, run, wobj, readerVars, history>>

\* The writer looks at cnt again, and adds it up, after it gave the object away.
WTest ==
    /\ wpc = "test"
    /\ IF mem[wobj].cnt = 0
       THEN wpc' = "drain" /\ wcount' = wcount
       ELSE /\ wpc' = "reserve"
            /\ wcount' = [bytes |-> wcount.bytes + mem[wobj].cnt,
                          xfrs |-> wcount.xfrs + 1]
    /\ UNCHANGED <<semVars, shmVars, run, wobj, readerVars, history>>
-----------------------------------------------------------------------------
(* The writer: tearing down, and failing on the way *)

RemoveSem ==
    /\ wpc = "rmid"
    /\ sem' = [id |-> 0, WRITE_SEM |-> 0, READ_SEM |-> 0]
    /\ wpc' = "shm_unlink"
    /\ UNCHANGED <<shmVars, run, wobj, wcount, readerVars, history>>

ShmUnlink ==
    /\ wpc = "shm_unlink"
    /\ shmName' = 0
    /\ wpc' = "done"
    /\ UNCHANGED <<semVars, mem, run, wobj, wcount, readerVars, history>>

\* A call that sets up or tears down fails: perror, exit(1), nothing undone.
WriterFails ==
    /\ wpc \in {"initSemAvailable", "initSemInUse", "shm_open", "ftruncate",
                "mmap", "rmid", "shm_unlink"}
    /\ wpc' = "failed"
    /\ UNCHANGED <<semVars, shmVars, run, wobj, wcount, readerVars, history>>

\* A signal ends the writer, between any two calls.
WKilled ==
    /\ wpc \notin Idle
    /\ wpc' = "killed" /\ crashed' = TRUE
    /\ UNCHANGED <<semVars, shmVars, run, wobj, wcount, readerVars, sent, drained, overlap>>
-----------------------------------------------------------------------------
(* The readers *)

RSemGet(r) ==
    /\ rpc[r] = "off"
    /\ rsem' = [rsem EXCEPT ![r] = sem.id]
    /\ rpc' = [rpc EXCEPT ![r] = IF sem.id = 0 THEN "failed" ELSE "shm_open"]
    /\ UNCHANGED <<semVars, shmVars, writerVars, robj, rcount, history>>

\* shm_open and mmap; mapping an object that has no size yet succeeds.
RShmOpen(r) ==
    /\ rpc[r] = "shm_open"
    /\ robj' = [robj EXCEPT ![r] = shmName]
    /\ rpc' = [rpc EXCEPT ![r] = IF shmName = 0 THEN "failed" ELSE "reserve"]
    /\ UNCHANGED <<semVars, shmVars, writerVars, rsem, rcount, history>>

RReserve(r) ==
    /\ rpc[r] = "reserve"
    /\ sem.id = rsem[r] /\ sem.READ_SEM > 0
    /\ sem' = [sem EXCEPT !.READ_SEM = @ - 1]
    /\ rpc' = [rpc EXCEPT ![r] = "test"]
    /\ UNCHANGED <<shmVars, writerVars, rsem, robj, rcount, history>>

\* The set was removed while, or before, the reader waits: EIDRM or EINVAL.
RSetGone(r) ==
    /\ rpc[r] = "reserve"
    /\ sem.id # rsem[r]
    /\ rpc' = [rpc EXCEPT ![r] = "failed"]
    /\ UNCHANGED <<semVars, shmVars, writerVars, rsem, robj, rcount, history>>

RTest(r) ==
    /\ rpc[r] = "test"
    /\ LET n == mem[robj[r]].cnt IN
         IF n = 0
         THEN /\ rpc' = [rpc EXCEPT ![r] = "finish"]
              /\ rcount' = rcount
         ELSE /\ rpc' = [rpc EXCEPT ![r] = "write"]
              /\ rcount' = [rcount EXCEPT ![r].bytes = @ + n]
    /\ UNCHANGED <<semVars, shmVars, writerVars, rsem, robj, history>>

\* A count of 0 or -1, which only a reader of a killed run can find here, writes
\* nothing and is what write() returns.
RWrite(r) ==
    /\ rpc[r] = "write"
    /\ drained' = IF mem[robj[r]].cnt > 0 THEN Append(drained, BlockIn(robj[r])) ELSE drained
    /\ rpc' = [rpc EXCEPT ![r] = "release"]
    /\ UNCHANGED <<semVars, shmVars, writerVars, rsem, robj, rcount, sent, faults>>

\* semop(+1) on WRITE_SEM of the set with this identity, if it still exists.
Post(id) == IF sem.id = id THEN [sem EXCEPT !.WRITE_SEM = @ + 1] ELSE sem

RRelease(r) ==
    /\ rpc[r] = "release"
    /\ sem' = Post(rsem[r])
    /\ IF sem.id = rsem[r]
       THEN /\ rpc' = [rpc EXCEPT ![r] = "reserve"]
            /\ rcount' = [rcount EXCEPT ![r].xfrs = @ + 1]
       ELSE /\ rpc' = [rpc EXCEPT ![r] = "failed"]
            /\ rcount' = rcount
    /\ UNCHANGED <<shmVars, writerVars, rsem, robj, history>>

\* Mutant of RFinish: the last releaseSem is missing.
RFinishNoRelease(r) ==
    /\ rpc[r] = "finish"
    /\ rpc' = [rpc EXCEPT ![r] = "done"]
    /\ UNCHANGED <<semVars, shmVars, writerVars, rsem, robj, rcount, history>>

\* munmap, then the last releaseSem: the writer may tear down.
RFinish(r) ==
    /\ rpc[r] = "finish"
    /\ sem' = Post(rsem[r])
    /\ rpc' = [rpc EXCEPT ![r] = IF sem.id = rsem[r] THEN "done" ELSE "failed"]
    /\ UNCHANGED <<shmVars, writerVars, rsem, robj, rcount, history>>

\* write() or munmap() fails: the reader exits and never posts WRITE_SEM.
RDies(r) ==
    /\ rpc[r] \in {"write", "finish"}
    /\ rpc' = [rpc EXCEPT ![r] = "died"]
    /\ UNCHANGED <<semVars, shmVars, writerVars, rsem, robj, rcount, history>>

\* A signal ends the reader; "died": its token is gone with it.
RKilled(r) ==
    /\ rpc[r] \in {"shm_open", "reserve"} \/ Holding(r)
    /\ rpc' = [rpc EXCEPT ![r] = IF Holding(r) THEN "died" ELSE "killed"]
    /\ UNCHANGED <<semVars, shmVars, writerVars, rsem, robj, rcount, history>>
-----------------------------------------------------------------------------
WriterStep ==
    \/ InitSemAvailable \/ InitSemInUse \/ ShmOpen \/ Ftruncate \/ Mmap
    \/ WReserve \/ ReadBlock \/ ReadEof \/ WRelease \/ WTest
    \/ RemoveSem \/ ShmUnlink

ReaderStep(r) ==
    \/ RShmOpen(r) \/ RReserve(r) \/ RSetGone(r) \/ RTest(r)
    \/ RWrite(r) \/ RRelease(r) \/ RFinish(r)

Next ==
    \/ SemGet \/ WriterStep \/ ReadError \/ WriterFails \/ WKilled
    \/ \E r \in Readers : RSemGet(r) \/ ReaderStep(r) \/ RDies(r) \/ RKilled(r)

Spec == Init /\ [][Next]_vars

\* A process that has been started keeps running; nobody has to start or to kill
\* one, and no call has to fail.
FairSpec ==
    /\ Spec
    /\ WF_vars(WriterStep)
    /\ \A r \in Readers : WF_vars(ReaderStep(r))
-----------------------------------------------------------------------------
(* Properties *)

WriterPC == Idle \union
    {"initSemAvailable", "initSemInUse", "shm_open", "ftruncate", "mmap",
     "reserve", "read", "release", "test", "drain", "rmid", "shm_unlink"}
ReaderPC == {"off", "shm_open", "reserve", "test", "write", "release",
             "finish", "failed", "died", "killed", "done"}

\* Every variable keeps its type; the semaphores never go below zero.
TypeOK ==
    /\ sem \in SemSet
    /\ shmName \in 0..MaxRuns
    /\ mem \in [Objects -> Segment]
    /\ run \in 0..MaxRuns /\ wpc \in WriterPC /\ wobj \in 0..MaxRuns
    /\ wcount \in Counter
    /\ rpc \in [Readers -> ReaderPC]
    /\ rsem \in [Readers -> 0..MaxRuns]
    /\ robj \in [Readers -> 0..MaxRuns]
    /\ rcount \in [Readers -> Counter]
    /\ sent \in Seq(Block) /\ drained \in Seq(Piece)
    /\ crashed \in BOOLEAN /\ overlap \in BOOLEAN

\* The object a writer run fills is used by one process at a time: while the
\* writer reads into it (writer.c 138-149) no reader is between its reserveSem
\* and releaseSem (reader.c 120-133), and no two readers are, over any number of
\* writer runs that end, fail or are killed, and of readers that start at any
\* moment, fail or are killed.  The one exception: a reader of a killed run that
\* has the token while the next run sets the semaphores (111-118), or takes it
\* from READ_SEM or returns it between the two calls.
BufferExclusive ==
    ~overlap =>
        /\ wpc \in {"read", "release"} => \A r \in Readers : ~Holding(r)
        /\ \A r, s \in Readers : Holding(r) /\ Holding(s) => r = s

\* A reader that may look at the object has mapped the very object the writer
\* fills, that object has its size (no SIGBUS even for a reader that mapped it
\* before ftruncate), and it never sees the -1 of a failed read(): also when the
\* writer has been killed and started again, with the exception above.
ReadersSeeLiveBlock ==
    ~overlap => \A r \in Readers :
        rpc[r] \in {"test", "write"} =>
            /\ robj[r] = wobj /\ wobj # 0
            /\ mem[wobj].sized
            /\ mem[wobj].cnt # -1

\* Whatever the interleaving and however many readers share the work, stdout
\* gets the blocks of stdin in order, none lost, none twice: all that has been
\* read has been written, except for the one block the object then holds, and
\* when the writer is done, all of it.
InOrderDelivery ==
    ~overlap =>
        /\ sent = drained \/ sent = Append(drained, BlockIn(wobj))
        /\ wpc = "done" => sent = drained

SumOver(f) == MapThenSumSet(LAMBDA r : f[r], Readers)

\* The report of the writer ("Sent %d bytes (%d xfrs)", writer.c 177), which
\* it adds up after giving each block away, is the sum of the readers' reports
\* ("Received ...", reader.c 149) when the first run is over.
ReportsAgree ==
    wpc = "done" /\ run = 1 =>
        /\ wcount.bytes = SumOver([r \in Readers |-> rcount[r].bytes])
        /\ wcount.xfrs = SumOver([r \in Readers |-> rcount[r].xfrs])

\* A writer that transfers while some reader is attached to its set gets to the
\* end (or fails to read, or is killed), unless a reader dies or is killed:
\* between reserveSem and releaseSem it takes WRITE_SEM with it.  When the writer
\* is done, every reader that still waits for a block is woken: the reader that
\* drained end of file is not the only one to leave.
TransferCompletes ==
    /\ (wpc = "reserve" /\ \E r \in Readers : rpc[r] = "reserve" /\ rsem[r] = sem.id)
           ~> (wpc \in Idle \/ \E r \in Readers : rpc[r] \in {"died", "killed"})
    /\ \A r \in Readers :
         wpc = "done" /\ rpc[r] \notin {"off", "died", "killed"}
             ~> rpc[r] \in {"done", "failed", "died", "killed"}

\* The shared-memory transfer implements a channel of one item, which is opened
\* again when the next run sets the semaphores, and which a kill of the writer
\* may have left with its item.
Channel == INSTANCE OneSlotChannel
             WITH put <- IF overlap THEN <<>> ELSE sent,
                  got <- IF overlap THEN <<>> ELSE drained,
                  up <- ~crashed, Item <- Block
ImplementsChannel == Channel!Spec
=============================================================================
