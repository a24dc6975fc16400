# A verification project for NSYSU_Network_System_Programming

The repository is a set of system programs for a course: each `HWn` directory
holds one or several small C programs around one facility of Unix (shared
memory, message queues, FIFOs, signals, sockets, inotify, process control).
Almost every one is a *concurrent* program, with processes that meet in the
kernel, and that is where the mistakes are. This directory holds TLA+ models of
them, TLC configurations that check the models on small instances, and proofs
for TLAPS.

Paths are relative to `src/`. A definition that stands for code has an entry in
`PROJECT.json` under `map`, with the file and the lines it models; a definition
called a *mutant* is a plausible bug in the definition that follows it, and
shows that the properties can tell.

## 1. Inventory

| Component | State it keeps | Operations | Interaction | What is hard | What makes it correct |
|---|---|---|---|---|---|
| **HW9/54_1** shared-memory transfer (`writer.c`, `reader.c`) | a semaphore set with WRITE_SEM and READ_SEM; one shared object: `cnt`, `buf`; counters of each process | create and initialise, reserve, fill, release; reserve, test, drain, release; tear down | shared memory guarded by two semaphores; set and object outlive the processes | several readers at any time, failing calls, kills, a set left behind | exclusive use of the object, blocks in order, nobody left waiting, reports that agree |
| **HW8/46_2** sequence numbers over a System V queue (`server.c`, `client.c`) | the queue; `seq_num`; each client's request | msgget, msgrcv by type, msgsnd, SIGINT handler with IPC_RMID | requests and responses share one bounded queue, selected by message type | queue full in both directions, dead clients, SIGINT anywhere, restart | unique numbers, each client its own answer, no deadlock with enough room, clean restart |
| **HW8/44_6** sequence numbers over FIFOs (`fifo_seqnum_*.c`) | server FIFO, a FIFO per client, `seqNum` | mkfifo, open (blocking or not), read, write, close | open of a FIFO is a rendezvous | client not there yet, client that never opens, kills, EOF, requests left to the next server | unique numbers, no client blocks the server, every request answered |
| **HW10** producer and consumers (`program.c`) | ring of slots, two shared counters, one pending SIGUSR1 per consumer | write and sigqueue; sigwaitinfo, compare, count; wait and report | signals as notification, shared memory as data | coalesced signals, overwritten slots, increments without a lock, one `wait()` for N children | loss only when lapped, order, counters that can be trusted, termination |
| **HW7/22_3**, `sig_speed_sigsuspend.c` signal ping-pong | loop counters, pending bits | kill; sigwaitinfo or sigsuspend | strict alternation by signals | one pending bit, getppid of an orphan | no signal lost, both finish |
| **HW9/52_3** POSIX message queue file server (`server.c`, `client.c`) | server queue, a queue per client, the file being sent | receive request, open, send chunks, end mark | bounded queues, server blocks on the client's | request abandoned after a failed open, a file that cannot be read to its end, full queue of a dead client, uninitialised chunk | each request ends, the server survives a client |
| **HW11** dictionary: `lookup5` on a table, stream servers (parts 1 and 2), datagram server (part 3) | table, connection, the record sent back and forth | binary search; send and receive of a record | fork per connection; datagrams | closed connection taken for an answer, lost datagrams, search bounds | an answer is the table's answer, the search ends and finds |
| **HW12** recursive inotify watcher (`19_1.c`) | linked list of watches, kernel event queue | nftw, add watch, remove on IN_IGNORED, read events | the file system changes while it is being watched | directory gone or made before the watch, refused calls, queue overflow, list surgery | list and kernel watches agree, the watcher survives |
| **HW3**, **HW5/part2** shells | child processes, standard descriptors | fork, exec, wait, background, redirection, pipeline | wait for a child among several; pipes that are inherited | wrong child reaped, pipeline half waited for, ends left open | at a prompt exactly the background commands are left; each stage has the two ends it should and no other; a pipeline ends |
| **HW6** pipe pair (`44_1.c`), `popen`/`pclose` (`44_2.c`), **HW5/part1** `pipe_ls.c` | pipe ends per process, `fd_array` of children | write, read; popen, pclose | end of file depends on who holds the write end | inherited pipe ends, children that die | pclose returns, what is shown is what was typed or written |
| **HW7/22_4** System V signal functions on `sigaction` | disposition and mask | sigset, sighold, sigrelse, sigignore, sigpause | signal delivery at any moment | masks and dispositions that are inherited, flags that are not initialised, a signal between two calls | SIGINT is held, released, ignored as the program says; the key it asks for ends it |
| **HW8/44_7** non-blocking FIFO opens and reads | flags | open, read, write | | | shows errno values, keeps no state |
| **HW1**, **HW2**, **HW9/49_1** file tools | buffers, offsets | copy, tee, tail, mmap copy | files | chunk boundaries in `tail` | output is the right part of the file |
| **HW4** process listings (`12_1.c` of a user, `12_2.c` tree of all, `12_3.c` by open file) | descriptors, a list of nodes read from /proc | scan, open, read, build the tree, print | /proc changes meanwhile | process gone between two calls, descriptors that are not closed, parents read at different moments | who is there all the time is listed, and why a listing ends early |
| **HW5/part1**, **part3** utilities, table conversion | none | | | | straight-line programs |
| TLPI files in HW7, HW8 | | | | | textbook helpers, unchanged |

Shared structure: no program of one directory calls one of another. What the
modules have in common is the kernel object between the processes, and what it
does to them: it outlives them, it has room for so much, it drops what is not
taken. Each module therefore has the kernel object as a variable of its own and
one action for each call that looks at it or changes it.

## 2. Modules and how they correspond to the code

A process has a variable with the call it makes next (`wpc`, `cpc`, ...), its
values named after that call; other variables have the names of the source where
it has one. Actions are named after the call or the function. A variable that no
process reads is a *history* variable and is marked so.

| Module | Code | State and actions |
|---|---|---|
| `ShmXfer` | HW9/54_1 `writer.c`, `reader.c` | `sem` is the set behind `SEM_KEY`, `shmName` the object behind `SHM_NAME`, `mem` its contents. Both objects have an identity (the run of the writer that made them), so that a reader that holds an old one can be told from one that holds the new one. Writer actions `SemGet` ... `ShmUnlink`, reader actions `R...`; `WriterFails`, `ReadError`, `RDies` are the `errExit` paths, `WKilled` and `RKilled` kills between any two calls. History: `crashed`, the writer was killed since the last setup; `overlap`, a run set the semaphores up while a token of a killed run was still with a reader or in `READ_SEM` |
| `OneSlotChannel` | what HW9/54_1 promises | a channel of one item that may crash and be reopened, implemented by `ShmXfer` with `put <- sent`, `got <- drained`, `up <- ~crashed` |
| `MsgQueueSeqnum` | HW8/46_2 | `queue` holds requests in order and responses by type, and has an identity; `Handler` is SIGINT anywhere after `sigaction`, `KilledEarly` before it |
| `FifoSeqnum` | HW8/44_6, server, client, misbehaving client | opening a FIFO is a rendezvous: a process that waits in `open` is at `openServer` (server) or `opening` (client), and the partner's open moves both. `serverFifo` is what is in the server's FIFO, which lives as long as some process has it open (`Kept`) and may pass to the next run of the server |
| `SeqnumService` | what both HW8 servers promise | consecutive intervals, one for each client, from 0 in each run |
| `ProdCons` | HW10/program.c | `slot` the ring, `counters` the two shared counters, `pending` the one SIGUSR1 a consumer may have pending; `cnt += 1` is a load (`CLoad`) and a store; `received` (history) who received which message |
| `SigPingPong` | HW7/22_3.c, `sig_speed_sigsuspend.c` | one pending bit per process, two loop counters; the specification is `PingPongSpec` |
| `MqFileServer` | HW9/52_3 | the queue of the server and one for each client, `fds` the descriptors, `zeroed` whether `server_res` still holds bytes from before |
| `BinaryLookup` | HW11 `lookup5.c` | one search over a table, as actions that `DictDatagram` takes as steps of its server: `Begin`, then `Hit`, `Narrow` or `Exhausted` for each iteration of the loop |
| `DictStream` | HW11 parts 1 and 2 | parent, one child for each connection, the clients; `inet` tells the two address families apart where they differ (what happens to a record sent to a closed connection) |
| `DictDatagram` | HW11 part 3 | extends `BinaryLookup`: the server searches its table step by step between `recvfrom` and `sendto`; a bounded socket buffer, one inbox for each client; `lost` records where a datagram went |
| `InotifyTree` | HW12/19_1.c | `fs` the tree, `wd` and `queue` the kernel's side, `list`, `stack`, `batch` the program's; `Mkdir`, `Rmdir`, `Move` are other processes |
| `TailBuffer` | HW2/hw2_tail.c | one search backwards through one file; the specification is `TailSpec` |
| `ProcScan` | HW4 | `born`, `ppid`, `uid`, `files` are the kernel's processes (`born` tells two with the same pid apart), `ForkProcess`, `EndProcess`, `CloseFile` what they do meanwhile; `rest` what `readdir` holds, `fds` the program's descriptors, `list_root` the nodes of 12_2. One action per system call on an entry; `next` is the call; the specification is `ScanSpec` |
| `FilePrograms` | which of HW2's and HW4's programs runs | composes `TailBuffer` and `ProcScan` |
| `Processes` | the kernel and other programs, as far as HW3, HW5/part2 and HW6 use them | `proc` every process with its next call, `fd` what each descriptor refers to, `pipe` what is in each pipe; fork, exec, exit, close and the commands that are started (`yes`, `cat`, `head`, `ls`) |
| `JobShell` | HW3 | extends `Processes`: `Fgets` takes a line and parses it, `DoBuiltin`, `RunCommand`, `Waitpid`, and `ChildExec` in the child |
| `PipeShell` | HW5/part2 | extends `JobShell`: a child redirects (`Redirect`), makes a pipe and forks for what follows the first `\|` (`SplitPipe`), and execs (`LeftExec`, `ExecWhole`); that process goes on in the same way (`RightRedirect`) |
| `PipePrograms` | HW6/44_1, 44_2, HW5/part1 `pipe_ls.c` | extends `PipeShell` with `Upper...`, `Popen...`/`Pclose`, `Ls...`; `held` is the program's buffer |
| `ProcessPrograms` | which of these programs runs | composes the four; `over` is history, the lines of which some process has ended; the specification is `ProcessSpec` |
| `SysVSignal` | HW7/22_4 | `mask`, `disp`, `pending` are the kernel's; `setting` is a `mySigset` between its two system calls; `Main` lists the calls of each of the five programs; the specification is `SysVSpec` |

`MCxxx` modules extend `xxx` for TLC and hold the constants a configuration
cannot write, `xxxProofs` modules extend `xxx` with its theorems;
`SignalProofs` holds those of the three programs that signal (`SigPingPong`,
`SysVSignal`, `ProdCons`), `FileSystemProofs` those of the programs that look at
files and directories (`InotifyTree`, and `TailBuffer` and `ProcScan` through
`FilePrograms`), `PipeProofs` those of the programs with FIFOs and pipes
(`FifoSeqnum`, `ProcessPrograms`). A set of related properties ends each module; its type
invariant is part of its first property.

Assumptions that the models make about what is outside `src/`:

* pids are not reused while anything still refers to them, except in `ProcScan`,
  where they are;
* /proc shows `self`, `thread-self` and then the processes by pid, in blocks; the
  lines of a status file that the programs look at are in the first 1024 bytes;
  zombies are left out, and so are user numbers of more than four digits, trees
  as deep or wide as the fixed buffers of 12_2, and a second descriptor of the
  same file in 12_3;
* a FIFO behaves as Linux documents it, and requests shorter than `PIPE_BUF`
  are written at once;
* `mq_send` and `mq_receive` on an open queue may block but do not fail;
* a record of HW11 travels as one piece on a stream, and a local UDP datagram is
  neither duplicated nor overtaken;
* one `read()` of inotify takes what fits into the program's buffer, which is all
  of the queue or at least ten events, and `nftw` visits as `InotifyTree` says;
* the commands a shell starts are those of `Processes`: one that writes for
  ever, one that stops reading early, filters, and one that does not exist; the
  terminal and files are read as empty, a chunk is written at once, and the `sh`
  between `popen` and its command is taken to be the command;
* words of a command line are shorter than the 100 bytes that HW5 copies them
  into, and its write of the terminating null pointer one past the end of
  `left_argv` hits nothing that is used;
* two writers of HW9/54_1, or two FIFO servers of HW8/44_6, do not run at the
  same time;
* `int` counters do not overflow: sequence numbers, bytes and transfers stay
  far below 2^31 in any run within the bounds, and the code does not check.

## 3. Runs

| Run | Instance | What it shows |
|---|---|---|
| `shm_xfer` | 2 readers, 2 writer runs, 2 blocks per run of one byte of two values; any call may fail, anybody may be killed | exclusion on the object, live blocks only and (through the refinement) order, all of them also over kills and restarts unless a run is set up over a token that is still out; agreement of the two reports, progress, release of waiting readers, refinement of `OneSlotChannel` |
| `msgqueue` | 3 clients asking for 0 or 2 numbers, 2 server runs, a queue of 5 units with requests of 2 and responses of 1 | own answers through dead clients and restarts; with `EnoughRoom`, which this queue meets exactly, nobody waits for ever; refinement of `SeqnumService`, which makes the numbers unique |
| `fifo` | 2 clients and a misbehaving one, 2 server runs on one FIFO, all may be killed | no unexplained end of file; no client stops the server; a client already in `open` is answered; refinement of `SeqnumService` |
| `prodcons` | 4 messages, 2 slots, 2 consumers | a message is lost only to a producer at least a ring ahead, order and no duplicates, two reported counts that are never too high, the end of the run once the last signal has arrived |
| `sig_pingpong` | 1 to 8 rounds | no signal lost or misdirected, both finish |
| `mq_file` | 2 clients, queues of 2 messages, 4 descriptors, 2 server runs; files shorter and longer than a queue, with and without NUL, two that cannot be read to their end and one missing | what a client has when it stops; stale bytes at most once a run; exactly when the server can be blocked by a client; who is answered |
| `dict_stream` | 2 clients with up to 3 words each, 1 child at most, a backlog of 1 connection (`BACKLOG = 0`), both families, children killed at any moment | a wrong answer only after a child died, in the Unix domain with the text that was printed before; nobody waits; children end with their clients |
| `dict_datagram` | 2 clients with 2 words each, a buffer of 1 datagram, 2 server runs, all sorted tables of up to 3 records with a limit on the search of 2 | right answers always, and words of the table found as long as the limit is enough for the table; a client waits for ever only for a lost datagram |
| `inotify_tree` | 2 names, 3 levels, 3 operations at any moment, a queue of 3 events; directories that cannot be read and calls that are refused, anywhere | the list covers watches and pending events, with the right paths as long as nothing is renamed; why the watcher exits; what it misses |
| `file_programs` | `tail` on all files of up to 9 bytes with a buffer of 3, `-n` 0 to 3; each of the /proc programs with up to 4 processes, 2 that start meanwhile, directory blocks of 3 entries, limits of 8 and 10 descriptors, any value of `status_fd` | the right lines as long as no newline begins a chunk and no chunks overlap (`RightWithoutOverlap`); what a listing shows of the processes that were there all the time, and why it fails (`ScanExplained`) |
| `process_programs` | each of the six programs; 4 processes, 3 pipes that hold one chunk, 2 lines for a shell out of 8 (HW3) and 12 (HW5), pipelines of up to 3 stages; commands that stop early or never; children that are killed or meet a failing call at any moment, those of the shells too | the children left at a prompt are the background commands (`ChildrenCounted`), what each stage is connected to, and that nobody else is (`WiredAsWritten`), that a pipeline ends when one of its processes has (`PipelinesEnd`), that `pclose` and the programs of HW6 end (`PipeProgramsEnd`) and what they show (`ShownRight`) |
| `sysv_signal` | the five programs, all inherited masks and dispositions, ^C and ^Z at any moment, any value of the flags that are not initialised | what a program announces about SIGINT is true (`SigintAsAnnounced`), the key it asks for ends it (`KeyEnds`) |

### Bounds

Two of a kind are enough for every race between equals here (no guard counts
processes beyond "some other one"), a third client is used where the third
matters: in `msgqueue` to fill the queue while one waits on each side, in `fifo`
for the client that misbehaves. Two runs of a server are the least in which
something left behind meets its successor. Queues and buffers are made smaller
than the work offered to them, so that full and empty both happen: 5 units
against 3 requests of 2, 2 messages against files of 2 to 4 chunks, 2 slots
against 4 messages, one datagram against two clients, 3 events against up to
three per operation and three operations, pipes of one chunk against programs that write several.
`dict_datagram` has tables on both sides of 2^(Limit-1) = 2. Three words are
the least in which a client of `dict_stream` can ask again after an answer was
taken for another. In
`process_programs` two lines are the least in which a child of the first meets
the wait of the second, and three stages the least in which a process between
two pipes could keep an end of a third. In `shm_xfer` blocks of one byte of two
values tell any two blocks apart; a restart after a kill needs two runs.
`tail` has files of up to three chunks, so that the last step back may be whole,
short or absent. Four processes are the least in which two that are neither
init nor the program change places in the tree; with 10 descriptors 12_2 just
gets through them, with 8 it does not. Counts that only grow are bounded by `MaxRuns`, `MaxBlocks`,
`MaxAsk`, `MaxOps`, each in the guard of the action that starts something new;
every bound is marked as such where it is declared. The proofs have no bounds
but those that are parameters.

Deadlock checking is off everywhere: every one of these programs may stop with
its work done, and some wait for a partner that never comes. What must not wait
is stated as a liveness property.

### Fairness

Weak fairness for each process that has been started, as a scheduler gives it:
one condition for the steps of each process, so that a process with an enabled
call makes it in the end. There is none for what comes from outside or need not
happen: starting a process, typing a word or a key, signals and kills, failing calls,
operations on the watched tree. (The shells' typing is part of the step that
reads it; their properties speak of lines that have been typed.) `FairSpec` of a
module without liveness
properties in its run is not used. No strong fairness is used, though the
kernel wakes semaphore and queue waiters in order: no property needs it.

## 4. Proofs

Checked by TLAPS for every value of the constants, from the named assumptions on
the constants (`ConstAssumption`, `TailAssumption`, ... of each module) and
nothing else.

* **`ShmXferProofs`**: `TypeCorrect`, `Exclusion`, `LiveBlocks`, `Delivery`,
  `Reports`, `Refinement`. None of the properties is inductive. `BufferExclusive` says
  nothing of a state where `READ_SEM` is 1 while a reader is inside, and from
  there one step breaks it. The invariant `IInv` is `TypeOK`, `Attachments` (a
  reader attached to the present set has mapped the present object, which has
  its size: this is why the order semaphores, object, size in the writer and
  semaphores, object in the reader matters) and, as long as no run was set up
  over a token that was still out (`~overlap`), `Tokens` (there is at most one
  token: in `WRITE_SEM`, in `READ_SEM`, with the writer, or with one reader, and
  nobody has one outside), `Contents` (where a count of 0 or -1 can be seen) and
  `Order` (where a block is that has been read and not written). Each conjunct
  is shown to be preserved by one lemma, with a case for each action;
  `Refinement` uses `IInv` to map every step to `Put`, `Get`, `Crash`, `Reopen`
  or a stutter. `Reports` needs the sum of what the readers have counted to keep
  up with the writer's count at every step; that a sum over a finite set changes
  by what one element changes is shown by taking the least size for which it
  would be false.
* **`SignalProofs`**, ping-pong: `PingPongTypeCorrect`, `SignalsArrive`. The
  invariant `Turn` lists the four situations of a round and the end with the
  relation of the two counters; the properties alone do not say that the other
  side waits, which is what makes the next step safe.
  System V functions: `Announced`, for every inherited mask and disposition.
  The invariant has a part for each program that announces something:
  `HoldInv` (SIGINT is in the mask from the first call on), `IgnoreInv` (it is
  ignored, or pending because it was blocked before) and `RelseInv` (a SIGINT
  that was raised while it was held is pending until it takes its action).
  Producer and consumers: `LossExplained`, `OrderKept`, `NoOverReport`, for any
  ring, number of messages and consumers. `Turns` and `Ordered` say that no
  consumer is signalled a message before its turn and signals come in order,
  `Written` that a message is in its slot before its first signal, and `Lapped`
  that what a consumer has yet to compare is still in its slot, or was
  overwritten by a message at least a turn of the ring later (for which lemma
  `Turn` does the arithmetic of `%`). That the two counters never show too much,
  though any number of increments may be lost or stored late, rests on what each
  consumer that is between its load and its store may yet store.
* **`DictDatagramProofs`**: first the search by itself, `TypeCorrect` (no index
  outside the table), `WindowKept` and `Correct`, for tables of any size, sorted
  with repetitions, and any limit (`LookupSpec`: any word after any other). A
  search that has found nothing is right only because every record with the word
  is still in the window (`WindowHolds`), and that is preserved because the table
  is sorted. Then `AnswersRight` and `SearchesRight`, the same search as the steps of
  the server between any clients. That the limit is enough for a table of
  `2^(Limit-1)` records is `Halved`, `(end-start-1) * 2^cnt =< numrec-1`: an
  iteration may keep one record more than the half, so the window less one is
  what is halved. The prover knows nothing of powers; `2^(n+1) = 2^n + 2^n` is
  shown by counting the subsets of `1..(n+1)` (`PowerDoubles`). `OnePlace`,
  `OnlyWhileWaiting` and `SameWord` say where the one datagram of a client is,
  who can have one, and that it bears the word the client waits for.
* **`MsgQueueSeqnumProofs`**: `OwnReplies` and `Refinement`, for any number of
  clients, any queue size and any number of runs. What is carried through a run:
  a request or response in the queue is the only one of a client that has opened
  this very queue and waits, or was killed waiting (`Messages`), and a client
  that is done has printed its own grant (`Replies`), and what the server has handed
  out ends at `seq_num`, or one grant above it between `msgsnd` and the addition
  (`Counted`).
* **`PipeProofs`**, FIFOs: `EofExplained` and `Refinement`. `HandedCounted` as
  `Counted` above; `Requests` says that a request is the only one of its client and nothing was
  granted for it, `Answers` that the run which closes a client's FIFO has left
  the answer there, and `ReadsExplained` that a client reads from a FIFO which
  holds its answer, or is still open for writing, or was opened by a run that is
  dead.
  Shells and pipes: `ChildrenRight`, `WhatIsShown` and
  `PipelinesWired`, for any number of processes, pipes, lines typed and any
  capacity, whatever the lines are. First
  what each call of the kernel keeps (`ForksKeeps`, `ExitsKeeps`, ...); then
  `Others`, that a step of another process leaves the program and its children
  to it, so that only the program's own steps change how many there are.
  `ChildrenAgree` is that count, at the prompt and in `waitpid`; `Lines` says
  that HW5's children belong to different lines and the foreground one to the
  latest, which is why waiting for a line's child is waiting for one process.
  For 44_1 `Exchange` says where the text is (first pipe, child, second pipe) and
  that the child, unless it dies, cannot end before it has passed the text on, as the only end for
  writing of the first pipe is 44_1's own; for `pipe_ls` `Writing` says what `ls`
  has written and has yet to write, and that its pipe has a reader until
  `pipe_ls` has read.
  `PipelinesWired` has two parts. `StagesWired` is about each process of a pipeline
  at each of its calls: `StageRight` says that the words it still has are what
  follows the bars of the stages in front of it (`Rest`) and what each of its
  descriptors is, `Wired` in addition that a line has one process of each stage, of which only the last may
  make another, and that a stage reads the pipe which the one in front of it
  writes, or is about to write. Neither follows from what has been exec'ed alone:
  between `fork` and the two `exec`s, both processes hold both ends.
  `OnlyNeighbours` is the safety core of `PipelinesEnd`: an end of file or a
  SIGPIPE depends on nobody else having the pipe. `Owned` says that a pipe is known
  by its line and the stage that writes it (`Writer`), in whichever process and
  descriptor its ends are; a new pipe is one of which nobody has an end.
  The prover knows nothing of what `SelectSeq` returns, so that `LinesAssumption`
  is about the parsed lines: their words are strings. TLC evaluates it.
* **`DictStreamProofs`**: `WrongExplained`, for any number of clients, any words,
  table, backlog and limit of processes, in both address families. `Record` says
  where the one record of a client is and that it bears the client's word until
  it is answered, `Connection` which connections have a child, `Waits` that a
  connection in the backlog is open and has none, `WrongOnce` what is left of a
  client that was told a wrong answer, `Told` that the text it would print next
  without an answer is the one it printed last. Children die at any moment. One lemma for each action; a step that is
  not about a client leaves all of it alone (`Others`).
* **`MqFileServerProofs`**: `TypeCorrect`, `FilesRight`, `StaleOnce`, for any
  clients, files, queue length and server runs. `Requests` says that a request
  is in one place only, so that all messages of a client come from one run,
  `Streams` that what a client has got and what is in its queue is a beginning of
  its file, up to a chunk that begins with NUL or to where the file could not be
  read, and `Serving` how far the server
  is with it; `ToldOnce` counts the clients that have been told, or will be, what
  was on the stack.
* **`FileSystemProofs`**, watcher: `ListCovers`, `WatcherExits`, `MissesNothingElse`, for
  any names, trees, lengths of the queue and numbers of operations. The invariant
  is about every moment of walk, loop and other processes together: `Numbers`
  (no two directories have the same watch), `Closed` (a directory's parent is
  there), `Events` (IN_IGNORED is the last event of a watch that is gone), `Covers`
  and `PathsCurrent` (what `ListCoversWatches` says), `Undisturbed` (as long as
  directories are only made, what the walk and the events are about is there) and
  `Found`: a directory without a watch is in `late`, or still on the walk's way,
  or announced by an event, or in a directory that `nftw` could not read (`unread`). One lemma for each conjunct goes through
  the actions.
  Paths are sequences, so that the lemmas on prefixes and on what `Move` makes of
  a path (`Prefix...`, `Moved...`) come first; `OnPath` gives the next directory
  on the way from one to another below it, which is where the walk goes on.
  `tail`: `TailRight`, for any file, buffer and number of lines. `Counting` says
  that all newlines behind the chunk have been counted, as long as none began a
  chunk and no chunk reached into the next, and `Located` that the offset then is
  that of the last lines; the counts are of sets of bytes, which the lemmas
  before it (`Shifted`, `Neighbours`, `LastFound`) take apart and put together.
  Listings: `ScanShows`, for any number of pids, entries that come at once,
  limits on descriptors and processes that begin meanwhile. The invariant says
  what the readdir buffer may lack (`Reading`), that a status file that is open
  is of a process that is there or has ended (`OpenedRight`), which descriptors
  are open whatever `status_fd` closes by mistake (`Table`), and for each program
  what it has shown of the entries it is done with (`UserShown`, `FileShown`,
  `Nodes`). That 12_2 prints all its nodes is the hardest part: the parents were
  read at different moments, but as long as no pid is reused all processes there
  have been can be ranked so that each moment's parents come first (`Ranked`; the
  end of a process that hands its children to init keeps the ranks, as init has
  the lowest), so that a line of parents falls in rank and, there being no more
  nodes than steps, ends (`AllPrinted`). `ProgramsRight` puts both together for
  the specification that TLC checks.

Induction over data that a proof needs (sums, powers, the directories above a
directory) is done by the least counterexample, as the library's induction
theorems cannot be instantiated. Every invariant and every action property that a
run checks is stated by a theorem. Only model-checked is liveness
(`TransferCompletes`, `Answered`, `PipelinesEnd`, ...), which is beyond the
prover.

## 5. Findings and divergences

No run shows a violation: where the program does not do what its comments say,
a passing property states the exact condition under which it does.

* HW8/44_6: `fifo_seqnum_server.c` 22 says that the server uses the client's
  FIFO to send back the number, and `fifo_seqnum_client.c` 46 that the client
  makes its FIFO first "to avoid a race". One race is left: the server opens
  with `O_NONBLOCK` (74), and when it comes before the client's own open (client
  73) it gets `ENXIO` and gives up on the client, which waits in `open` for
  ever. `AnsweredIfOpening` states what does hold.
* HW9/52_3: when a file cannot be opened the server sends no end mark and leaks a
  descriptor; the client waits for ever (`Answered` excludes that client and
  demands `EnoughDescriptors`). A chunk that begins with NUL ends the transfer
  for the client (`WholeFile`), and may then block the server (`CanBlock`). A
  `read()` that fails (`server.c` 70; the name may be that of a directory) ends
  the loop like the end of the file: the end mark is sent, and the client takes
  what it has for all of the file (`WholeFile`).
* HW11 `lookup7.c` 44 and `lookup8.c` do not test for `recv() = 0`: a client
  whose child died, or was killed between two words, prints the text that is
  still in its record, that of the last answer or what was there at first
  (`WrongOnlyWhenLost`).
* HW11 part 3: no timeout, a lost datagram hangs the client
  (`AnsweredUnlessLost`).
* HW12: a directory made inside a new directory before that one is watched is
  never watched (`NothingElseMissed`); the watcher exits when a directory is
  removed or renamed before `inotify_add_watch` gets to it, and also when a
  call is refused (48-59: a directory it may not read, no watches left, no memory;
  `ExitsExplained`). A directory that `nftw` cannot open is passed over without a
  word (39; `NothingElseMissed`).
* HW2 `hw2_tail.c`: a newline that is the first byte of a chunk is not counted
  (loop at 66), chunks overlap after a short last step back (64, 89), and a file
  of at least a buffer with too few lines keeps the program in its loop
  (`RightWithoutOverlap` excludes the first two and speaks of runs that end).
* HW4: the program itself is listed three times (`/proc/self`,
  `/proc/thread-self`); in 12_1 the tests against that are commented out. 12_1
  compares as many digits of the uid as the user's has (110), so that others are
  listed too; it never closes its files, leaves out without a word what it has
  no descriptor for, and closes the uninitialised `status_fd` (141) instead,
  which ends it after the first process shown unless that number is open. 12_2
  never closes a descriptor either, and loses from its tree a ring that reused
  pids make. 12_2 and 12_3 end when a process ends at the wrong moment, 12_3 also
  at the first process of another user unless root runs it (`ScanExplained`).
* HW10: the printed sum is not the sum, since increments get lost and only one
  consumer is waited for; it is never too high, nor is the number of losses
  (`NeverOverReports`).
* HW9/54_1: a reader that dies between its two semaphore calls stops the writer
  for ever, as there is no SEM_UNDO (`TransferCompletes` excepts it). A writer
  that is killed and started again sets both semaphores up a second time
  (`writer.c` 111, 113): with a reader still inside there are two tokens, and the
  promises end (`overlap` in `BufferExclusive` and in the refinement).
* HW3 waits with `waitpid(-1)` (`run_command.c` 36): a background child that ends
  first is taken for the command in the foreground, and `stat` is looked at
  though it is never set (`ChildrenCounted` counts what is left either way).
* HW5/part2: `<` after a pipe or before `>` ends the command line there, so that
  `cat < in > out` writes to the terminal; `&` stays among the words of the
  command, though `run_command.c` 17-20 says it is removed; `cd` to a directory
  that is not there ends the shell; `echo` with a word never stops, as its index
  is not advanced (`AsWritten` and `AfterBuiltin` say where).
* HW6: 44_1 shows the text as it was typed when its child was killed or met a
  failing call; `pipe_ls` shows nothing, and exits with 0, when `execvp` fails
  (30-32; `ShownRight`); 44_2 shows one buffer of what the command writes.
* HW7/22_4: the comment at 83-87 says that `mySigset` returns SIG_HOLD for a
  blocked signal; line 96 returns the old handler. `main` does not look at it.

## 6. Not modelled

The components with status `not_modelled` in `PROJECT.json`: HW8/44_7 shows errno
values and keeps no state; HW1, HW9/49_1, HW5/part3 and the utilities of
HW5/part1 other than `pipe_ls` are sequential programs that copy or print; the
textbook's helper files are third party. Inside modelled components: kills in HW10 and HW7/22_3, two writers of
HW9/54_1 or two FIFO servers at the same time, option parsing and everything
that is only printed.

## 7. Plan

Done: every concurrent component of the repository has its module and its run;
three detailed specifications implement an abstract one, and every module has an
inductive invariant that is proved; every safety property has its theorem. What
is left: kills in `ProdCons`, what the remaining consumer and the single `wait()`
make of a consumer that died.
