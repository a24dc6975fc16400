----------------------------- MODULE PipeProofs -----------------------------
(***************************************************************************)
(* FIFOs and pipes.  Of FifoSeqnum, for any number of clients, well-behaved *)
(* or not, any lengths and any number of server runs: no client meets an    *)
(* end of file that no killed process explains, and the server implements   *)
(* SeqnumService.  Of ProcessPrograms, for any number of processes, pipes   *)
(* and lines: each shell's children are the ones that it has not waited     *)
(* for, 44_1 and pipe_ls show the text that went through their pipes, and   *)
(* HW5's pipelines are wired as they were written and hold no pipe of       *)
(* another line or of stages that are not next to it.                       *)
(***************************************************************************)
EXTENDS FifoSeqnum, ProcessPrograms, SequenceTheorems, FiniteSetTheorems,
        WellFoundedInduction, TLAPS
-----------------------------------------------------------------------------
(* Sequence numbers over FIFOs *)

\* The client has not sent its request yet.
NotSent(c) == cpc[c] \in {"mkfifo", "openServer", "waits", "write"}

\* A request that is in SERVER_FIFO, or that the server has yet to answer, is
\* the only one of its client, and nothing was granted for it.
Requests ==
    /\ \A i \in DOMAIN serverFifo : ~NotSent(serverFifo[i].pid) /\ granted[serverFifo[i].pid] = NoGrant
    /\ \A i, j \in DOMAIN serverFifo : serverFifo[i].pid = serverFifo[j].pid => i = j
    /\ spc \in {"open", "write"} =>
         /\ ~NotSent(req.pid) /\ granted[req.pid] = NoGrant
         /\ \A i \in DOMAIN serverFifo : serverFifo[i].pid # req.pid
    /\ \A c \in Clients : NotSent(c) => granted[c] = NoGrant

\* The server has counted what it handed out, except just after it answered.
HandedCounted ==
    /\ spc \in {"openServer", "openDummy", "read", "open", "write"} => handed = seqNum
    /\ spc = "close" => handed = seqNum + req.seqLen

\* A run that goes on has a number, and is the one that opened the FIFO it has
\* open; before it closes it the answer is inside, unless it has been read.
Answers ==
    /\ IF spc = "off" THEN run = 0 ELSE run >= 1
    /\ spc \in {"write", "close"} => opener[req.pid] = run
    /\ spc = "close" /\ cpc[req.pid] = "read" => reply[req.pid] # NoGrant

\* NoSpuriousEof, also for a misbehaving client: that one never reads.
ReadsExplained ==
    \A c \in Clients : cpc[c] = "read" =>
        \/ clientFd = c \/ reply[c] # NoGrant
        \/ opener[c] \in 1..(IF spc = "killed" THEN run ELSE run - 1)

FifoInv == TypeOK /\ Requests /\ HandedCounted /\ Answers /\ ReadsExplained
-----------------------------------------------------------------------------

\* Every step keeps the types.
LEMMA TypeStep ==
    ASSUME FifoInv, [Next]_vars
    PROVE  TypeOK'
<1>1. CASE SMkfifo
  <2>0. TypeOK
    BY DEF FifoInv
  <2>1. run \in Nat /\ run + 1 \in 0..MaxRuns /\ run' = run + 1
    BY <1>1, <2>0, ConstAssumption DEF SMkfifo, TypeOK
  <2>2. opener' \in [Clients -> 0..run']
    <3>1. \A c \in Clients : opener[c] \in 0..run'
      BY <2>0, <2>1 DEF TypeOK
    <3> QED
      BY <1>1, <2>0, <3>1 DEF SMkfifo, TypeOK
  <2>3. cpc' \in [Clients -> {"mkfifo", "openServer", "waits", "write", "openOwn", "opening",
                            "read", "done", "failed", "killed"}]
    BY <1>1, <2>0 DEF SMkfifo, TypeOK
  <2>4. /\ spc \in {"off", "killed"} /\ spc' \in {"openServer", "openDummy"}
        /\ seqNum' = 0 /\ req' = NoRequest /\ handed' = 0
        /\ UNCHANGED <<serverFifo, clientFd, clen, cgot, reply, granted>>
    BY <1>1 DEF SMkfifo, Off
  <2> QED
    BY <2>0, <2>1, <2>2, <2>3, <2>4 DEF TypeOK
<1>2. CASE SOpenDummy
  BY <1>2 DEF FifoInv, TypeOK, history, SOpenDummy
<1>3. CASE SRead
  BY <1>3 DEF FifoInv, TypeOK, history, SRead
<1>4. CASE SOpen
  <2>0. TypeOK
    BY DEF FifoInv
  <2>1. req.pid \in Clients /\ run \in 0..run
    BY <1>4, <2>0, ConstAssumption DEF SOpen, TypeOK, Request
  <2>2. opener' \in [Clients -> 0..run]
    BY <1>4, <2>0, <2>1 DEF SOpen, TypeOK
  <2>3. cpc' \in [Clients -> {"mkfifo", "openServer", "waits", "write", "openOwn", "opening",
                            "read", "done", "failed", "killed"}]
    BY <1>4, <2>0, <2>1 DEF SOpen, TypeOK
  <2>4. /\ spc = "open" /\ UNCHANGED <<run, serverFifo, seqNum, req, clen, cgot, reply, granted, handed>>
        /\ \/ spc' = "write" /\ clientFd' = req.pid
           \/ spc' = "read" /\ clientFd' = clientFd
    BY <1>4 DEF SOpen
  <2> QED
    BY <2>0, <2>2, <2>3, <2>4 DEF TypeOK
<1>5. CASE SWrite
  <2>0. TypeOK
    BY DEF FifoInv
  <2>1. req.pid \in Clients /\ req.seqLen \in SeqLens /\ req.seqLen \in Nat
    BY <1>5, <2>0, ConstAssumption DEF SWrite, TypeOK, Request
  <2>2. run \in 1..MaxRuns
    BY <1>5, <2>0 DEF SWrite, TypeOK, FifoInv, Answers
  <2>3. [run |-> run, first |-> seqNum, len |-> req.seqLen] \in Grant
    BY <2>0, <2>1, <2>2 DEF TypeOK, Grant
  <2>4. /\ granted' \in [Clients -> Grant \union {NoGrant}]
        /\ granted'[req.pid] = [run |-> run, first |-> seqNum, len |-> req.seqLen]
    BY <1>5, <2>0, <2>1, <2>3 DEF SWrite, TypeOK
  <2>5. reply' \in [Clients -> Grant \union {NoGrant}]
    BY <1>5, <2>0, <2>1, <2>3, <2>4 DEF SWrite, TypeOK
  <2>6. handed' \in Nat
    BY <1>5, <2>0, <2>1 DEF SWrite, TypeOK
  <2> QED
    BY <1>5, <2>0, <2>4, <2>5, <2>6 DEF SWrite, TypeOK
<1>6. CASE SClose
  <2>0. TypeOK
    BY DEF FifoInv
  <2>1. req.seqLen \in Nat
    BY <1>6, <2>0, ConstAssumption DEF SClose, TypeOK, Request
  <2> QED
    BY <1>6, <2>0, <2>1 DEF SClose, TypeOK, history
<1>7. CASE SKilled
  BY <1>7 DEF FifoInv, TypeOK, Off, history, SKilled
<1>8. ASSUME NEW c \in Clients, CMkfifo(c) PROVE TypeOK'
  BY <1>8 DEF FifoInv, TypeOK, serverVars, history, CMkfifo
<1>9. ASSUME NEW c \in Clients, CNoServerFifo(c) PROVE TypeOK'
  BY <1>9 DEF FifoInv, TypeOK, serverVars, history, CNoServerFifo
<1>10. ASSUME NEW c \in Clients, CWaitServer(c) PROVE TypeOK'
  BY <1>10 DEF FifoInv, TypeOK, Off, serverVars, history, CWaitServer
<1>11. ASSUME NEW c \in Clients, COpenServer(c) PROVE TypeOK'
  BY <1>11 DEF FifoInv, TypeOK, Off, history, COpenServer
<1>12. ASSUME NEW c \in Clients, CWrite(c) PROVE TypeOK'
  <2>0. TypeOK
    BY DEF FifoInv
  <2>1. [pid |-> c, seqLen |-> clen[c]] \in Request
    BY <2>0 DEF TypeOK, Request
  <2>2. serverFifo' \in Seq(Request)
    BY <1>12, <2>0, <2>1 DEF CWrite, TypeOK
  <2> QED
    BY <1>12, <2>0, <2>2 DEF CWrite, TypeOK, serverVars, history
<1>13. ASSUME NEW c \in Clients, CSigpipe(c) PROVE TypeOK'
  BY <1>13 DEF FifoInv, TypeOK, Off, Kept, serverVars, history, CSigpipe
<1>14. ASSUME NEW c \in Clients, COpenOwn(c) PROVE TypeOK'
  BY <1>14 DEF FifoInv, TypeOK, serverVars, history, COpenOwn
<1>15. ASSUME NEW c \in Clients, CRead(c) PROVE TypeOK'
  <2>0. TypeOK
    BY DEF FifoInv
  <2>1. reply[c] \in Grant
    BY <1>15, <2>0 DEF CRead, TypeOK
  <2>2. cgot' \in [Clients -> Nat]
    BY <1>15, <2>0, <2>1 DEF CRead, TypeOK, Grant
  <2>3. serverFifo' \in Seq(Request)
    BY <1>15, <2>0 DEF CRead, TypeOK, Kept
  <2>4. cpc' \in [Clients -> {"mkfifo", "openServer", "waits", "write", "openOwn", "opening",
                            "read", "done", "failed", "killed"}]
    BY <1>15, <2>0 DEF CRead, TypeOK
  <2>5. reply' \in [Clients -> Grant \union {NoGrant}]
    BY <1>15, <2>0 DEF CRead, TypeOK
  <2> QED
    BY <1>15, <2>0, <2>2, <2>3, <2>4, <2>5 DEF CRead, TypeOK, serverVars, history
<1>16. ASSUME NEW c \in Clients, CEof(c) PROVE TypeOK'
  BY <1>16 DEF FifoInv, TypeOK, Kept, serverVars, history, CEof
<1>17. ASSUME NEW c \in Clients, CKilled(c) PROVE TypeOK'
  BY <1>17 DEF FifoInv, TypeOK, Writers, Kept, serverVars, history, CKilled
<1>18. CASE UNCHANGED vars
  BY <1>18 DEF FifoInv, TypeOK, vars, serverVars, history
<1> QED
  BY <1>1, <1>2, <1>3, <1>4, <1>5, <1>6, <1>7, <1>8, <1>9, <1>10, <1>11, <1>12, <1>13, <1>14, <1>15, <1>16, <1>17, <1>18
     DEF Next, ServerStep, ClientStep

\* Requests come from clients.
LEMMA RequestPids ==
    ASSUME TypeOK
    PROVE  /\ \A i \in DOMAIN serverFifo : serverFifo[i].pid \in Clients
           /\ spc = "open" \/ spc = "write" => req.pid \in Clients
<1>1. \A r \in Request : r.pid \in Clients
  BY DEF Request
<1> QED
  BY <1>1 DEF TypeOK

\* Requests holds on while clients only move on and requests only disappear.
LEMMA NotSentKept ==
    ASSUME Requests, serverFifo' = serverFifo \/ serverFifo' = <<>>,
           \A d \in Clients : NotSent(d)' => NotSent(d),
           UNCHANGED <<spc, req, granted>>,
           \A i \in DOMAIN serverFifo : serverFifo[i].pid \in Clients,
           spc = "open" \/ spc = "write" => req.pid \in Clients
    PROVE  Requests'
<1>1. CASE serverFifo' = serverFifo
  BY <1>1 DEF Requests
<1>2. CASE serverFifo' = <<>>
  BY <1>2 DEF Requests
<1> QED
  BY <1>1, <1>2

\* No client gets a second request into the FIFO.
LEMMA RequestsStep ==
    ASSUME FifoInv, [Next]_vars
    PROVE  Requests'
<1>1. CASE SMkfifo
  <2>1. /\ \A d \in Clients : NotSent(d)' => NotSent(d)
        /\ UNCHANGED <<serverFifo, granted>> /\ spc' \notin {"open", "write"}
    BY <1>1 DEF SMkfifo, FifoInv, TypeOK, NotSent
  <2>2. \A i \in DOMAIN serverFifo : serverFifo[i].pid \in Clients
    BY RequestPids DEF FifoInv
  <2> QED
    BY <2>1, <2>2 DEF FifoInv, Requests
<1>2. CASE SOpenDummy
  BY <1>2 DEF FifoInv, Requests, NotSent, TypeOK, history, SOpenDummy
<1>3. CASE SRead
  BY <1>3 DEF FifoInv, Requests, NotSent, TypeOK, history, SRead
<1>4. CASE SOpen
  <2>1. /\ \A d \in Clients : NotSent(d)' => NotSent(d)
        /\ UNCHANGED <<serverFifo, granted, req>> /\ spc = "open"
    BY <1>4 DEF SOpen, FifoInv, TypeOK, NotSent
  <2>2. \A i \in DOMAIN serverFifo : serverFifo[i].pid \in Clients
    BY RequestPids DEF FifoInv
  <2>3. req.pid \in Clients
    BY <2>1 DEF FifoInv, TypeOK, Request
  <2> QED
    BY <2>1, <2>2, <2>3 DEF FifoInv, Requests
<1>5. CASE SWrite
  BY <1>5 DEF FifoInv, Requests, NotSent, TypeOK, SWrite
<1>6. CASE SClose
  BY <1>6 DEF FifoInv, Requests, NotSent, TypeOK, history, SClose
<1>7. CASE SKilled
  BY <1>7 DEF FifoInv, Requests, NotSent, TypeOK, Off, history, SKilled
<1>8. ASSUME NEW c \in Clients, CMkfifo(c) PROVE Requests'
  BY <1>8 DEF FifoInv, Requests, NotSent, TypeOK, serverVars, history, CMkfifo
<1>9. ASSUME NEW c \in Clients, CNoServerFifo(c) PROVE Requests'
  BY <1>9 DEF FifoInv, Requests, NotSent, TypeOK, serverVars, history, CNoServerFifo
<1>10. ASSUME NEW c \in Clients, CWaitServer(c) PROVE Requests'
  BY <1>10 DEF FifoInv, Requests, NotSent, TypeOK, Off, serverVars, history, CWaitServer
<1>11. ASSUME NEW c \in Clients, COpenServer(c) PROVE Requests'
  BY <1>11 DEF FifoInv, Requests, NotSent, TypeOK, Off, history, COpenServer
<1>12. ASSUME NEW c \in Clients, CWrite(c) PROVE Requests'
  BY <1>12 DEF FifoInv, Requests, NotSent, TypeOK, Off, serverVars, history, CWrite
<1>13. ASSUME NEW c \in Clients, CSigpipe(c) PROVE Requests'
  <2>1. serverFifo' = serverFifo \/ serverFifo' = <<>>
    BY <1>13 DEF CSigpipe, Kept
  <2>2. /\ \A d \in Clients : NotSent(d)' => NotSent(d)
        /\ UNCHANGED <<spc, req, granted>>
    BY <1>13 DEF CSigpipe, FifoInv, TypeOK, NotSent, serverVars, history
  <2> QED
    BY <2>1, <2>2, RequestPids, NotSentKept DEF FifoInv
<1>14. ASSUME NEW c \in Clients, COpenOwn(c) PROVE Requests'
  BY <1>14 DEF FifoInv, Requests, NotSent, TypeOK, serverVars, history, COpenOwn
<1>15. ASSUME NEW c \in Clients, CRead(c) PROVE Requests'
  <2>1. serverFifo' = serverFifo \/ serverFifo' = <<>>
    BY <1>15 DEF CRead, Kept
  <2>2. /\ \A d \in Clients : NotSent(d)' => NotSent(d)
        /\ UNCHANGED <<spc, req, granted>>
    BY <1>15 DEF CRead, FifoInv, TypeOK, NotSent, serverVars, history
  <2> QED
    BY <2>1, <2>2, RequestPids, NotSentKept DEF FifoInv
<1>16. ASSUME NEW c \in Clients, CEof(c) PROVE Requests'
  <2>1. serverFifo' = serverFifo \/ serverFifo' = <<>>
    BY <1>16 DEF CEof, Kept
  <2>2. /\ \A d \in Clients : NotSent(d)' => NotSent(d)
        /\ UNCHANGED <<spc, req, granted>>
    BY <1>16 DEF CEof, FifoInv, TypeOK, NotSent, serverVars, history
  <2> QED
    BY <2>1, <2>2, RequestPids, NotSentKept DEF FifoInv
<1>17. ASSUME NEW c \in Clients, CKilled(c) PROVE Requests'
  <2>1. serverFifo' = serverFifo \/ serverFifo' = <<>>
    BY <1>17 DEF CKilled, Kept
  <2>2. /\ \A d \in Clients : NotSent(d)' => NotSent(d)
        /\ UNCHANGED <<spc, req, granted>>
    BY <1>17 DEF CKilled, FifoInv, TypeOK, NotSent, serverVars, history
  <2> QED
    BY <2>1, <2>2, RequestPids, NotSentKept DEF FifoInv
<1>18. CASE UNCHANGED vars
  BY <1>18 DEF FifoInv, Requests, NotSent, TypeOK, vars, serverVars, history
<1> QED
  BY <1>1, <1>2, <1>3, <1>4, <1>5, <1>6, <1>7, <1>8, <1>9, <1>10, <1>11, <1>12, <1>13, <1>14, <1>15, <1>16, <1>17, <1>18
     DEF Next, ServerStep, ClientStep

\* Each answer is counted before the next.
LEMMA CountedStep ==
    ASSUME FifoInv, [Next]_vars
    PROVE  HandedCounted'
<1>1. CASE SMkfifo
  BY <1>1 DEF FifoInv, HandedCounted, TypeOK, NoRequest, Off, SMkfifo
<1>2. CASE SOpenDummy
  BY <1>2 DEF FifoInv, HandedCounted, TypeOK, history, SOpenDummy
<1>3. CASE SRead
  BY <1>3 DEF FifoInv, HandedCounted, TypeOK, history, SRead
<1>4. CASE SOpen
  BY <1>4 DEF FifoInv, HandedCounted, TypeOK, SOpen
<1>5. CASE SWrite
  BY <1>5 DEF FifoInv, HandedCounted, TypeOK, SWrite
<1>6. CASE SClose
  BY <1>6 DEF FifoInv, HandedCounted, TypeOK, history, SClose
<1>7. CASE SKilled
  BY <1>7 DEF FifoInv, HandedCounted, TypeOK, Off, history, SKilled
<1>8. ASSUME NEW c \in Clients, CMkfifo(c) PROVE HandedCounted'
  BY <1>8 DEF FifoInv, HandedCounted, TypeOK, serverVars, history, CMkfifo
<1>9. ASSUME NEW c \in Clients, CNoServerFifo(c) PROVE HandedCounted'
  BY <1>9 DEF FifoInv, HandedCounted, TypeOK, serverVars, history, CNoServerFifo
<1>10. ASSUME NEW c \in Clients, CWaitServer(c) PROVE HandedCounted'
  BY <1>10 DEF FifoInv, HandedCounted, TypeOK, Off, serverVars, history, CWaitServer
<1>11. ASSUME NEW c \in Clients, COpenServer(c) PROVE HandedCounted'
  BY <1>11 DEF FifoInv, HandedCounted, TypeOK, Off, history, COpenServer
<1>12. ASSUME NEW c \in Clients, CWrite(c) PROVE HandedCounted'
  BY <1>12 DEF FifoInv, HandedCounted, TypeOK, Off, serverVars, history, CWrite
<1>13. ASSUME NEW c \in Clients, CSigpipe(c) PROVE HandedCounted'
  BY <1>13 DEF FifoInv, HandedCounted, TypeOK, Off, Kept, serverVars, history, CSigpipe
<1>14. ASSUME NEW c \in Clients, COpenOwn(c) PROVE HandedCounted'
  BY <1>14 DEF FifoInv, HandedCounted, TypeOK, serverVars, history, COpenOwn
<1>15. ASSUME NEW c \in Clients, CRead(c) PROVE HandedCounted'
  BY <1>15 DEF FifoInv, HandedCounted, TypeOK, Kept, serverVars, history, CRead
<1>16. ASSUME NEW c \in Clients, CEof(c) PROVE HandedCounted'
  BY <1>16 DEF FifoInv, HandedCounted, TypeOK, Kept, serverVars, history, CEof
<1>17. ASSUME NEW c \in Clients, CKilled(c) PROVE HandedCounted'
  BY <1>17 DEF FifoInv, HandedCounted, TypeOK, Writers, Kept, serverVars, history, CKilled
<1>18. CASE UNCHANGED vars
  BY <1>18 DEF FifoInv, HandedCounted, TypeOK, vars, serverVars, history
<1> QED
  BY <1>1, <1>2, <1>3, <1>4, <1>5, <1>6, <1>7, <1>8, <1>9, <1>10, <1>11, <1>12, <1>13, <1>14, <1>15, <1>16, <1>17, <1>18
     DEF Next, ServerStep, ClientStep

\* A FIFO that a run has open is answered before it is closed.
LEMMA AnswersStep ==
    ASSUME FifoInv, [Next]_vars
    PROVE  Answers'
<1>1. CASE SMkfifo
  BY <1>1 DEF FifoInv, Answers, TypeOK, NoRequest, Off, SMkfifo
<1>2. CASE SOpenDummy
  BY <1>2 DEF FifoInv, Answers, TypeOK, history, SOpenDummy
<1>3. CASE SRead
  BY <1>3 DEF FifoInv, Answers, TypeOK, history, SRead
<1>4. CASE SOpen
  <2>1. req.pid \in Clients
    BY <1>4 DEF SOpen, FifoInv, TypeOK, Request
  <2> QED
    BY <1>4, <2>1 DEF SOpen, FifoInv, TypeOK, Answers
<1>5. CASE SWrite
  <2>1. req.pid \in Clients /\ seqNum \in Nat /\ req.seqLen \in Nat /\ run \in Nat
    <3>1. req \in Request /\ seqNum \in Nat /\ run \in 0..MaxRuns
      BY <1>5 DEF SWrite, FifoInv, TypeOK
    <3>2. req.pid \in Clients /\ req.seqLen \in SeqLens
      BY <3>1 DEF Request
    <3>3. \A n \in SeqLens : n \in Nat
      BY ConstAssumption
    <3> QED
      BY <3>1, <3>2, <3>3
  <2>2. granted'[req.pid] # NoGrant
    BY <1>5, <2>1, ConstAssumption DEF SWrite, FifoInv, TypeOK
  <2>3. cpc[req.pid] = "read" => reply'[req.pid] = granted'[req.pid]
    BY <1>5, <2>1 DEF SWrite, FifoInv, TypeOK
  <2> QED
    BY <1>5, <2>1, <2>2, <2>3 DEF SWrite, FifoInv, Answers
<1>6. CASE SClose
  BY <1>6 DEF FifoInv, Answers, TypeOK, history, SClose
<1>7. CASE SKilled
  BY <1>7 DEF FifoInv, Answers, TypeOK, Off, history, SKilled
<1>8. ASSUME NEW c \in Clients, CMkfifo(c) PROVE Answers'
  BY <1>8 DEF FifoInv, Answers, TypeOK, serverVars, history, CMkfifo
<1>9. ASSUME NEW c \in Clients, CNoServerFifo(c) PROVE Answers'
  BY <1>9 DEF FifoInv, Answers, TypeOK, serverVars, history, CNoServerFifo
<1>10. ASSUME NEW c \in Clients, CWaitServer(c) PROVE Answers'
  BY <1>10 DEF FifoInv, Answers, TypeOK, Off, serverVars, history, CWaitServer
<1>11. ASSUME NEW c \in Clients, COpenServer(c) PROVE Answers'
  BY <1>11 DEF FifoInv, Answers, TypeOK, Off, history, COpenServer
<1>12. ASSUME NEW c \in Clients, CWrite(c) PROVE Answers'
  BY <1>12 DEF FifoInv, Answers, TypeOK, Off, serverVars, history, CWrite
<1>13. ASSUME NEW c \in Clients, CSigpipe(c) PROVE Answers'
  BY <1>13 DEF FifoInv, Answers, TypeOK, Off, Kept, serverVars, history, CSigpipe
<1>14. ASSUME NEW c \in Clients, COpenOwn(c) PROVE Answers'
  BY <1>14 DEF FifoInv, Answers, TypeOK, serverVars, history, COpenOwn
<1>15. ASSUME NEW c \in Clients, CRead(c) PROVE Answers'
  BY <1>15 DEF FifoInv, Answers, TypeOK, Kept, serverVars, history, CRead
<1>16. ASSUME NEW c \in Clients, CEof(c) PROVE Answers'
  BY <1>16 DEF FifoInv, Answers, TypeOK, Kept, serverVars, history, CEof
<1>17. ASSUME NEW c \in Clients, CKilled(c) PROVE Answers'
  BY <1>17 DEF FifoInv, Answers, TypeOK, Writers, Kept, serverVars, history, CKilled
<1>18. CASE UNCHANGED vars
  BY <1>18 DEF FifoInv, Answers, TypeOK, vars, serverVars, history
<1> QED
  BY <1>1, <1>2, <1>3, <1>4, <1>5, <1>6, <1>7, <1>8, <1>9, <1>10, <1>11, <1>12, <1>13, <1>14, <1>15, <1>16, <1>17, <1>18
     DEF Next, ServerStep, ClientStep

\* A client reads from a FIFO that is open, or has its answer, or lost its server.
LEMMA ReadsStep ==
    ASSUME FifoInv, [Next]_vars
    PROVE  ReadsExplained'
<1>1. CASE SMkfifo
  BY <1>1 DEF FifoInv, ReadsExplained, Answers, TypeOK, NoRequest, Off, SMkfifo
<1>2. CASE SOpenDummy
  BY <1>2 DEF FifoInv, ReadsExplained, Answers, TypeOK, history, SOpenDummy
<1>3. CASE SRead
  BY <1>3 DEF FifoInv, ReadsExplained, Answers, TypeOK, history, SRead
<1>4. CASE SOpen
  <2>1. req.pid \in Clients
    BY <1>4 DEF SOpen, FifoInv, TypeOK, Request
  <2>2. clientFd = NoClient
    BY <1>4 DEF SOpen, FifoInv, TypeOK
  <2> QED
    BY <1>4, <2>1, <2>2, ConstAssumption DEF SOpen, FifoInv, TypeOK, ReadsExplained
<1>5. CASE SWrite
  BY <1>5 DEF FifoInv, ReadsExplained, Answers, TypeOK, SWrite
<1>6. CASE SClose
  BY <1>6 DEF FifoInv, ReadsExplained, Answers, TypeOK, history, SClose
<1>7. CASE SKilled
  BY <1>7 DEF FifoInv, ReadsExplained, Answers, TypeOK, Off, history, SKilled
<1>8. ASSUME NEW c \in Clients, CMkfifo(c) PROVE ReadsExplained'
  BY <1>8 DEF FifoInv, ReadsExplained, Answers, TypeOK, serverVars, history, CMkfifo
<1>9. ASSUME NEW c \in Clients, CNoServerFifo(c) PROVE ReadsExplained'
  BY <1>9 DEF FifoInv, ReadsExplained, Answers, TypeOK, serverVars, history, CNoServerFifo
<1>10. ASSUME NEW c \in Clients, CWaitServer(c) PROVE ReadsExplained'
  BY <1>10 DEF FifoInv, ReadsExplained, Answers, TypeOK, Off, serverVars, history, CWaitServer
<1>11. ASSUME NEW c \in Clients, COpenServer(c) PROVE ReadsExplained'
  BY <1>11 DEF FifoInv, ReadsExplained, Answers, TypeOK, Off, history, COpenServer
<1>12. ASSUME NEW c \in Clients, CWrite(c) PROVE ReadsExplained'
  BY <1>12 DEF FifoInv, ReadsExplained, Answers, TypeOK, Off, serverVars, history, CWrite
<1>13. ASSUME NEW c \in Clients, CSigpipe(c) PROVE ReadsExplained'
  BY <1>13 DEF FifoInv, ReadsExplained, Answers, TypeOK, Off, Kept, serverVars, history, CSigpipe
<1>14. ASSUME NEW c \in Clients, COpenOwn(c) PROVE ReadsExplained'
  BY <1>14 DEF FifoInv, ReadsExplained, Answers, TypeOK, serverVars, history, COpenOwn
<1>15. ASSUME NEW c \in Clients, CRead(c) PROVE ReadsExplained'
  BY <1>15 DEF FifoInv, ReadsExplained, Answers, TypeOK, Kept, serverVars, history, CRead
<1>16. ASSUME NEW c \in Clients, CEof(c) PROVE ReadsExplained'
  BY <1>16 DEF FifoInv, ReadsExplained, Answers, TypeOK, Kept, serverVars, history, CEof
<1>17. ASSUME NEW c \in Clients, CKilled(c) PROVE ReadsExplained'
  BY <1>17 DEF FifoInv, ReadsExplained, Answers, TypeOK, Writers, Kept, serverVars, history, CKilled
<1>18. CASE UNCHANGED vars
  BY <1>18 DEF FifoInv, ReadsExplained, Answers, TypeOK, vars, serverVars, history
<1> QED
  BY <1>1, <1>2, <1>3, <1>4, <1>5, <1>6, <1>7, <1>8, <1>9, <1>10, <1>11, <1>12, <1>13, <1>14, <1>15, <1>16, <1>17, <1>18
     DEF Next, ServerStep, ClientStep

\* The programs start with FifoInv.
LEMMA InitInv == Init => FifoInv
  BY ConstAssumption DEF Init, FifoInv, TypeOK, Requests, NotSent, HandedCounted, Answers, ReadsExplained, NoRequest

\* No step leaves FifoInv.
LEMMA StepInv == FifoInv /\ [Next]_vars => FifoInv'
  BY TypeStep, RequestsStep, CountedStep, AnswersStep, ReadsStep DEF FifoInv

\* FifoInv is an invariant of the specification.
LEMMA Invariance == Spec => []FifoInv
  BY InitInv, StepInv, PTL DEF Spec

\* A client fails on end of file only because a process was killed.
THEOREM EofExplained == Spec => []NoSpuriousEof
<1>1. FifoInv => NoSpuriousEof
  BY DEF FifoInv, NoSpuriousEof, ReadsExplained
<1> QED
  BY <1>1, Invariance, PTL

\* Every step hands out the next interval to a client that has none, starts a
\* run, or does nothing that the service shows.
LEMMA StepRefines == FifoInv /\ [Next]_vars => [Service!Next]_<<run, handed, granted>>
<1> SUFFICES ASSUME FifoInv, [Next]_vars
             PROVE  [Service!Next]_<<run, handed, granted>>
  OBVIOUS
<1>1. CASE SMkfifo
  BY <1>1 DEF SMkfifo, Service!Next, Service!Restart
<1>2. CASE SWrite
  <2>1. req.pid \in Clients /\ req.seqLen \in SeqLens /\ granted[req.pid] = NoGrant
    BY <1>2 DEF SWrite, FifoInv, TypeOK, Request, Requests
  <2>2. handed = seqNum
    BY <1>2 DEF SWrite, FifoInv, HandedCounted
  <2>3. Service!Grant(req.pid, req.seqLen)
    BY <1>2, <2>1, <2>2 DEF SWrite, Service!Grant
  <2> QED
    BY <2>1, <2>3 DEF Service!Next
<1>3. CASE SOpenDummy \/ SRead \/ SOpen \/ SClose \/ SKilled
  BY <1>3 DEF SOpenDummy, SRead, SOpen, SClose, SKilled, history
<1>4. ASSUME NEW c \in Clients, ClientStep(c) \/ CKilled(c)
      PROVE  UNCHANGED <<run, handed, granted>>
  BY <1>4 DEF ClientStep, CMkfifo, CNoServerFifo, CWaitServer, COpenServer, CWrite, CSigpipe,
              COpenOwn, CRead, CEof, CKilled, serverVars, history
<1>5. CASE UNCHANGED vars
  BY <1>5 DEF vars, serverVars, history
<1> QED
  BY <1>1, <1>2, <1>3, <1>4, <1>5 DEF Next, ServerStep

\* The server implements the service; a client it gives up on gets nothing and
\* uses up nothing.
THEOREM Refinement == Spec => ImplementsService
<1>1. Init => Service!Init
  BY DEF Init, Service!Init
<1> QED
  BY <1>1, StepRefines, Invariance, PTL DEF Spec, ImplementsService, Service!Spec

-----------------------------------------------------------------------------
(* Shells and programs with pipes: the inductive invariant *)

\* A sequence, of whatever is in it.
IsSeq(s) == s \in Seq({s[i] : i \in DOMAIN s})

\* What a descriptor refers to; that of a process that is not there is closed.
Ends == {Closed, Tty, InFile, OutFile} \union ({"r", "w"} \X Pipes)
NoFds == [e \in Fds |-> Closed]

\* The fields of a process, of which the numbers are in range.
GoodProc(r) ==
    /\ DOMAIN r = DOMAIN NoProc
    /\ r.parent \in 0..MaxPid /\ r.line \in 0..MaxTyped
    /\ IsSeq(r.held)

\* Every process is a record of these fields.
Procs ==
    /\ DOMAIN proc = Pids
    /\ \A p \in Pids : GoodProc(proc[p])

\* Only a process that is there has descriptors.
Descriptors ==
    /\ fd \in [Pids -> [Fds -> Ends]]
    /\ \A p \in Pids : ~Alive(p) => fd[p] = NoFds

\* No pipe holds more than its capacity.
PipesRoomy ==
    /\ DOMAIN pipe = Pipes
    /\ \A k \in Pipes : IsSeq(pipe[k]) /\ Len(pipe[k]) =< Capacity

Kernel == Procs /\ Descriptors /\ PipesRoomy /\ over \subseteq 0..MaxTyped

\* Process 1 is the program, and has no parent.
Prompt == {"start", "do_builtin", "run_command"}
MainCalls == {"none", "waitpid", "echoes_for_ever", "close_unused", "read_stdin", "write",
              "close", "read", "show", "wait", "exit", "my_popen", "fgets", "my_pclose"}
Main == proc[1].parent = 0 /\ proc[1].pc \in Prompt \union MainCalls

\* The history variables, within their bounds.
Histories ==
    /\ program \in {"HW3", "HW5", "44_1", "44_2_r", "44_2_w", "pipe_ls"}
    /\ typed \in 0..MaxTyped /\ background \in 0..typed
    /\ Shell /\ At(1, "run_command") => background < typed
    /\ input \in {<<>>} \union {<<x>> : x \in Text}
    /\ died \in BOOLEAN

\* A shell that waits has one child more than it has background commands.
ChildrenAgree ==
    Shell =>
      /\ proc[1].pc \in Prompt => Cardinality(Children(1)) = background
      /\ At(1, "waitpid") => Cardinality(Children(1)) = background + 1

\* Each child of HW5's shell belongs to a line of its own, and a foreground one to
\* the latest, while the shell waits.
Lines ==
    program = "HW5" =>
      \A q \in Children(1) :
        /\ proc[q].line =< typed
        /\ At(1, "run_command") => proc[q].line < typed
        /\ proc[q].fg => At(1, "waitpid") /\ proc[q].line = typed
        /\ \A r \in Children(1) : proc[q].line = proc[r].line => q = r

Family == Kernel /\ Main /\ Histories /\ ChildrenAgree /\ Lines
-----------------------------------------------------------------------------
(* What ShownRight rests on: where the text is *)

\* Before the fork.
OnlyMain ==
    /\ \A q \in Pids \ {1} : At(q, "none")
    /\ \A k \in Pipes : pipe[k] = <<>>
    /\ proc[1].held = <<>> /\ shown = <<>>

\* Where the text has been written, and where it is still on its way.
Written == {"close", "read"}
Exchanging == {"close_unused", "read_stdin", "write"} \union Written

\* The text x is in the first pipe, with the child, or in the second pipe.
TextAt(x, c, j, k) ==
    \/ Alive(c) /\ pipe[j] = <<x>> /\ proc[c].held = <<>> /\ pipe[k] = <<>>
    \/ Alive(c) /\ pipe[j] = <<>> /\ proc[c].held = <<Upper(x)>> /\ pipe[k] = <<>>
    \/ Alive(c) /\ pipe[j] = <<>> /\ proc[c].held = <<>> /\ pipe[k] = <<Upper(x)>>
    \/ ~Alive(c) /\ pipe[k] = <<Upper(x)>>

\* No text is on its way.
NoText(c, j, k) ==
    /\ pipe[k] = <<>> /\ proc[1].held = <<>>
    /\ Alive(c) => pipe[j] = <<>> /\ proc[c].held = <<>>

\* 44_1 and its child c, from which nobody took the ends of the pipes j and k; the
\* child ends only when 44_1 has closed its end of the first pipe.
Ties(c, j, k) ==
    /\ j # k /\ \A q \in Pids \ {1, c} : At(q, "none")
    /\ fd[1][5] = <<"r", k>>
    /\ ~At(1, "read") => fd[1][4] = <<"w", j>> /\ Alive(c)
    /\ Alive(c) => fd[c][3] = <<"r", j>> /\ fd[c][6] = <<"w", k>>

\* Until 44_1 has written, and when it wrote nothing, nothing is on its way.
Exchange(c, j, k) ==
    /\ Ties(c, j, k)
    /\ At(c, "child") => proc[c].held = <<>>
    /\ proc[1].pc \notin Written \/ input = <<>> => NoText(c, j, k)
    /\ proc[1].pc \in Written => \A x \in Text : input = <<x>> => TextAt(x, c, j, k)

\* 44_1: the text that comes back is the one typed, unless the child died.
UpperRight ==
    program = "44_1" =>
      /\ \A q \in Pids \ {1} : proc[q].pc \in {"none", "zombie", "child", "copy"}
      /\ At(1, "start") => OnlyMain
      /\ proc[1].pc \in Exchanging \union {"show"} => shown = <<>>
      /\ ~died /\ proc[1].pc \in Exchanging =>
           \E c \in Pids \ {1}, j, k \in Pipes : Exchange(c, j, k)
      /\ ~died /\ At(1, "show") =>
           /\ input = <<>> => proc[1].held = <<>>
           /\ \A x \in Text : input = <<x>> => proc[1].held = <<Upper(x)>>
      /\ ~died /\ shown # <<>> => shown = <<Upper(input[1])>>

\* What ls still has to write, and what is in the pipe.
Writing(c, k) ==
    \/ At(c, "ls") /\ fd[c][4] = <<"w", k>> /\ pipe[k] = <<>>
    \/ /\ At(c, "run") /\ proc[c].does = "ls" /\ fd[c][1] = <<"w", k>>
       /\ <<pipe[k], proc[c].held>> \in {<< <<>>, <<"a", "b">> >>, << <<"a">>, <<"b">> >>,
                                         << <<"a", "b">>, <<>> >>}
    \/ ~Alive(c) /\ pipe[k] \in {<<>>, <<"a">>, <<"a", "b">>} /\ (died \/ pipe[k] # <<>>)

\* pipe_ls and its child c, between them the pipe k.
LsTies(c, k) == fd[1][3] = <<"r", k>> /\ \A q \in Pids \ {1, c} : At(q, "none")

\* pipe_ls: what is read is a beginning of what ls writes.
LsRight ==
    program = "pipe_ls" =>
      /\ At(1, "start") => OnlyMain
      /\ proc[1].pc \in Written =>
           /\ shown = <<>>
           /\ \E c \in Pids \ {1}, k \in Pipes : LsTies(c, k) /\ Writing(c, k)
      /\ At(1, "exit") => /\ shown \in {<<>>, <<"a">>, <<"a", "b">>}
                          /\ shown = <<>> => died

\* The inductive invariant.
ProcessInv == Family /\ UpperRight /\ LsRight
-----------------------------------------------------------------------------
(* Sequences and numbers *)

\* A member of Seq(S) is a sequence.
LEMMA SeqIsSeq == ASSUME NEW S, NEW s \in Seq(S) PROVE IsSeq(s) /\ Len(s) \in Nat
<1>1. Len(s) \in Nat /\ DOMAIN s = 1..Len(s) /\ s \in [1..Len(s) -> S]
  BY LenProperties
<1>2. s \in [1..Len(s) -> {s[i] : i \in DOMAIN s}]
  BY <1>1
<1> QED BY <1>1, <1>2, SeqDef DEF IsSeq

\* Append makes a sequence one longer.
LEMMA SeqAppend ==
  ASSUME NEW s, IsSeq(s), NEW x
  PROVE  IsSeq(Append(s, x)) /\ Len(s) \in Nat /\ Len(Append(s, x)) = Len(s) + 1
<1> DEFINE R == {s[i] : i \in DOMAIN s}
<1>1. s \in Seq(R)
  BY DEF IsSeq
<1>2. s \in Seq(R \union {x})
  BY <1>1, SeqMonotonic
<1>3. Append(s, x) \in Seq(R \union {x})
  BY <1>2
<1>4. Len(s) \in Nat /\ Len(Append(s, x)) = Len(s) + 1
  BY <1>2
<1> QED BY <1>3, <1>4, SeqIsSeq

\* The tail of a sequence is one.
LEMMA SeqTail == ASSUME NEW s, IsSeq(s), s # <<>> PROVE IsSeq(Tail(s))
<1> DEFINE R == {s[i] : i \in DOMAIN s}
<1>1. Tail(s) \in Seq(R)
  BY HeadTailProperties DEF IsSeq
<1> QED BY <1>1, SeqIsSeq

\* What is left of a sequence when its first n elements are taken.
LEMMA SeqDrop ==
  ASSUME NEW s, IsSeq(s), NEW n \in Nat
  PROVE  /\ IsSeq(SubSeq(s, n + 1, Len(s))) /\ Len(s) \in Nat
         /\ Len(SubSeq(s, n + 1, Len(s))) =< Len(s)
<1> DEFINE R == {s[i] : i \in DOMAIN s}
<1>1. Len(s) \in Nat /\ DOMAIN s = 1..Len(s)
  BY LenProperties DEF IsSeq
<1>2. \A i \in (n + 1)..Len(s) : s[i] \in R
  BY <1>1
<1>3. /\ SubSeq(s, n + 1, Len(s)) \in Seq(R)
      /\ Len(SubSeq(s, n + 1, Len(s))) =< Len(s)
  <2>1. n + 1 \in Int /\ Len(s) \in Int
    BY <1>1
  <2> HIDE DEF R
  <2> DEFINE m == n + 1
  <2>2. m \in Int
    BY <2>1
  <2>3. \A i \in m..Len(s) : s[i] \in R
    BY <1>2
  <2> HIDE DEF m
  <2>4. /\ SubSeq(s, m, Len(s)) \in Seq(R)
        /\ Len(SubSeq(s, m, Len(s))) = IF m <= Len(s) THEN Len(s) - m + 1 ELSE 0
    BY <2>1, <2>2, <2>3, SubSeqProperties
  <2>5. m \in Nat /\ m >= 1 /\ Len(s) \in Nat
    BY <1>1 DEF m
  <2>6. Len(SubSeq(s, m, Len(s))) =< Len(s)
    BY <2>4, <2>5
  <2> QED BY <2>4, <2>6 DEF m
<1> QED BY <1>1, <1>3, SeqIsSeq

\* Sequences of no element, of one and of two.
LEMMA SeqSmall == /\ IsSeq(<<>>) /\ Len(<<>>) = 0
                  /\ \A x : IsSeq(<<x>>)
                  /\ \A x, y : IsSeq(<<x, y>>)
<1>1. <<>> \in Seq({})
  OBVIOUS
<1>2. \A x : <<x>> \in Seq({x})
  OBVIOUS
<1>3. \A x, y : <<x, y>> \in Seq({x, y})
  OBVIOUS
<1> QED BY <1>1, <1>2, <1>3, SeqIsSeq

\* What read and write do with a text of at most two chunks.
LEMMA SmallTexts ==
  ASSUME NEW x, NEW y
  PROVE  /\ <<x>> # <<>> /\ <<x, y>> # <<>>
         /\ SubSeq(<<x>>, 1, 1) = <<x>> /\ SubSeq(<<x, y>>, 1, 1) = <<x>>
         /\ SubSeq(<<x, y>>, 1, 2) = <<x, y>>
         /\ Append(<<>>, x) = <<x>> /\ Head(<<x, y>>) = x /\ Head(<<x>>) = x
         /\ Append(<<x>>, y) = <<x, y>>
         /\ Tail(<<x>>) = <<>> /\ Tail(<<x, y>>) = <<y>>
<1> DEFINE S == {x, y}
<1>1. /\ <<>> \in Seq(S) /\ <<x>> \in Seq(S) /\ <<y>> \in Seq(S) /\ <<x, y>> \in Seq(S)
      /\ Len(<<>>) = 0 /\ Len(<<x>>) = 1 /\ Len(<<x, y>>) = 2
      /\ <<x>>[1] = x /\ <<y>>[1] = y /\ <<x, y>>[1] = x /\ <<x, y>>[2] = y
      /\ x \in S /\ y \in S
  OBVIOUS
<1> HIDE DEF S
<1>2. <<x>> # <<>> /\ <<x, y>> # <<>>
  BY <1>1
<1>3. SubSeq(<<x>>, 1, 1) = <<x>>
  BY <1>1, SubSeqFull
<1>4. SubSeq(<<x, y>>, 1, 2) = <<x, y>>
  BY <1>1, SubSeqFull
<1>5. SubSeq(<<x, y>>, 1, 1) = <<x>>
  <2>1. /\ SubSeq(<<x, y>>, 1, 1) \in Seq(S)
        /\ Len(SubSeq(<<x, y>>, 1, 1)) = 1
        /\ SubSeq(<<x, y>>, 1, 1)[1] = x
    <3>1. \A i \in 1..1 : <<x, y>>[i] \in S
      BY <1>1
    <3> DEFINE t == <<x, y>>
    <3>2. /\ SubSeq(t, 1, 1) \in Seq(S)
          /\ Len(SubSeq(t, 1, 1)) = IF 1 <= 1 THEN 1 - 1 + 1 ELSE 0
          /\ \A i \in 1 .. 1 - 1 + 1 : SubSeq(t, 1, 1)[i] = t[1 + i - 1]
      <4>1. \A i \in 1..1 : t[i] \in S
        BY <3>1
      <4> HIDE DEF t
      <4> QED BY <4>1, SubSeqProperties
    <3>3. t[1] = x
      OBVIOUS
    <3> HIDE DEF t
    <3>4. SubSeq(t, 1, 1) \in Seq(S) /\ Len(SubSeq(t, 1, 1)) = 1 /\ SubSeq(t, 1, 1)[1] = x
      BY <3>2, <3>3
    <3> QED BY <3>4 DEF t
  <2>2. Len(SubSeq(<<x, y>>, 1, 1)) = Len(<<x>>)
    BY <1>1, <2>1
  <2>3. \A i \in 1..Len(SubSeq(<<x, y>>, 1, 1)) : SubSeq(<<x, y>>, 1, 1)[i] = <<x>>[i]
    BY <1>1, <2>1
  <2> QED BY <1>1, <2>1, <2>2, <2>3, SeqEqual
<1>6. Append(<<>>, x) = <<x>> /\ Head(<<x, y>>) = x /\ Head(<<x>>) = x
  OBVIOUS
<1>7. Append(<<x>>, y) = <<x, y>>
  <2> DEFINE s == <<x>>  t == <<x, y>>
  <2>1. s \in Seq(S) /\ t \in Seq(S) /\ Len(s) = 1 /\ s[1] = x /\ Len(t) = 2 /\ t[1] = x /\ t[2] = y
    BY <1>1
  <2> HIDE DEF s, t
  <2>2. /\ Append(s, y) \in Seq(S) /\ Len(Append(s, y)) = 2
        /\ Append(s, y)[1] = x /\ Append(s, y)[2] = y
    <3>1. y \in S
      BY <1>1
    <3>2. /\ Append(s, y) \in Seq(S) /\ Len(Append(s, y)) = Len(s) + 1
          /\ \A i \in 1..Len(s) : Append(s, y)[i] = s[i]
          /\ Append(s, y)[Len(s) + 1] = y
      <4>1. s \in Seq(S)
        BY <2>1
      <4> HIDE <2>1
      <4>2. Append(s, y) \in Seq(S)
        BY <3>1, <4>1
      <4>3. Len(Append(s, y)) = Len(s) + 1
        BY <3>1, <4>1
      <4>4. \A i \in 1..Len(s) : Append(s, y)[i] = s[i]
        BY <3>1, <4>1
      <4>5. Append(s, y)[Len(s) + 1] = y
        BY <3>1, <4>1
      <4> QED BY <4>2, <4>3, <4>4, <4>5
    <3> QED BY <2>1, <3>2
  <2>3. Append(s, y) = t
    BY <2>1, <2>2, SeqEqual
  <2> QED BY <2>3 DEF s, t
<1>8. Tail(<<x>>) = <<>>
  OBVIOUS
<1>9. Tail(<<x, y>>) = <<y>>
  OBVIOUS
<1> QED BY <1>2, <1>3, <1>4, <1>5, <1>6, <1>7, <1>8, <1>9

\* The beginnings of what ls writes.
LEMMA LsTexts ==
  /\ IsPrefix(<<>>, <<"a", "b">>) /\ IsPrefix(<<"a">>, <<"a", "b">>)
  /\ IsPrefix(<<"a", "b">>, <<"a", "b">>)
<1>1. ASSUME NEW s PROVE SubSeq(s, 1, 0) = <<>>
  <2>1. 1 \in Int /\ 0 \in Int /\ 0 < 1
    OBVIOUS
  <2>2. \A m, n \in Int : n < m => SubSeq(s, m, n) = <<>>
    BY SubSeqEmpty
  <2> QED BY <2>1, <2>2
<1> QED BY <1>1, SmallTexts DEF IsPrefix

\* A set of numbers that is not empty has a smallest one.
LEMMA SmallestOf ==
  ASSUME NEW S \in SUBSET Nat, S # {}
  PROVE  Min(S) \in S /\ \A y \in S : Min(S) =< y
<1>1. PICK x \in S : \A y \in S : x =< y
  <2> DEFINE R == {ss \in Nat \X Nat : ss[1] < ss[2]}
  <2>1. IsWellFoundedOn(R, Nat)
    BY NatLessThanWellFounded DEF OpToRel
  <2> HIDE DEF R
  <2>2. PICK x \in S : \A y \in S : <<y, x>> \notin R
    BY <2>1, WFMin
  <2>3. \A y \in S : ~(y < x) /\ y \in Nat /\ x \in Nat
    BY <2>2 DEF R
  <2> QED BY <2>3
<1> QED BY <1>1 DEF Min

\* What the constants are.
LEMMA Numbers ==
  /\ Pids \subseteq Nat /\ 1 \in Pids /\ 0 \notin Pids /\ Pipes \subseteq Nat
  /\ MaxPid \in Nat /\ MaxTyped \in Nat /\ Capacity \in Nat /\ Capacity > 0
BY KernelAssumption DEF Pids, Pipes

\* fork's pid is a new one.
LEMMA NextPid ==
  ASSUME FreePids # {}
  PROVE  /\ Min(FreePids) \in Pids \ {1} /\ At(Min(FreePids), "none")
<1>1. FreePids \in SUBSET Nat
  BY Numbers DEF FreePids
<1>2. Min(FreePids) \in FreePids
  BY <1>1, SmallestOf
<1> QED BY <1>2 DEF FreePids

\* pipe's pipe is one that nobody holds.
LEMMA NextPipe == ASSUME FreePipes # {} PROVE Min(FreePipes) \in Pipes
<1>1. FreePipes \in SUBSET Nat
  BY Numbers DEF FreePipes
<1> QED BY <1>1, SmallestOf DEF FreePipes
-----------------------------------------------------------------------------
(* The kernel *)

\* The children of the program itself are the same, and belong to the same lines.
SameFamily ==
    /\ Children(1)' = Children(1)
    /\ \A q \in Children(1) : proc'[q].line = proc[q].line /\ proc'[q].fg = proc[q].fg

\* Closing and duplicating descriptors makes no pipe longer.
LEMMA SetFdsKeeps ==
  ASSUME PipesRoomy, NEW f, SetFds(f)
  PROVE  PipesRoomy' /\ fd' = f
<1>1. DOMAIN pipe' = Pipes
  BY DEF SetFds
<1>2. \A k \in Pipes : pipe'[k] \in {pipe[k], <<>>}
  BY DEF SetFds
<1>3. \A k \in Pipes : IsSeq(pipe'[k]) /\ Len(pipe'[k]) =< Capacity
  BY <1>2, SeqSmall, Numbers DEF PipesRoomy
<1> QED BY <1>1, <1>3 DEF PipesRoomy, SetFds

\* A process that goes on leaves the others alone.
LEMMA BecomesKeeps ==
  ASSUME Kernel, NEW p \in Pids, NEW r, NEW f \in [Fds -> Ends], Becomes(p, r, f),
         GoodProc(r), r.pc \notin {"none", "zombie"}
  PROVE  /\ Kernel'
         /\ DOMAIN proc' = Pids /\ proc'[p] = r /\ \A q \in Pids \ {p} : proc'[q] = proc[q]
         /\ fd'[p] = f /\ \A q \in Pids \ {p} : fd'[q] = fd[q]
<1>1. DOMAIN proc' = Pids /\ proc'[p] = r /\ \A q \in Pids \ {p} : proc'[q] = proc[q]
  BY DEF Kernel, Procs, Becomes
<1>2. PipesRoomy' /\ fd' = [fd EXCEPT ![p] = f]
  BY SetFdsKeeps DEF Kernel, Becomes
<1>3. fd' \in [Pids -> [Fds -> Ends]] /\ fd'[p] = f /\ \A q \in Pids \ {p} : fd'[q] = fd[q]
  BY <1>2 DEF Kernel, Descriptors
<1>4. Procs'
  BY <1>1 DEF Kernel, Procs
<1>5. Descriptors'
  BY <1>1, <1>3 DEF Kernel, Descriptors, Alive, At
<1> QED BY <1>1, <1>2, <1>3, <1>4, <1>5 DEF Kernel, Becomes

\* A process goes on, as a child of the same parent.
LEMMA OneChanges ==
  ASSUME Kernel, NEW p \in Pids, Alive(p), DOMAIN proc' = Pids, Alive(p)',
         proc'[p].parent = proc[p].parent, proc'[p].line = proc[p].line,
         proc'[p].fg = proc[p].fg,
         \A q \in Pids \ {p} : proc'[q] = proc[q]
  PROVE  SameFamily
<1>1. \A q \in Pids :
        /\ proc'[q].parent = proc[q].parent /\ proc'[q].line = proc[q].line
        /\ proc'[q].fg = proc[q].fg
        /\ At(q, "none")' = At(q, "none")
  BY DEF Alive, At
<1>2. Children(1)' = Children(1)
  BY <1>1 DEF Children
<1> QED BY <1>1, <1>2 DEF SameFamily, Children

\* fork adds one process, a copy of the descriptors of which is its own.
LEMMA ForksKeeps ==
  ASSUME Kernel, NEW p \in Pids, NEW r, NEW s, NEW f \in [Fds -> Ends], Forks(p, r, s, f),
         GoodProc(r), r.pc \notin {"none", "zombie"}, Alive(p),
         GoodProc(s), s.pc \notin {"none", "zombie"}
  PROVE  /\ Kernel'
         /\ \E c \in Pids \ {1, p} :
              /\ At(c, "none") /\ c = Min(FreePids)
              /\ DOMAIN proc' = Pids /\ proc'[p] = r /\ proc'[c] = [s EXCEPT !.parent = p]
              /\ \A q \in Pids \ {p, c} : proc'[q] = proc[q]
              /\ fd'[p] = f /\ fd'[c] = f /\ \A q \in Pids \ {p, c} : fd'[q] = fd[q]
<1> DEFINE c == Min(FreePids)
<1>1. c \in Pids \ {1} /\ At(c, "none")
  BY NextPid DEF Forks
<1>2. c # p
  BY <1>1 DEF At, Alive
<1>0. proc' = [proc EXCEPT ![p] = r, ![c] = [s EXCEPT !.parent = p]]
  BY DEF Forks
<1>9. PipesRoomy' /\ fd' = [fd EXCEPT ![p] = f, ![c] = f]
  BY SetFdsKeeps DEF Kernel, Forks
<1> HIDE DEF c
<1>3. DOMAIN proc' = Pids /\ proc'[p] = r /\ proc'[c] = [s EXCEPT !.parent = p]
      /\ \A q \in Pids \ {p, c} : proc'[q] = proc[q]
  BY <1>0, <1>1, <1>2 DEF Kernel, Procs
<1>4. /\ fd' \in [Pids -> [Fds -> Ends]] /\ fd'[p] = f /\ fd'[c] = f
      /\ \A q \in Pids \ {p, c} : fd'[q] = fd[q]
  BY <1>1, <1>2, <1>9 DEF Kernel, Descriptors
<1>5. GoodProc([s EXCEPT !.parent = p]) /\ [s EXCEPT !.parent = p].pc = s.pc
  <2>1. p \in 0..MaxPid
    BY Numbers DEF Pids
  <2> QED BY <2>1 DEF GoodProc, NoProc
<1>6. Procs'
  BY <1>3, <1>5 DEF Kernel, Procs
<1>7. Descriptors'
  BY <1>3, <1>4, <1>5 DEF Kernel, Descriptors, Alive, At
<1> QED BY <1>1, <1>2, <1>3, <1>4, <1>6, <1>7, <1>9 DEF Kernel, Forks, c

\* exit closes the descriptors, and orphans children.
LEMMA ExitsKeeps ==
  ASSUME Kernel, NEW p \in Pids, Exits(p)
  PROVE  /\ Kernel'
         /\ DOMAIN proc' = Pids
         /\ fd'[p] = NoFds /\ \A q \in Pids \ {p} : fd'[q] = fd[q]
         /\ proc'[p].pc = IF proc[p].parent = 0 THEN "none" ELSE "zombie"
         /\ proc'[p].parent = proc[p].parent
         /\ proc[p].parent # 0 => proc'[p].line = proc[p].line /\ proc'[p].fg = proc[p].fg
         /\ \A q \in Pids \ {p} :
              proc'[q] = IF proc[q].parent # p THEN proc[q]
                         ELSE IF At(q, "zombie") THEN NoProc
                         ELSE [proc[q] EXCEPT !.parent = 0]
<1>1. /\ DOMAIN proc' = Pids
      /\ \A q \in Pids \ {p} :
              proc'[q] = IF proc[q].parent # p THEN proc[q]
                         ELSE IF At(q, "zombie") THEN NoProc
                         ELSE [proc[q] EXCEPT !.parent = 0]
  BY DEF Exits
<1>2. proc'[p] = IF proc[p].parent = 0 THEN NoProc
                 ELSE [NoProc EXCEPT !.pc = "zombie", !.parent = proc[p].parent,
                                     !.line = proc[p].line, !.fg = proc[p].fg]
  BY DEF Exits
<1>3. GoodProc(NoProc) /\ NoProc.pc = "none" /\ NoProc.parent = 0
  BY SeqSmall, Numbers DEF GoodProc, NoProc
<1>4. GoodProc(proc'[p])
  BY <1>2, <1>3 DEF Kernel, Procs, GoodProc, NoProc
<1>5. /\ proc'[p].pc = IF proc[p].parent = 0 THEN "none" ELSE "zombie"
      /\ proc'[p].parent = proc[p].parent
      /\ proc[p].parent # 0 => proc'[p].line = proc[p].line /\ proc'[p].fg = proc[p].fg
  <2> DEFINE z == [NoProc EXCEPT !.pc = "zombie", !.parent = proc[p].parent,
                                 !.line = proc[p].line, !.fg = proc[p].fg]
  <2>1. /\ z.pc = "zombie" /\ z.parent = proc[p].parent
        /\ z.line = proc[p].line /\ z.fg = proc[p].fg
    BY DEF NoProc
  <2> HIDE DEF z
  <2>2. CASE proc[p].parent = 0
    BY <1>2, <1>3, <2>2
  <2>3. CASE proc[p].parent # 0
    BY <1>2, <2>1, <2>3 DEF z
  <2> QED BY <2>2, <2>3
<1>6. ASSUME NEW q \in Pids \ {p}
      PROVE  GoodProc(proc'[q]) /\ (proc'[q].pc = proc[q].pc \/ At(q, "zombie"))
  <2>1. GoodProc([proc[q] EXCEPT !.parent = 0]) /\ [proc[q] EXCEPT !.parent = 0].pc = proc[q].pc
    BY Numbers DEF Kernel, Procs, GoodProc, NoProc
  <2>2. GoodProc(proc[q])
    BY DEF Kernel, Procs
  <2> QED BY <1>1, <1>3, <2>1, <2>2
<1>7. Procs'
  BY <1>1, <1>4, <1>6 DEF Procs
<1>8. PipesRoomy' /\ fd' = [fd EXCEPT ![p] = NoFds]
  BY SetFdsKeeps DEF Kernel, Exits, NoFds
<1>9. NoFds \in [Fds -> Ends]
  BY DEF NoFds, Ends
<1>10. fd' \in [Pids -> [Fds -> Ends]] /\ fd'[p] = NoFds /\ \A q \in Pids \ {p} : fd'[q] = fd[q]
  BY <1>8, <1>9 DEF Kernel, Descriptors
<1>11. Descriptors'
  BY <1>6, <1>10 DEF Kernel, Descriptors, Alive, At
<1>12. over' \subseteq 0..MaxTyped
  BY DEF Exits, Kernel, Procs, GoodProc
<1> QED BY <1>1, <1>5, <1>7, <1>8, <1>10, <1>11, <1>12 DEF Kernel

\* Whoever else ends, the children of the program stay.
LEMMA ExitsFamily ==
  ASSUME Kernel, NEW p \in Pids \ {1}, Exits(p), Alive(p)
  PROVE  SameFamily
<1>1. \A q \in Pids \ {p} : q \in Children(1) => proc'[q] = proc[q]
  BY ExitsKeeps DEF Children
<1>2. p \in Children(1) =>
        /\ p \in Children(1)'
        /\ proc'[p].line = proc[p].line /\ proc'[p].fg = proc[p].fg
  BY ExitsKeeps DEF Children, At
<1>3. \A q \in Pids : q \in Children(1)' => q \in Children(1)
  <2> SUFFICES ASSUME NEW q \in Pids, q \in Children(1)' PROVE q \in Children(1)
    OBVIOUS
  <2>1. CASE q = p
    BY <2>1, ExitsKeeps DEF Children, Alive, At
  <2>2. CASE q # p
    <3>1. proc'[q].parent = 1 /\ proc'[q].pc # "none"
      BY DEF Children, At
    <3>2. NoProc.parent # 1 /\ [proc[q] EXCEPT !.parent = 0].parent # 1
      BY DEF NoProc, Kernel, Procs, GoodProc
    <3>3. proc'[q] = proc[q]
      BY <2>2, <3>1, <3>2, ExitsKeeps
    <3> QED BY <3>1, <3>3 DEF Children, At
  <2> QED BY <2>1, <2>2
<1>4. Children(1)' = Children(1)
  BY <1>1, <1>2, <1>3 DEF Children, At
<1> QED BY <1>1, <1>2, <1>4 DEF SameFamily, Children

\* wait takes one child that has ended.
LEMMA ReapsKeeps ==
  ASSUME Kernel, NEW p \in Pids, NEW q \in Pids, NEW c, Reaps(p, q, c), Alive(p),
         c \notin {"none", "zombie"}
  PROVE  /\ Kernel' /\ q # p /\ DOMAIN proc' = Pids
         /\ proc'[p] = [proc[p] EXCEPT !.pc = c] /\ proc'[q] = NoProc
         /\ \A x \in Pids \ {p, q} : proc'[x] = proc[x]
<1>1. q # p
  BY DEF Reaps, Alive, At
<1>2. /\ DOMAIN proc' = Pids
      /\ proc'[p] = [proc[p] EXCEPT !.pc = c] /\ proc'[q] = NoProc
      /\ \A x \in Pids \ {p, q} : proc'[x] = proc[x]
  BY <1>1 DEF Reaps, Kernel, Procs
<1>3. GoodProc(NoProc) /\ NoProc.pc = "none"
  BY SeqSmall, Numbers DEF GoodProc, NoProc
<1>4. GoodProc([proc[p] EXCEPT !.pc = c]) /\ [proc[p] EXCEPT !.pc = c].pc = c
  BY DEF Kernel, Procs, GoodProc, NoProc
<1>5. Procs'
  BY <1>2, <1>3, <1>4 DEF Kernel, Procs
<1>6. Descriptors'
  <2>1. fd' = fd /\ At(q, "zombie")
    BY DEF Reaps
  <2>2. ASSUME NEW x \in Pids, ~Alive(x)' PROVE ~Alive(x)
    <3>1. x # p
      BY <1>2, <1>4, <2>2 DEF Alive, At
    <3>2. CASE x = q
      BY <2>1, <3>2 DEF Alive, At
    <3>3. CASE x # q
      BY <1>2, <2>2, <3>1, <3>3 DEF Alive, At
    <3> QED BY <3>2, <3>3
  <2> QED BY <2>1, <2>2 DEF Kernel, Descriptors
<1>7. PipesRoomy' /\ over' \subseteq 0..MaxTyped
  BY DEF Kernel, PipesRoomy, Reaps
<1> QED BY <1>1, <1>2, <1>5, <1>6, <1>7 DEF Kernel

\* write puts a chunk in a pipe that has room.
LEMMA PutsKeeps ==
  ASSUME Kernel, NEW p \in Pids, NEW r, NEW e \in Fds, NEW x, Puts(p, r, fd[p][e], x),
         HasRoom(fd[p][e]),
         GoodProc(r), r.pc \notin {"none", "zombie"}, Alive(p)
  PROVE  /\ Kernel' /\ fd' = fd
         /\ DOMAIN proc' = Pids /\ proc'[p] = r /\ \A q \in Pids \ {p} : proc'[q] = proc[q]
<1>1. DOMAIN proc' = Pids /\ proc'[p] = r /\ \A q \in Pids \ {p} : proc'[q] = proc[q]
  BY DEF Puts, Kernel, Procs
<1>2. Procs' /\ Descriptors'
  BY <1>1 DEF Kernel, Procs, Descriptors, Alive, At, Puts
<1>3. PipesRoomy'
  <2> DEFINE o == fd[p][e]
  <2>1. o \in Ends
    BY DEF Kernel, Descriptors
  <2>2. CASE o[1] = "w"
    <3>1. o[2] \in Pipes
      BY <2>1, <2>2 DEF Ends, Closed, Tty, InFile, OutFile
    <3>2. pipe' = [pipe EXCEPT ![o[2]] = Append(@, x)]
      BY <2>2 DEF Puts
    <3>3. Len(pipe[o[2]]) < Capacity
      BY <2>2 DEF HasRoom
    <3> HIDE DEF o
    <3>4. IsSeq(Append(pipe[o[2]], x)) /\ Len(Append(pipe[o[2]], x)) =< Capacity
      <4>1. IsSeq(pipe[o[2]])
        BY <3>1 DEF Kernel, PipesRoomy
      <4>2. IsSeq(Append(pipe[o[2]], x)) /\ Len(pipe[o[2]]) \in Nat
            /\ Len(Append(pipe[o[2]], x)) = Len(pipe[o[2]]) + 1
        BY <4>1, SeqAppend
      <4> QED BY <3>3, <4>2, Numbers
    <3>5. DOMAIN pipe' = Pipes /\ \A k \in Pipes : pipe'[k] \in {pipe[k], Append(pipe[o[2]], x)}
      BY <3>1, <3>2 DEF Kernel, PipesRoomy
    <3> QED BY <3>4, <3>5 DEF Kernel, PipesRoomy
  <2>3. CASE o[1] # "w"
    BY <2>3 DEF Puts, Kernel, PipesRoomy
  <2> QED BY <2>2, <2>3
<1> QED BY <1>1, <1>2, <1>3 DEF Puts, Kernel

\* read takes chunks out of a pipe.
LEMMA TakesKeeps ==
  ASSUME Kernel, NEW p \in Pids, NEW r, NEW e \in Fds, NEW n \in Nat, Takes(p, r, fd[p][e], n),
         fd[p][e][1] = "r",
         GoodProc(r), r.pc \notin {"none", "zombie"}, Alive(p)
  PROVE  /\ Kernel' /\ fd' = fd
         /\ DOMAIN proc' = Pids /\ proc'[p] = r /\ \A q \in Pids \ {p} : proc'[q] = proc[q]
<1>1. DOMAIN proc' = Pids /\ proc'[p] = r /\ \A q \in Pids \ {p} : proc'[q] = proc[q]
  BY DEF Takes, Kernel, Procs
<1>2. Procs' /\ Descriptors'
  BY <1>1 DEF Kernel, Procs, Descriptors, Alive, At, Takes
<1>3. PipesRoomy'
  <2> DEFINE o == fd[p][e]  s == SubSeq(pipe[o[2]], n + 1, Len(pipe[o[2]]))
  <2>1. o \in Ends
    BY DEF Kernel, Descriptors
  <2>2. o[2] \in Pipes
    BY <2>1 DEF Ends, Closed, Tty, InFile, OutFile
  <2>3. pipe' = [pipe EXCEPT ![o[2]] = s]
    BY DEF Takes
  <2> HIDE DEF o
  <2>4. IsSeq(s) /\ Len(s) =< Len(pipe[o[2]]) /\ Len(pipe[o[2]]) \in Nat /\ Len(s) \in Nat
    <3>1. IsSeq(pipe[o[2]])
      BY <2>2 DEF Kernel, PipesRoomy
    <3>2. IsSeq(s) /\ Len(s) =< Len(pipe[o[2]]) /\ Len(pipe[o[2]]) \in Nat
      BY <3>1, SeqDrop
    <3> QED BY <3>2, SeqIsSeq DEF IsSeq
  <2> HIDE DEF s
  <2>5. DOMAIN pipe' = Pipes /\ \A k \in Pipes : pipe'[k] \in {pipe[k], s}
    BY <2>2, <2>3 DEF Kernel, PipesRoomy
  <2>6. Len(pipe[o[2]]) =< Capacity
    BY <2>2 DEF Kernel, PipesRoomy
  <2>7. Len(s) =< Capacity
    BY <2>4, <2>6, Numbers
  <2> QED BY <2>4, <2>5, <2>7 DEF Kernel, PipesRoomy
<1> QED BY <1>1, <1>2, <1>3 DEF Takes, Kernel
-----------------------------------------------------------------------------
(* Steps that leave the program itself and its children as they are *)

\* What a step of another process leaves to the program.
Others == Kernel' /\ SameFamily /\ proc'[1] = proc[1]

\* The end of another process is such a step.
LEMMA ExitsOthers ==
  ASSUME Kernel, Main, NEW p \in Pids \ {1}, Exits(p), Alive(p)
  PROVE  Others
<1>1. proc[1].parent # p
  BY Numbers DEF Main
<1>2. proc'[1] = proc[1]
  BY <1>1, ExitsKeeps, Numbers
<1> QED BY <1>2, ExitsKeeps, ExitsFamily DEF Others

\* So is one after which it goes on.
LEMMA BecomesOthers ==
  ASSUME Kernel, NEW p \in Pids \ {1}, NEW r, NEW f \in [Fds -> Ends], Becomes(p, r, f),
         GoodProc(r), r.pc \notin {"none", "zombie"}, Alive(p),
         r.parent = proc[p].parent, r.line = proc[p].line, r.fg = proc[p].fg
  PROVE  Others
<1>1. /\ Kernel'
      /\ DOMAIN proc' = Pids /\ proc'[p] = r /\ \A q \in Pids \ {p} : proc'[q] = proc[q]
  BY BecomesKeeps
<1>2. SameFamily
  BY <1>1, OneChanges DEF Alive, At
<1> QED BY <1>1, <1>2, Numbers DEF Others

\* What a command writes is a sequence.
LEMMA CommandOutput == \A c \in Commands : IsSeq(Output(c))
<1>1. \A c \in Commands : Output(c) \in {<<>>, <<"a", "b">>, <<"y">>}
  BY DEF Commands, Output
<1> QED BY <1>1, SeqSmall

\* exec of another process, or its end.
LEMMA ExecsOthers ==
  ASSUME Kernel, Main, NEW p \in Pids \ {1}, NEW words, NEW f \in [Fds -> Ends],
         Execs(p, words, f), Alive(p)
  PROVE  Others
<1> DEFINE r == [proc[p] EXCEPT !.pc = "run", !.argv = words, !.does = words[1],
                                !.held = Output(words[1])]
<1>1. CASE words # <<>> /\ words[1] \in Commands /\ Becomes(p, r, f)
  <2>1. IsSeq(Output(words[1]))
    BY <1>1, CommandOutput
  <2>2. GoodProc(proc[p])
    BY DEF Kernel, Procs
  <2>3. /\ GoodProc(r) /\ r.pc = "run"
        /\ r.parent = proc[p].parent /\ r.line = proc[p].line /\ r.fg = proc[p].fg
    BY <2>1, <2>2 DEF GoodProc, NoProc
  <2> HIDE DEF r
  <2> QED BY <1>1, <2>3, BecomesOthers
<1>2. CASE Exits(p)
  BY <1>2, ExitsOthers
<1> QED BY <1>1, <1>2 DEF Execs

\* A command's read or write, or its end.
LEMMA RunOthers ==
  ASSUME Kernel, Main, NEW p \in Pids, RunWrite(p) \/ RunRead(p)
  PROVE  Others /\ p # 1
<1>1. p # 1
  BY DEF Main, RunWrite, RunRead, At, Prompt, MainCalls
<1>2. Alive(p) /\ proc[p].pc = "run"
  BY DEF RunWrite, RunRead, At, Alive
<1>3. GoodProc(proc[p])
  BY DEF Kernel, Procs
<1>a. {0, 1} \subseteq Fds
  BY DEF Fds
<1>4. CASE RunWrite(p)
  <2>1. CASE Broken(fd[p][1]) /\ Exits(p)
    BY <1>1, <1>2, <2>1, ExitsOthers
  <2>2. CASE /\ HasRoom(fd[p][1])
             /\ Puts(p, [proc[p] EXCEPT !.held = IF proc[p].does = "yes" THEN @ ELSE Tail(@)],
                  fd[p][1], Head(proc[p].held))
    <3> DEFINE h == IF proc[p].does = "yes" THEN proc[p].held ELSE Tail(proc[p].held)
               r == [proc[p] EXCEPT !.held = h]
    <3>1. IsSeq(h)
      BY <1>3, <1>4, SeqTail DEF RunWrite, GoodProc
    <3>2. Puts(p, r, fd[p][1], Head(proc[p].held))
      BY <2>2
    <3> HIDE DEF h
    <3>3. /\ GoodProc(r) /\ r.pc = "run"
          /\ r.parent = proc[p].parent /\ r.line = proc[p].line /\ r.fg = proc[p].fg
      BY <1>2, <1>3, <3>1 DEF GoodProc, NoProc
    <3> HIDE DEF r
    <3>4. /\ Kernel' /\ DOMAIN proc' = Pids /\ proc'[p] = r
          /\ \A q \in Pids \ {p} : proc'[q] = proc[q]
      BY <1>2, <1>a, <2>2, <3>2, <3>3, PutsKeeps
    <3>5. SameFamily
      BY <1>2, <3>3, <3>4, OneChanges DEF Alive, At
    <3> QED BY <1>1, <3>4, <3>5, Numbers DEF Others
  <2> QED BY <1>4, <2>1, <2>2 DEF RunWrite
<1>5. CASE RunRead(p)
  <2>1. CASE (proc[p].does = "ls" \/ AtEof(fd[p][0])) /\ Exits(p)
    BY <1>1, <1>2, <2>1, ExitsOthers
  <2>2. CASE /\ proc[p].does # "ls" /\ HasData(fd[p][0])
             /\ Takes(p, [proc[p] EXCEPT !.held = <<Head(pipe[fd[p][0][2]])>>,
                                      !.does = IF @ = "head" THEN "ls" ELSE @],
                   fd[p][0], 1)
    <3> DEFINE h == <<Head(pipe[fd[p][0][2]])>>
               r == [proc[p] EXCEPT !.held = h, !.does = IF @ = "head" THEN "ls" ELSE @]
    <3>1. IsSeq(h)
      BY SeqSmall
    <3>2. Takes(p, r, fd[p][0], 1)
      BY <2>2
    <3> HIDE DEF h
    <3>3. /\ GoodProc(r) /\ r.pc = "run"
          /\ r.parent = proc[p].parent /\ r.line = proc[p].line /\ r.fg = proc[p].fg
      BY <1>2, <1>3, <3>1 DEF GoodProc, NoProc
    <3> HIDE DEF r
    <3>4. fd[p][0][1] = "r"
      BY <2>2 DEF HasData
    <3>5. /\ Kernel' /\ DOMAIN proc' = Pids /\ proc'[p] = r
          /\ \A q \in Pids \ {p} : proc'[q] = proc[q]
      BY <1>2, <1>a, <3>2, <3>3, <3>4, TakesKeeps
    <3>6. SameFamily
      BY <1>2, <3>3, <3>5, OneChanges DEF Alive, At
    <3> QED BY <1>1, <3>5, <3>6, Numbers DEF Others
  <2> QED BY <1>5, <2>1, <2>2 DEF RunRead
<1> QED BY <1>1, <1>4, <1>5

\* A step of another process keeps what is said of the program's family.
LEMMA OthersKeep ==
  ASSUME Family, Others, UNCHANGED jobVars, input' = input, died' \in BOOLEAN
  PROVE  Family'
<1> USE DEF Others, SameFamily, jobVars
<1>1. Main'
  BY DEF Family, Main
<1>2. Histories'
  BY DEF Family, Histories, At, Shell
<1>3. ChildrenAgree'
  BY DEF Family, ChildrenAgree, Shell, At
<1>4. Lines'
  BY DEF Family, Lines, At
<1> QED BY <1>1, <1>2, <1>3, <1>4 DEF Family
-----------------------------------------------------------------------------
(* Steps of the shells themselves *)

\* What no step of a shell changes.
HistoryKept == program' = program /\ input' = input /\ died' = died

\* The counters are numbers.
LEMMA HistoryTypes ==
  ASSUME Family
  PROVE  /\ typed \in Nat /\ background \in Nat /\ background =< typed /\ typed =< MaxTyped
         /\ \A q \in Pids : proc[q].line \in Nat
<1>1. typed \in 0..MaxTyped /\ background \in 0..typed
  BY DEF Family, Histories
<1>2. \A q \in Pids : proc[q].line \in 0..MaxTyped
  BY DEF Family, Kernel, Procs, GoodProc
<1> QED BY <1>1, <1>2, Numbers

\* A shell that goes on between its prompt and its calls, without fork or wait.
LEMMA ShellMoves ==
  ASSUME Family, Shell, Kernel', SameFamily, HistoryKept, background' = background,
         proc[1].pc \in Prompt, proc'[1].parent = 0,
         \/ typed' = typed /\ proc'[1].pc \in {"start", "echoes_for_ever"}
         \/ typed' = typed + 1 /\ typed < MaxTyped /\ proc'[1].pc \in Prompt
  PROVE  Family'
<1> USE DEF SameFamily, HistoryKept
<1>1. Main'
  BY DEF Main, Prompt, MainCalls
<1>2. Histories'
  <2>1. typed' \in 0..MaxTyped /\ background' \in 0..typed' /\ typed' \in {typed, typed + 1}
    <3>1. typed \in Nat /\ background \in Nat /\ background =< typed /\ typed =< MaxTyped
          /\ MaxTyped \in Nat
      BY HistoryTypes, Numbers
    <3>2. CASE typed' = typed
      BY <3>1, <3>2
    <3>3. CASE typed' = typed + 1 /\ typed < MaxTyped
      BY <3>1, <3>3
    <3> QED BY <3>2, <3>3
  <2>2. At(1, "run_command")' => background' < typed'
    BY HistoryTypes DEF At
  <2> QED BY <2>1, <2>2 DEF Family, Histories, Shell
<1>3. ChildrenAgree'
  <2>1. Cardinality(Children(1)) = background
    BY DEF Family, ChildrenAgree
  <2>2. proc'[1].pc # "waitpid"
    BY DEF Prompt
  <2> QED BY <2>1, <2>2 DEF ChildrenAgree, At
<1>4. Lines'
  <2> SUFFICES ASSUME program = "HW5", NEW q \in Children(1)
               PROVE  /\ proc'[q].line =< typed'
                      /\ At(1, "run_command")' => proc'[q].line < typed'
                      /\ proc'[q].fg => FALSE
                      /\ \A r \in Children(1) : proc'[q].line = proc'[r].line => q = r
    BY DEF Lines
  <2>1. proc'[q].line = proc[q].line /\ proc'[q].fg = proc[q].fg
    OBVIOUS
  <2>2. proc[q].line \in Nat /\ typed \in Nat
    BY HistoryTypes DEF Children
  <2>3. proc[q].line =< typed
    BY DEF Family, Lines
  <2>4. proc[q].fg => FALSE
    BY DEF Family, Lines, Prompt, At
  <2>5. \A r \in Children(1) : proc'[q].line = proc'[r].line => q = r
    BY DEF Family, Lines
  <2>6. /\ proc'[q].line =< typed'
        /\ At(1, "run_command")' => proc'[q].line < typed'
    <3>1. CASE typed' = typed /\ proc'[1].pc \in {"start", "echoes_for_ever"}
      BY <2>1, <2>3, <3>1 DEF At
    <3>2. CASE typed' = typed + 1
      BY <2>1, <2>2, <2>3, <3>2
    <3> QED BY <3>1, <3>2
  <2> QED BY <2>1, <2>4, <2>5, <2>6
<1> QED BY <1>1, <1>2, <1>3, <1>4 DEF Family

\* The end of the program: whoever was its child has none.
LEMMA MainEnds ==
  ASSUME Family, Exits(1), UNCHANGED <<jobVars, input>>, died' \in BOOLEAN
  PROVE  Family'
<1> USE DEF jobVars
<1>1. Kernel' /\ proc'[1].pc = "none" /\ proc'[1].parent = 0
  BY ExitsKeeps, Numbers DEF Family, Main
<1>2. Main'
  BY <1>1 DEF Main, MainCalls
<1>3. Children(1)' = {}
  <2> SUFFICES ASSUME NEW q \in Pids PROVE proc'[q].parent # 1
    BY DEF Children
  <2>1. NoProc.parent # 1 /\ [proc[q] EXCEPT !.parent = 0].parent # 1
    BY DEF NoProc, Family, Kernel, Procs, GoodProc
  <2>2. CASE q = 1
    BY <1>1, <2>2
  <2>3. CASE q # 1
    BY <2>1, <2>3, ExitsKeeps, Numbers DEF Family
  <2> QED BY <2>2, <2>3
<1>4. Histories'
  BY <1>1 DEF Family, Histories, At, Shell
<1>5. ChildrenAgree'
  BY <1>1 DEF ChildrenAgree, Prompt, At
<1>6. Lines'
  BY <1>3 DEF Lines
<1> QED BY <1>1, <1>2, <1>4, <1>5, <1>6 DEF Family

\* The children can be counted.
LEMMA ChildrenFinite == IsFiniteSet(Children(1)) /\ Cardinality(Children(1)) \in Nat
<1>1. IsFiniteSet(Pids)
  BY FS_Interval, Numbers DEF Pids
<1>2. Children(1) \subseteq Pids
  BY DEF Children
<1> QED BY <1>1, <1>2, FS_Subset, FS_CardinalityType

\* A shell's fork: one child more, of the latest line.
LEMMA ShellForks ==
  ASSUME Family, Shell, At(1, "run_command"), NEW r, NEW s, Forks(1, r, s, fd[1]),
         GoodProc(r), r.parent = 0, NEW bg \in BOOLEAN, r.pc = IF bg THEN "start" ELSE "waitpid",
         GoodProc(s), s.pc \notin {"none", "zombie"}, s.line = typed, s.fg = ~bg,
         HistoryKept, typed' = typed, background' = background + IF bg THEN 1 ELSE 0
  PROVE  Family'
<1> USE DEF HistoryKept
<1>0. Alive(1) /\ fd[1] \in [Fds -> Ends] /\ r.pc \notin {"none", "zombie"}
  BY Numbers DEF Alive, At, Family, Kernel, Descriptors
<1>1. Kernel'
  BY <1>0, ForksKeeps, Numbers DEF Family
<1>2. PICK c \in Pids \ {1} :
              /\ At(c, "none")
              /\ proc'[1] = r /\ proc'[c] = [s EXCEPT !.parent = 1]
              /\ \A q \in Pids \ {1, c} : proc'[q] = proc[q]
  BY <1>0, ForksKeeps, Numbers DEF Family
<1>3. /\ proc'[c].pc = s.pc /\ proc'[c].parent = 1 /\ proc'[c].line = typed
      /\ proc'[c].fg = ~bg
  BY <1>2 DEF GoodProc, NoProc
<1>4. Children(1)' = Children(1) \union {c} /\ c \notin Children(1) /\ 1 \notin Children(1)
  <2>1. c \notin Children(1) /\ 1 \notin Children(1) /\ 1 \notin Children(1)'
    BY <1>2 DEF Children, At, Family, Main
  <2>2. c \in Children(1)'
    BY <1>3 DEF Children, At
  <2>3. \A q \in Pids \ {1, c} : q \in Children(1)' <=> q \in Children(1)
    BY <1>2 DEF Children, At
  <2>4. Children(1) \subseteq Pids /\ Children(1)' \subseteq Pids
    BY DEF Children
  <2> QED BY <2>1, <2>2, <2>3, <2>4
<1>5. Main'
  BY <1>2 DEF Main, Prompt, MainCalls
<1>6. background \in Nat /\ typed \in Nat /\ background < typed
  BY HistoryTypes DEF Family, Histories
<1>7. Histories'
  <2>1. background' \in 0..typed' /\ ~At(1, "run_command")'
    BY <1>2, <1>6 DEF At
  <2> QED BY <2>1 DEF Family, Histories, Shell
<1>8. Cardinality(Children(1)) = background
  BY DEF Family, ChildrenAgree, Prompt, At
<1>9. Cardinality(Children(1)') = background + 1
  BY <1>4, <1>8, ChildrenFinite, FS_AddElement
<1>10. ChildrenAgree'
  BY <1>2, <1>6, <1>9 DEF ChildrenAgree, Prompt, At
<1>11. Lines'
  <2> SUFFICES ASSUME program = "HW5", NEW q \in Children(1)'
               PROVE  /\ proc'[q].line =< typed
                      /\ At(1, "run_command")' => proc'[q].line < typed
                      /\ proc'[q].fg => At(1, "waitpid")' /\ proc'[q].line = typed
                      /\ \A x \in Children(1)' : proc'[q].line = proc'[x].line => q = x
    BY DEF Lines
  <2>1. ~At(1, "run_command")' /\ (~bg => At(1, "waitpid")')
    BY <1>2 DEF At
  <2>2. \A x \in Children(1) : x \in Pids /\ x # 1 /\ x # c /\ proc'[x] = proc[x]
    BY <1>2, <1>4 DEF Children
  <2>3. \A x \in Children(1) : proc'[x].line \in Nat /\ proc'[x].line < typed /\ ~proc'[x].fg
    BY <2>2 DEF Family, Kernel, Procs, GoodProc, Lines, At
  <2>4. \A x, y \in Children(1) : proc'[x].line = proc'[y].line => x = y
    BY <2>2 DEF Family, Lines
  <2>5. CASE q = c
    <3>1. proc'[q].line = typed /\ (proc'[q].fg => At(1, "waitpid")')
      BY <1>3, <2>1, <2>5
    <3>2. \A x \in Children(1)' : proc'[q].line = proc'[x].line => q = x
      BY <1>4, <1>6, <2>3, <2>5, <3>1
    <3> QED BY <1>6, <2>1, <3>1, <3>2
  <2>6. CASE q # c
    BY <1>3, <1>4, <1>6, <2>1, <2>3, <2>4, <2>6
  <2> QED BY <2>5, <2>6
<1> QED BY <1>1, <1>5, <1>7, <1>10, <1>11 DEF Family

\* A shell's wait: one child less, and the foreground one in HW5.
LEMMA ShellReaps ==
  ASSUME Family, Shell, At(1, "waitpid"), NEW q \in Pids, Reaps(1, q, "start"),
         program = "HW5" => proc[q].line = typed,
         HistoryKept, UNCHANGED <<typed, background>>
  PROVE  Family'
<1> USE DEF HistoryKept
<1>0. Alive(1)
  BY DEF Alive, At
<1>1. /\ Kernel' /\ q # 1 /\ proc'[1] = [proc[1] EXCEPT !.pc = "start"] /\ proc'[q] = NoProc
      /\ \A x \in Pids \ {1, q} : proc'[x] = proc[x]
  BY <1>0, ReapsKeeps, Numbers DEF Family
<1>2. proc'[1].pc = "start" /\ proc'[1].parent = 0
  BY <1>1, Numbers DEF Family, Main, Kernel, Procs, GoodProc, NoProc
<1>3. q \in Children(1)
  BY DEF Reaps, Children, At
<1>4. NoProc.pc = "none"
  BY DEF NoProc
<1>5. Children(1)' = Children(1) \ {q}
  <2>1. 1 \notin Children(1) /\ 1 \notin Children(1)'
    BY <1>2 DEF Children, Family, Main
  <2>2. q \notin Children(1)'
    BY <1>1, <1>4 DEF Children, At
  <2>3. \A x \in Pids \ {1, q} : x \in Children(1)' <=> x \in Children(1)
    BY <1>1 DEF Children, At
  <2>4. Children(1) \subseteq Pids /\ Children(1)' \subseteq Pids
    BY DEF Children
  <2> QED BY <2>1, <2>2, <2>3, <2>4
<1>6. Main'
  BY <1>2 DEF Main, Prompt
<1>7. Histories'
  BY <1>2 DEF Family, Histories, At, Shell
<1>8. Cardinality(Children(1)) = background + 1 /\ background \in Nat
  BY HistoryTypes DEF Family, ChildrenAgree
<1>9. Cardinality(Children(1)') = background
  BY <1>3, <1>5, <1>8, ChildrenFinite, FS_RemoveElement
<1>10. ChildrenAgree'
  BY <1>2, <1>9 DEF ChildrenAgree, At
<1>11. Lines'
  <2> SUFFICES ASSUME program = "HW5", NEW x \in Children(1)'
               PROVE  /\ proc'[x].line =< typed
                      /\ ~proc'[x].fg
                      /\ \A y \in Children(1)' : proc'[x].line = proc'[y].line => x = y
    BY <1>2 DEF Lines, At
  <2>1. \A y \in Children(1)' : y \in Children(1) /\ y # q /\ proc'[y] = proc[y]
    BY <1>1, <1>2, <1>4, <1>5 DEF Children, Family, Main
  <2>2. proc[x].line =< typed /\ (proc[x].fg => proc[x].line = proc[q].line)
    BY <2>1 DEF Family, Lines
  <2>3. proc[x].line # proc[q].line
    BY <1>3, <2>1 DEF Family, Lines
  <2>4. \A y \in Children(1)' : proc'[x].line = proc'[y].line => x = y
    BY <2>1 DEF Family, Lines
  <2> QED BY <2>1, <2>2, <2>3, <2>4
<1> QED BY <1>1, <1>6, <1>7, <1>10, <1>11 DEF Family
-----------------------------------------------------------------------------
(* The actions of the shells *)

\* What close, dup2 and pipe make of descriptors.
LEMMA FdOperators ==
  ASSUME NEW f \in [Fds -> Ends]
  PROVE  /\ \A E : Close(f, E) \in [Fds -> Ends]
         /\ \A old, new \in Fds : Dup2(f, old, new) \in [Fds -> Ends]
         /\ \A r, w \in Fds, k \in Pipes : WithPipe(f, r, w, k) \in [Fds -> Ends]
         /\ {0, 1, 3, 4, 5, 6} \subseteq Fds
<1>1. Closed \in Ends /\ \A k \in Pipes : <<"r", k>> \in Ends /\ <<"w", k>> \in Ends
  BY DEF Ends
<1>2. \A E : Close(f, E) \in [Fds -> Ends]
  BY <1>1 DEF Close
<1>3. \A old, new \in Fds : Dup2(f, old, new) \in [Fds -> Ends]
  BY DEF Dup2
<1>4. \A r, w \in Fds, k \in Pipes : WithPipe(f, r, w, k) \in [Fds -> Ends]
  BY <1>1 DEF WithPipe
<1>5. {0, 1, 3, 4, 5, 6} \subseteq Fds
  BY DEF Fds
<1> QED BY <1>2, <1>3, <1>4, <1>5

\* Each process has its fields and its descriptors.
LEMMA ProcTypes ==
  ASSUME Family, NEW p \in Pids
  PROVE  /\ GoodProc(proc[p]) /\ fd[p] \in [Fds -> Ends]
<1>1. GoodProc(proc[p]) /\ fd[p] \in [Fds -> Ends]
  BY DEF Family, Kernel, Procs, Descriptors
<1> QED BY <1>1

\* The program goes on, at another call.
LEMMA MainBecomes ==
  ASSUME Family, NEW r, NEW f \in [Fds -> Ends], Becomes(1, r, f), Alive(1),
         GoodProc(r), r.pc \notin {"none", "zombie"},
         r.parent = proc[1].parent, r.line = proc[1].line, r.fg = proc[1].fg
  PROVE  Kernel' /\ SameFamily /\ proc'[1] = r /\ proc'[1].parent = 0
<1>1. /\ Kernel' /\ DOMAIN proc' = Pids /\ proc'[1] = r
      /\ \A q \in Pids \ {1} : proc'[q] = proc[q]
  BY Numbers, BecomesKeeps DEF Family
<1>2. SameFamily
  BY <1>1, Numbers, OneChanges DEF Alive, At, Family
<1> QED BY <1>1, <1>2 DEF Family, Main

\* HW3's shell.
LEMMA JobShellKeeps ==
  ASSUME Family, NEW p \in Pids, Alive(p), JobShellStep(p), UNCHANGED showVars
  PROVE  Family'
<1> USE DEF showVars
<1>a. input' = input /\ died' = died /\ died' \in BOOLEAN
  BY DEF Family, Histories
<1>b. fd[1] \in [Fds -> Ends]
  BY ProcTypes, Numbers
<1>1. CASE p = 1 /\ Fgets
  <2>1. Shell /\ At(1, "start") /\ typed < MaxTyped /\ Alive(1)
    BY <1>1 DEF Fgets, Shell
  <2>2. PICK line \in JobLines :
         Becomes(1, [proc[1] EXCEPT !.argv = Parse(line),
                       !.pc = IF Parse(line) = <<>> THEN "start"
                              ELSE IF IsBuiltin(Parse(line)) THEN "do_builtin"
                              ELSE "run_command"], fd[1])
    BY <1>1 DEF Fgets
  <2> DEFINE c == IF Parse(line) = <<>> THEN "start"
                  ELSE IF IsBuiltin(Parse(line)) THEN "do_builtin" ELSE "run_command"
             r == [proc[1] EXCEPT !.argv = Parse(line), !.pc = c]
  <2>3. c \in Prompt
    BY DEF Prompt
  <2>4. Becomes(1, r, fd[1])
    BY <2>2
  <2> HIDE DEF c
  <2>5. /\ GoodProc(r) /\ r.pc = c /\ r.parent = proc[1].parent
        /\ r.line = proc[1].line /\ r.fg = proc[1].fg
    BY ProcTypes, Numbers DEF GoodProc, NoProc
  <2> HIDE DEF r
  <2>6. Kernel' /\ SameFamily /\ proc'[1] = r /\ proc'[1].parent = 0
    BY <1>b, <2>1, <2>3, <2>4, <2>5, MainBecomes DEF Prompt
  <2>7. typed' = typed + 1 /\ HistoryKept /\ background' = background
    BY <1>1, <1>a DEF Fgets, HistoryKept
  <2> QED BY <2>1, <2>3, <2>5, <2>6, <2>7, ShellMoves DEF At, Prompt
<1>2. CASE p = 1 /\ FgetsEof
  BY <1>2, <1>a, MainEnds DEF FgetsEof, jobVars
<1>3. CASE p = 1 /\ DoBuiltin
  <2>1. Shell /\ At(1, "do_builtin") /\ UNCHANGED jobVars /\ Alive(1)
    BY <1>3 DEF DoBuiltin, Shell
  <2>2. CASE Goes(1, "start")
    <3> DEFINE r == [proc[1] EXCEPT !.pc = "start"]
    <3>1. /\ GoodProc(r) /\ r.pc = "start" /\ r.parent = proc[1].parent
          /\ r.line = proc[1].line /\ r.fg = proc[1].fg
      BY ProcTypes, Numbers DEF GoodProc, NoProc
    <3>2. Becomes(1, r, fd[1])
      BY <2>2 DEF Goes
    <3> HIDE DEF r
    <3>3. Kernel' /\ SameFamily /\ proc'[1] = r /\ proc'[1].parent = 0
      BY <1>b, <2>1, <3>1, <3>2, MainBecomes
    <3>4. HistoryKept /\ background' = background /\ typed' = typed
      BY <2>1, <1>a DEF HistoryKept, jobVars
    <3> QED BY <2>1, <3>1, <3>3, <3>4, ShellMoves DEF At, Prompt
  <2>3. CASE Exits(1)
    BY <2>1, <2>3, <1>a, MainEnds DEF jobVars
  <2> QED BY <1>3, <2>2, <2>3 DEF DoBuiltin
<1>4. CASE p = 1 /\ RunCommand
  <2>1. CASE Exits(1) /\ background' = background
    BY <1>4, <1>a, <2>1, MainEnds DEF RunCommand, jobVars
  <2>2. CASE LET bg == IsBackground(proc[1].argv) IN
            /\ Forks(1, [proc[1] EXCEPT !.pc = IF bg THEN "start" ELSE "waitpid", !.argv = <<>>],
                     [proc[1] EXCEPT !.pc = "exec", !.line = typed, !.fg = ~bg], fd[1])
            /\ background' = background + IF bg THEN 1 ELSE 0
    <3> DEFINE bg == IsBackground(proc[1].argv)
               r == [proc[1] EXCEPT !.pc = IF bg THEN "start" ELSE "waitpid", !.argv = <<>>]
               s == [proc[1] EXCEPT !.pc = "exec", !.line = typed, !.fg = ~bg]
    <3>1. Forks(1, r, s, fd[1]) /\ background' = background + IF bg THEN 1 ELSE 0
      BY <2>2
    <3>2. bg \in BOOLEAN
      BY DEF IsBackground
    <3> HIDE DEF bg
    <3>3. GoodProc(r) /\ r.pc = (IF bg THEN "start" ELSE "waitpid") /\ r.parent = 0
      BY ProcTypes, Numbers DEF Family, Main, GoodProc, NoProc
    <3>4. GoodProc(s) /\ s.pc = "exec" /\ s.line = typed /\ s.fg = ~bg
      <4>1. typed \in 0..MaxTyped
        BY DEF Family, Histories
      <4>2. GoodProc(proc[1])
        BY ProcTypes, Numbers
      <4> QED BY <4>1, <4>2 DEF GoodProc, NoProc
    <3>5. Shell /\ At(1, "run_command") /\ typed' = typed /\ HistoryKept
      BY <1>4, <1>a DEF RunCommand, HistoryKept, Shell
    <3> HIDE DEF r, s
    <3> QED BY <3>1, <3>2, <3>3, <3>4, <3>5, ShellForks
  <2> QED BY <1>4, <2>1, <2>2 DEF RunCommand
<1>5. CASE p = 1 /\ Waitpid
  <2>1. Shell /\ At(1, "waitpid") /\ UNCHANGED jobVars /\ program # "HW5"
    BY <1>5 DEF Waitpid, Shell
  <2>2. PICK q \in Pids : Reaps(1, q, "start")
    BY <1>5 DEF Waitpid
  <2>3. HistoryKept /\ UNCHANGED <<typed, background>>
    BY <2>1, <1>a DEF HistoryKept, jobVars
  <2> QED BY <2>1, <2>2, <2>3, ShellReaps
<1>6. CASE ChildExec(p)
  <2>1. p # 1
    BY <1>6 DEF ChildExec, Family, Main, At, Prompt, MainCalls
  <2>2. \E words : Execs(p, words, fd[p])
    BY <1>6 DEF ChildExec
  <2>3. Others
    BY <2>1, <2>2, ProcTypes, ExecsOthers DEF Family
  <2> QED BY <1>6, <1>a, <2>3, OthersKeep DEF ChildExec
<1> QED BY <1>1, <1>2, <1>3, <1>4, <1>5, <1>6 DEF JobShellStep

\* HW5's shell.
LEMMA PipeShellKeeps ==
  ASSUME Family, NEW p \in Pids, Alive(p), PipeShellStep(p), UNCHANGED showVars
  PROVE  Family'
<1> USE DEF showVars
<1>a. input' = input /\ died' = died /\ died' \in BOOLEAN
  BY DEF Family, Histories
<1>b. fd[1] \in [Fds -> Ends]
  BY ProcTypes, Numbers
<1>c. fd[p] \in [Fds -> Ends]
  BY ProcTypes
<1>1. CASE p = 1 /\ PFgets
  <2>1. Shell /\ At(1, "start") /\ typed < MaxTyped /\ Alive(1)
    BY <1>1 DEF PFgets, Shell
  <2>2. PICK line \in PipeLines : LET words == ParseLine(line) IN
         Becomes(1, [proc[1] EXCEPT !.argv = words,
                       !.pc = IF words = <<>> THEN "start"
                              ELSE IF words[1] \in BuiltinTable THEN "do_builtin"
                              ELSE "run_command"], fd[1])
    BY <1>1 DEF PFgets
  <2> DEFINE words == ParseLine(line)
             c == IF words = <<>> THEN "start"
                  ELSE IF words[1] \in BuiltinTable THEN "do_builtin" ELSE "run_command"
             r == [proc[1] EXCEPT !.argv = words, !.pc = c]
  <2>3. c \in Prompt
    BY DEF Prompt
  <2>4. Becomes(1, r, fd[1])
    BY <2>2
  <2> HIDE DEF c, words
  <2>5. /\ GoodProc(r) /\ r.pc = c /\ r.parent = proc[1].parent
        /\ r.line = proc[1].line /\ r.fg = proc[1].fg
    BY ProcTypes, Numbers DEF GoodProc, NoProc
  <2> HIDE DEF r
  <2>6. Kernel' /\ SameFamily /\ proc'[1] = r /\ proc'[1].parent = 0
    BY <1>b, <2>1, <2>3, <2>4, <2>5, MainBecomes DEF Prompt
  <2>7. typed' = typed + 1 /\ HistoryKept /\ background' = background
    BY <1>1, <1>a DEF PFgets, HistoryKept
  <2> QED BY <2>1, <2>3, <2>5, <2>6, <2>7, ShellMoves DEF At, Prompt
<1>2. CASE p = 1 /\ PFgetsEof
  BY <1>2, <1>a, MainEnds DEF PFgetsEof, jobVars
<1>3. CASE p = 1 /\ PDoBuiltin
  <2>1. Shell /\ At(1, "do_builtin") /\ UNCHANGED jobVars /\ Alive(1)
    BY <1>3 DEF PDoBuiltin, Shell
  <2>2. PICK c \in AfterBuiltin(proc[1].argv) : IF c = "exit" THEN Exits(1) ELSE Goes(1, c)
    BY <1>3 DEF PDoBuiltin
  <2>3. c \in {"exit", "start", "echoes_for_ever"}
    BY DEF AfterBuiltin
  <2>4. CASE c # "exit"
    <3> DEFINE r == [proc[1] EXCEPT !.pc = c]
    <3>1. /\ GoodProc(r) /\ r.pc = c /\ r.parent = proc[1].parent
          /\ r.line = proc[1].line /\ r.fg = proc[1].fg
      BY ProcTypes, Numbers DEF GoodProc, NoProc
    <3>2. Becomes(1, r, fd[1])
      BY <2>2, <2>4 DEF Goes
    <3> HIDE DEF r
    <3>3. Kernel' /\ SameFamily /\ proc'[1] = r /\ proc'[1].parent = 0
      BY <1>b, <2>1, <2>3, <2>4, <3>1, <3>2, MainBecomes
    <3>4. HistoryKept /\ background' = background /\ typed' = typed
      BY <2>1, <1>a DEF HistoryKept, jobVars
    <3> QED BY <2>1, <2>3, <2>4, <3>1, <3>3, <3>4, ShellMoves DEF At, Prompt
  <2>5. CASE c = "exit"
    BY <2>1, <2>2, <2>5, <1>a, MainEnds DEF jobVars
  <2> QED BY <2>4, <2>5
<1>4. CASE p = 1 /\ PRunCommand
  <2>1. CASE Exits(1) /\ background' = background
    BY <1>4, <1>a, <2>1, MainEnds DEF PRunCommand, jobVars
  <2>2. CASE LET bg == Ampersand(proc[1].argv) IN
            /\ Forks(1, [proc[1] EXCEPT !.pc = IF bg THEN "start" ELSE "waitpid",
                                        !.argv = <<>>],
                     [proc[1] EXCEPT !.pc = "redirect", !.line = typed, !.fg = ~bg,
                                     !.stage = 1, !.words = proc[1].argv], fd[1])
            /\ background' = background + IF bg THEN 1 ELSE 0
    <3> DEFINE bg == Ampersand(proc[1].argv)
               r == [proc[1] EXCEPT !.pc = IF bg THEN "start" ELSE "waitpid", !.argv = <<>>]
               s == [proc[1] EXCEPT !.pc = "redirect", !.line = typed, !.fg = ~bg,
                                    !.stage = 1, !.words = proc[1].argv]
    <3>1. Forks(1, r, s, fd[1]) /\ background' = background + IF bg THEN 1 ELSE 0
      BY <2>2
    <3>2. bg \in BOOLEAN
      BY DEF Ampersand
    <3> HIDE DEF bg
    <3>3. GoodProc(r) /\ r.pc = (IF bg THEN "start" ELSE "waitpid") /\ r.parent = 0
      BY ProcTypes, Numbers DEF Family, Main, GoodProc, NoProc
    <3>4. GoodProc(s) /\ s.pc = "redirect" /\ s.line = typed /\ s.fg = ~bg
      <4>1. typed \in 0..MaxTyped
        BY DEF Family, Histories
      <4>2. GoodProc(proc[1])
        BY ProcTypes, Numbers
      <4> QED BY <4>1, <4>2 DEF GoodProc, NoProc
    <3>5. Shell /\ At(1, "run_command") /\ typed' = typed /\ HistoryKept
      BY <1>4, <1>a DEF PRunCommand, HistoryKept, Shell
    <3> HIDE DEF r, s
    <3> QED BY <3>1, <3>2, <3>3, <3>4, <3>5, ShellForks
  <2> QED BY <1>4, <2>1, <2>2 DEF PRunCommand
<1>5. CASE p = 1 /\ PWaitpid
  <2>1. Shell /\ At(1, "waitpid") /\ UNCHANGED jobVars
    BY <1>5 DEF PWaitpid, Shell
  <2>2. PICK q \in Pids : proc[q].line = typed /\ Reaps(1, q, "start")
    BY <1>5 DEF PWaitpid
  <2>3. HistoryKept /\ UNCHANGED <<typed, background>>
    BY <2>1, <1>a DEF HistoryKept, jobVars
  <2> QED BY <2>1, <2>2, <2>3, ShellReaps
<1>6. ASSUME Redirect(p) \/ ExecWhole(p) \/ SplitPipe(p) \/ LeftExec(p) \/ RightRedirect(p)
      PROVE  Family'
  <2>1. p # 1 /\ UNCHANGED jobVars
    BY <1>6 DEF Family, Main, At, Prompt, MainCalls, Redirect, ExecWhole, SplitPipe, LeftExec,
                RightRedirect
  <2>2. CASE Redirect(p)
    <3> DEFINE words == Before("<", proc[p].argv)  a == Before(">", words)
               f == RedirectOut(words, RedirectIn(proc[p].argv, fd[p]))
               r == [proc[p] EXCEPT !.pc = "pipe_and_exec", !.argv = a]
    <3>1. Exits(p) \/ Becomes(p, r, f)
      BY <2>2 DEF Redirect
    <3>2. InFile \in Ends /\ OutFile \in Ends
      BY DEF Ends
    <3>3. RedirectIn(proc[p].argv, fd[p]) \in [Fds -> Ends]
      BY <1>c, <3>2 DEF RedirectIn
    <3>4. f \in [Fds -> Ends]
      BY <3>2, <3>3 DEF RedirectOut
    <3> HIDE DEF words, a, f
    <3>5. /\ GoodProc(r) /\ r.pc = "pipe_and_exec" /\ r.parent = proc[p].parent
          /\ r.line = proc[p].line /\ r.fg = proc[p].fg
      BY ProcTypes DEF GoodProc, NoProc
    <3> HIDE DEF r
    <3>6. Others
      BY <2>1, <3>1, <3>4, <3>5, ExitsOthers, BecomesOthers DEF Family
    <3> QED BY <1>a, <2>1, <3>6, OthersKeep
  <2>3. CASE ExecWhole(p)
    <3>1. Execs(p, proc[p].argv, fd[p]) \/ Exits(p)
      BY <2>3 DEF ExecWhole
    <3>2. Others
      BY <1>c, <2>1, <3>1, ExitsOthers, ExecsOthers DEF Family
    <3> QED BY <1>a, <2>1, <3>2, OthersKeep
  <2>4. CASE SplitPipe(p)
    <3>1. CASE Exits(p)
      BY <1>a, <2>1, <3>1, OthersKeep, ExitsOthers DEF Family
    <3>2. CASE /\ FreePipes # {}
               /\ Forks(p, [proc[p] EXCEPT !.pc = "left"],
                        [proc[p] EXCEPT !.pc = "right", !.stage = @ + 1],
                        WithPipe(fd[p], 3, 4, Min(FreePipes)))
      <4> DEFINE r == [proc[p] EXCEPT !.pc = "left"]
                 s == [proc[p] EXCEPT !.pc = "right", !.stage = @ + 1]
                 f == WithPipe(fd[p], 3, 4, Min(FreePipes))
      <4>1. f \in [Fds -> Ends]
        BY <1>c, <3>2, NextPipe, FdOperators
      <4>2. Forks(p, r, s, f)
        BY <3>2
      <4>3. /\ GoodProc(r) /\ r.pc = "left" /\ r.parent = proc[p].parent
            /\ r.line = proc[p].line /\ r.fg = proc[p].fg
        BY ProcTypes DEF GoodProc, NoProc
      <4>4. GoodProc(s) /\ s.pc = "right"
        BY ProcTypes DEF GoodProc, NoProc
      <4> HIDE DEF r, s, f
      <4>5. /\ Kernel'
            /\ \E c \in Pids \ {1, p} :
                 /\ At(c, "none")
                 /\ DOMAIN proc' = Pids /\ proc'[p] = r /\ proc'[c] = [s EXCEPT !.parent = p]
                 /\ \A q \in Pids \ {p, c} : proc'[q] = proc[q]
        BY <4>1, <4>2, <4>3, <4>4, ForksKeeps DEF Family
      <4>6. PICK c \in Pids \ {1, p} :
                 /\ At(c, "none")
                 /\ DOMAIN proc' = Pids /\ proc'[p] = r /\ proc'[c] = [s EXCEPT !.parent = p]
                 /\ \A q \in Pids \ {p, c} : proc'[q] = proc[q]
        BY <4>5
      <4>7. proc'[c].parent = p
        BY <4>4, <4>6 DEF GoodProc, NoProc
      <4>8. c \notin Children(1) /\ c \notin Children(1)'
        BY <2>1, <4>6, <4>7 DEF Children
      <4>9. \A q \in Pids \ {c} : /\ q \in Children(1)' <=> q \in Children(1)
                                  /\ proc'[q].line = proc[q].line /\ proc'[q].fg = proc[q].fg
        BY <4>3, <4>6 DEF Children, At, Alive
      <4>10. SameFamily
        <5>1. Children(1) \subseteq Pids /\ Children(1)' \subseteq Pids
          BY DEF Children
        <5>2. \A q \in Pids : q \in Children(1)' <=> q \in Children(1)
          BY <4>8, <4>9
        <5>3. Children(1)' = Children(1)
          BY <5>1, <5>2
        <5>4. \A q \in Children(1) : proc'[q].line = proc[q].line /\ proc'[q].fg = proc[q].fg
          BY <4>8, <4>9, <5>1
        <5> QED BY <5>3, <5>4 DEF SameFamily
      <4>11. Others
        BY <2>1, <4>5, <4>6, <4>10, Numbers DEF Others
      <4> QED BY <1>a, <2>1, <4>11, OthersKeep
    <3> QED BY <2>4, <3>1, <3>2 DEF SplitPipe
  <2>5. CASE LeftExec(p)
    <3>1. \E words : Execs(p, words, Close(Dup2(fd[p], 4, 1), {3, 4}))
      BY <2>5 DEF LeftExec
    <3>2. Close(Dup2(fd[p], 4, 1), {3, 4}) \in [Fds -> Ends]
      BY <1>c, FdOperators
    <3>3. Others
      BY <2>1, <3>1, <3>2, ExecsOthers DEF Family
    <3> QED BY <1>a, <2>1, <3>3, OthersKeep
  <2>6. CASE RightRedirect(p)
    <3> DEFINE a == SubSeq(proc[p].argv, pipe_present(proc[p].argv) + 1, Len(proc[p].argv))
               r == [proc[p] EXCEPT !.pc = "pipe_and_exec", !.argv = a]
               f == Close(Dup2(fd[p], 3, 0), {3, 4})
    <3>1. Becomes(p, r, f)
      BY <2>6 DEF RightRedirect
    <3>2. f \in [Fds -> Ends]
      BY <1>c, FdOperators
    <3> HIDE DEF a, f
    <3>3. /\ GoodProc(r) /\ r.pc = "pipe_and_exec" /\ r.parent = proc[p].parent
          /\ r.line = proc[p].line /\ r.fg = proc[p].fg
      BY ProcTypes DEF GoodProc, NoProc
    <3> HIDE DEF r
    <3>4. Others
      BY <2>1, <3>1, <3>2, <3>3, BecomesOthers DEF Family
    <3> QED BY <1>a, <2>1, <3>4, OthersKeep
  <2> QED BY <1>6, <2>2, <2>3, <2>4, <2>5, <2>6
<1> QED BY <1>1, <1>2, <1>3, <1>4, <1>5, <1>6 DEF PipeShellStep
-----------------------------------------------------------------------------
(* The actions of 44_1 *)

\* What a process holds an end of is not lost.
LEMMA PipeKept ==
  ASSUME NEW f, SetFds(f), NEW k \in Pipes, NEW p \in Pids, NEW e \in Fds,
         fd'[p][e] \in {<<"r", k>>, <<"w", k>>}
  PROVE  pipe'[k] = pipe[k]
<1>1. Held(k, fd')
  BY DEF Held
<1> QED BY <1>1 DEF SetFds

\* An empty pipe stays so when descriptors change.
LEMMA PipeSame ==
  ASSUME NEW f, SetFds(f), NEW k \in Pipes
  PROVE  pipe'[k] \in {pipe[k], <<>>}
BY DEF SetFds

\* A program that is no shell keeps the family when the kernel's state is right.
LEMMA OtherProgram ==
  ASSUME Family, ~Shell, Kernel', Main', program' = program, background' = background,
         typed' \in {typed, typed + 1}, typed' =< MaxTyped,
         input' \in {<<>>} \union {<<x>> : x \in Text}, died' \in BOOLEAN
  PROVE  Family'
<1>1. typed' \in 0..MaxTyped /\ background' \in 0..typed'
  <2>1. /\ typed \in Nat /\ background \in Nat /\ background =< typed /\ typed =< MaxTyped
        /\ MaxTyped \in Nat
    BY HistoryTypes, Numbers
  <2> QED BY <2>1
<1>2. Histories'
  BY <1>1 DEF Family, Histories, Shell
<1>3. ChildrenAgree' /\ Lines'
  BY DEF ChildrenAgree, Lines, Shell
<1> QED BY <1>2, <1>3 DEF Family

\* What 44_1 and pipe_ls do to themselves.
LEMMA MainGoesOn ==
  ASSUME Family, ~Shell, NEW r, NEW f \in [Fds -> Ends], Becomes(1, r, f), Alive(1),
         GoodProc(r), r.pc \in MainCalls \ {"none"}, r.parent = 0,
         UNCHANGED jobVars,
         input' \in {<<>>} \union {<<x>> : x \in Text}, died' \in BOOLEAN
  PROVE  /\ Family'
         /\ proc'[1] = r /\ \A q \in Pids \ {1} : proc'[q] = proc[q]
         /\ fd'[1] = f /\ \A q \in Pids \ {1} : fd'[q] = fd[q]
         /\ SetFds([fd EXCEPT ![1] = f])
<1>1. r.pc \notin {"none", "zombie"}
  BY DEF MainCalls
<1>2. /\ Kernel'
      /\ proc'[1] = r /\ \A q \in Pids \ {1} : proc'[q] = proc[q]
      /\ fd'[1] = f /\ \A q \in Pids \ {1} : fd'[q] = fd[q]
  BY <1>1, Numbers, BecomesKeeps DEF Family
<1>3. Main'
  BY <1>2 DEF Main
<1>4. program' = program /\ background' = background /\ typed' = typed /\ typed =< MaxTyped
  BY HistoryTypes DEF jobVars
<1> QED BY <1>2, <1>3, <1>4, OtherProgram DEF Becomes

\* 44_1 ends.
LEMMA UpperMainEnds ==
  ASSUME Family, UpperRight, program = "44_1", Exits(1), UNCHANGED <<jobVars, showVars>>
  PROVE  Family' /\ UpperRight'
<1> USE DEF jobVars, showVars
<1>1. Family'
  BY MainEnds DEF Family, Histories
<1>2. proc'[1].pc = "none"
  BY ExitsKeeps, Numbers DEF Family, Main
<1>3. ASSUME NEW q \in Pids \ {1}
      PROVE  proc'[q].pc \in {"none", "zombie", "child", "copy"}
  <2>1. NoProc.pc = "none" /\ [proc[q] EXCEPT !.parent = 0].pc = proc[q].pc
    BY DEF NoProc, Family, Kernel, Procs, GoodProc
  <2>2. proc[q].pc \in {"none", "zombie", "child", "copy"}
    BY DEF UpperRight
  <2>3. proc'[q] \in {proc[q], NoProc, [proc[q] EXCEPT !.parent = 0]}
    BY ExitsKeeps, Numbers DEF Family
  <2> QED BY <2>1, <2>2, <2>3
<1>4. UpperRight'
  BY <1>2, <1>3 DEF UpperRight, At, Exchanging, Written
<1> QED BY <1>1, <1>4

\* A record changed in some fields.
LEMMA ProcOne ==
  ASSUME Family
  PROVE  GoodProc(proc[1]) /\ proc[1].parent = 0 /\ fd[1] \in [Fds -> Ends]
BY ProcTypes, Numbers DEF Family, Main

\* 44_1 makes its pipes and its child.
LEMMA UpperStarts ==
  ASSUME Family, UpperRight, UpperStart
  PROVE  Family' /\ UpperRight'
<1>0. program = "44_1" /\ At(1, "start") /\ ~Shell /\ Alive(1) /\ UNCHANGED <<jobVars, showVars>>
  BY DEF UpperStart, In44_1, Shell, Alive, At
<1> USE DEF jobVars, showVars
<1>1. CASE Exits(1)
  BY <1>0, <1>1, UpperMainEnds
<1>2. CASE \E j, k \in FreePipes : j < k /\
            Forks(1, [proc[1] EXCEPT !.pc = "close_unused"],
                  [NoProc EXCEPT !.pc = "child"],
                  WithPipe(WithPipe(fd[1], 3, 4, j), 5, 6, k))
  <2>1. PICK j \in Pipes, k \in Pipes : j < k /\
            Forks(1, [proc[1] EXCEPT !.pc = "close_unused"],
                  [NoProc EXCEPT !.pc = "child"],
                  WithPipe(WithPipe(fd[1], 3, 4, j), 5, 6, k))
    BY <1>2 DEF FreePipes
  <2> DEFINE r == [proc[1] EXCEPT !.pc = "close_unused"]
             s == [NoProc EXCEPT !.pc = "child"]
             g == WithPipe(fd[1], 3, 4, j)
             f == WithPipe(g, 5, 6, k)
  <2>2. g \in [Fds -> Ends] /\ f \in [Fds -> Ends]
    BY ProcOne, FdOperators
  <2>3. f[3] = <<"r", j>> /\ f[4] = <<"w", j>> /\ f[5] = <<"r", k>> /\ f[6] = <<"w", k>>
    <3>1. {3, 4, 5, 6} \subseteq Fds
      BY DEF Fds
    <3>2. g[3] = <<"r", j>> /\ g[4] = <<"w", j>>
      BY <3>1, ProcOne DEF WithPipe
    <3> HIDE DEF g
    <3>3. f[5] = <<"r", k>> /\ f[6] = <<"w", k>> /\ f[3] = g[3] /\ f[4] = g[4]
      BY <2>2, <3>1 DEF WithPipe
    <3> QED BY <3>2, <3>3
  <2>4. /\ GoodProc(r) /\ r.pc = "close_unused" /\ r.parent = 0 /\ r.held = proc[1].held
        /\ GoodProc(s) /\ s.pc = "child" /\ s.held = <<>>
    BY ProcOne, SeqSmall, Numbers DEF GoodProc, NoProc
  <2>5. Forks(1, r, s, f)
    BY <2>1
  <2> HIDE DEF r, s, g, f
  <2>6. /\ Kernel'
        /\ \E c \in Pids \ {1} :
              /\ proc'[1] = r /\ proc'[c] = [s EXCEPT !.parent = 1]
              /\ \A q \in Pids \ {1, c} : proc'[q] = proc[q]
              /\ fd'[1] = f /\ fd'[c] = f
    BY <1>0, <2>2, <2>4, <2>5, ForksKeeps, Numbers DEF Family
  <2>7. PICK c \in Pids \ {1} :
              /\ proc'[1] = r /\ proc'[c] = [s EXCEPT !.parent = 1]
              /\ \A q \in Pids \ {1, c} : proc'[q] = proc[q]
              /\ fd'[1] = f /\ fd'[c] = f
    BY <2>6
  <2>8. proc'[c].pc = "child" /\ proc'[c].held = <<>>
    BY <2>4, <2>7 DEF GoodProc, NoProc
  <2>9. Main'
    BY <2>4, <2>7 DEF Main, MainCalls
  <2>10. Family'
    BY <1>0, <2>6, <2>9, OtherProgram, HistoryTypes DEF Family, Histories
  <2>11. OnlyMain
    BY <1>0 DEF UpperRight
  <2>12. pipe'[j] = <<>> /\ pipe'[k] = <<>>
    BY <2>5, <2>11, PipeSame DEF Forks, OnlyMain
  <2>13. Ties(c, j, k)'
    BY <2>1, <2>3, <2>4, <2>7, <2>8, <2>11, Numbers DEF Ties, At, Alive, OnlyMain
  <2>14. Exchange(c, j, k)'
    BY <2>4, <2>7, <2>8, <2>11, <2>12, <2>13 DEF Exchange, NoText, OnlyMain, Written
  <2>15. \A q \in Pids \ {1} : proc'[q].pc \in {"none", "zombie", "child", "copy"}
    <3>1. \A q \in Pids \ {1, c} : proc'[q].pc = "none"
      BY <2>7, <2>11 DEF OnlyMain, At
    <3> QED BY <2>8, <3>1
  <2>16. UpperRight'
    BY <1>0, <2>4, <2>7, <2>11, <2>14, <2>15 DEF UpperRight, OnlyMain, At, Exchanging
  <2> QED BY <2>10, <2>16
<1> QED BY <1>1, <1>2 DEF UpperStart

\* The child and the pipes that 44_1 has, as long as nobody died.
LEMMA UpperPartner ==
  ASSUME UpperRight, program = "44_1", ~died, proc[1].pc \in Exchanging
  PROVE  \E c \in Pids \ {1}, j, k \in Pipes : Exchange(c, j, k)
BY DEF UpperRight

\* 44_1 closes ends: the child's, later its own for writing.
LEMMA UpperMainCloses ==
  ASSUME Family, UpperRight, UpperParentCloses \/ UpperClose
  PROVE  Family' /\ UpperRight'
<1>0. /\ program = "44_1" /\ ~Shell /\ Alive(1) /\ UNCHANGED <<jobVars, showVars>>
      /\ proc[1].pc \in {"close_unused", "close"}
  BY DEF UpperParentCloses, UpperClose, In44_1, Shell, Alive, At
<1> USE DEF jobVars, showVars
<1> DEFINE f == IF At(1, "close") THEN Close(fd[1], {4}) ELSE Close(fd[1], {3, 6})
           r == [proc[1] EXCEPT !.pc = IF At(1, "close") THEN "read" ELSE "read_stdin"]
<1>1. Becomes(1, r, f)
  BY DEF UpperParentCloses, UpperClose, In44_1, At
<1>2. f \in [Fds -> Ends]
  BY ProcOne, FdOperators
<1>3. f[5] = fd[1][5] /\ (~At(1, "close") => f[4] = fd[1][4])
  BY FdOperators, ProcOne DEF Close
<1>4. /\ GoodProc(r) /\ r.parent = 0 /\ r.held = proc[1].held
      /\ r.pc = IF At(1, "close") THEN "read" ELSE "read_stdin"
  BY ProcOne DEF GoodProc, NoProc
<1> HIDE DEF f, r
<1>5. r.pc \in MainCalls \ {"none"}
  BY <1>4 DEF MainCalls
<1>6. /\ Family'
      /\ proc'[1] = r /\ \A q \in Pids \ {1} : proc'[q] = proc[q]
      /\ fd'[1] = f /\ \A q \in Pids \ {1} : fd'[q] = fd[q]
      /\ SetFds([fd EXCEPT ![1] = f])
  BY <1>0, <1>1, <1>2, <1>4, <1>5, MainGoesOn DEF Family, Histories
<1>7. \A q \in Pids \ {1} : proc'[q].pc \in {"none", "zombie", "child", "copy"}
  BY <1>0, <1>6 DEF UpperRight
<1>8. shown = <<>> /\ proc[1].pc \in Exchanging
  BY <1>0 DEF UpperRight, Exchanging, Written
<1>9. ASSUME ~died
      PROVE  \E c \in Pids \ {1}, j, k \in Pipes : Exchange(c, j, k)'
  <2>1. PICK c \in Pids \ {1}, j \in Pipes, k \in Pipes : Exchange(c, j, k)
    BY <1>0, <1>8, <1>9, UpperPartner
  <2>2. Ties(c, j, k) /\ Alive(c)
    BY <1>0, <2>1 DEF Exchange, Ties, At
  <2>3. fd'[1][5] = <<"r", k>> /\ fd'[c][3] = <<"r", j>>
    BY <1>3, <1>6, <2>2 DEF Ties
  <2>4. pipe'[k] = pipe[k] /\ pipe'[j] = pipe[j]
    <3>1. {3, 5} \subseteq Fds
      BY DEF Fds
    <3>2. pipe'[k] = pipe[k]
      BY <1>6, <2>3, <3>1, PipeKept, Numbers
    <3>3. pipe'[j] = pipe[j]
      BY <1>6, <2>3, <3>1, PipeKept, Numbers
    <3> QED BY <3>2, <3>3
  <2>5. Ties(c, j, k)'
    BY <1>0, <1>3, <1>4, <1>6, <2>2, <2>3, Numbers DEF Ties, At, Alive
  <2>6. proc'[c] = proc[c] /\ proc'[1].held = proc[1].held /\ input' = input
        /\ (proc'[1].pc \in Written <=> proc[1].pc \in Written)
    BY <1>0, <1>4, <1>6 DEF Written, At
  <2> QED BY <2>1, <2>4, <2>5, <2>6 DEF Exchange, NoText, TextAt, At, Alive
<1>10. proc'[1].pc \in Exchanging /\ ~At(1, "start")' /\ ~At(1, "show")'
  BY <1>4, <1>6 DEF Exchanging, Written, At
<1>11. UpperRight'
  BY <1>0, <1>7, <1>8, <1>9, <1>10 DEF UpperRight
<1> QED BY <1>6, <1>11

\* 44_1 reads the text.
LEMMA UpperReadsStdin ==
  ASSUME Family, UpperRight, UpperReadStdin
  PROVE  Family' /\ UpperRight'
<1>0. /\ program = "44_1" /\ ~Shell /\ Alive(1) /\ UNCHANGED <<jobVars, shown, died>>
      /\ At(1, "read_stdin")
  BY DEF UpperReadStdin, In44_1, Shell, Alive, At
<1> USE DEF jobVars
<1> DEFINE r == [proc[1] EXCEPT !.pc = "write"]
<1>1. Becomes(1, r, fd[1]) /\ input' \in {<<>>} \union {<<x>> : x \in Text}
  BY DEF UpperReadStdin, Goes
<1>2. GoodProc(r) /\ r.parent = 0 /\ r.held = proc[1].held /\ r.pc = "write"
  BY ProcOne DEF GoodProc, NoProc
<1> HIDE DEF r
<1>3. r.pc \in MainCalls \ {"none"} /\ r.pc \notin Written /\ r.pc \in Exchanging
  BY <1>2 DEF MainCalls, Written, Exchanging
<1>4. /\ Family'
      /\ proc'[1] = r /\ \A q \in Pids \ {1} : proc'[q] = proc[q]
      /\ SetFds([fd EXCEPT ![1] = fd[1]])
  BY <1>0, <1>1, <1>2, <1>3, ProcOne, MainGoesOn DEF Family, Histories
<1>5. fd' = fd
  BY <1>4, Numbers DEF SetFds, Family, Kernel, Descriptors
<1>6. \A q \in Pids \ {1} : proc'[q].pc \in {"none", "zombie", "child", "copy"}
  BY <1>0, <1>4 DEF UpperRight
<1>7. shown = <<>> /\ proc[1].pc \in Exchanging /\ proc[1].pc \notin Written
  BY <1>0 DEF UpperRight, Exchanging, Written, At
<1>8. ASSUME ~died
      PROVE  \E c \in Pids \ {1}, j, k \in Pipes : Exchange(c, j, k)'
  <2>1. PICK c \in Pids \ {1}, j \in Pipes, k \in Pipes : Exchange(c, j, k)
    BY <1>0, <1>7, <1>8, UpperPartner
  <2>2. Ties(c, j, k) /\ Alive(c)
    BY <1>0, <2>1 DEF Exchange, Ties, At
  <2>3. fd'[1][5] = <<"r", k>> /\ fd'[c][3] = <<"r", j>>
    BY <1>5, <2>2 DEF Ties
  <2>4. pipe'[k] = pipe[k] /\ pipe'[j] = pipe[j]
    <3>1. {3, 5} \subseteq Fds
      BY DEF Fds
    <3>2. pipe'[k] = pipe[k]
      BY <1>4, <2>3, <3>1, PipeKept, Numbers
    <3>3. pipe'[j] = pipe[j]
      BY <1>4, <2>3, <3>1, PipeKept, Numbers
    <3> QED BY <3>2, <3>3
  <2>5. Ties(c, j, k)'
    BY <1>0, <1>2, <1>4, <1>5, <2>2, Numbers DEF Ties, At, Alive
  <2>6. proc'[c] = proc[c] /\ proc'[1].held = proc[1].held /\ proc'[1].pc \notin Written
    BY <1>2, <1>3, <1>4
  <2> QED BY <1>7, <2>1, <2>4, <2>5, <2>6 DEF Exchange, NoText, At, Alive
<1>9. proc'[1].pc \in Exchanging /\ ~At(1, "start")' /\ ~At(1, "show")'
  BY <1>2, <1>3, <1>4 DEF At
<1>10. UpperRight'
  BY <1>0, <1>6, <1>7, <1>8, <1>9 DEF UpperRight
<1> QED BY <1>4, <1>10

\* 44_1 writes the text to its child.
LEMMA UpperWrites ==
  ASSUME Family, UpperRight, UpperWrite
  PROVE  Family' /\ UpperRight'
<1>0. /\ program = "44_1" /\ ~Shell /\ Alive(1) /\ UNCHANGED <<jobVars, showVars>>
      /\ At(1, "write")
  BY DEF UpperWrite, In44_1, Shell, Alive, At
<1> USE DEF jobVars, showVars
<1>7. shown = <<>> /\ proc[1].pc \in Exchanging /\ proc[1].pc \notin Written
  BY <1>0 DEF UpperRight, Exchanging, Written, At
<1>a. "close" \in Written /\ "close" \in Exchanging /\ "close" \in MainCalls
  BY DEF MainCalls, Written, Exchanging
<1>b. {3, 4, 5, 6} \subseteq Fds
  BY DEF Fds
<1>1. CASE input = <<>> /\ Goes(1, "close")
  <2> DEFINE r == [proc[1] EXCEPT !.pc = "close"]
  <2>1. Becomes(1, r, fd[1])
    BY <1>1 DEF Goes
  <2>2. GoodProc(r) /\ r.parent = 0 /\ r.held = proc[1].held /\ r.pc = "close"
    BY ProcOne DEF GoodProc, NoProc
  <2> HIDE DEF r
  <2>4. /\ Family'
        /\ proc'[1] = r /\ \A q \in Pids \ {1} : proc'[q] = proc[q]
        /\ SetFds([fd EXCEPT ![1] = fd[1]])
    BY <1>0, <1>a, <2>1, <2>2, ProcOne, MainGoesOn DEF Family, Histories
  <2>5. fd' = fd
    BY <2>4, Numbers DEF SetFds, Family, Kernel, Descriptors
  <2>6. \A q \in Pids \ {1} : proc'[q].pc \in {"none", "zombie", "child", "copy"}
    BY <1>0, <2>4 DEF UpperRight
  <2>8. ASSUME ~died
        PROVE  \E c \in Pids \ {1}, j, k \in Pipes : Exchange(c, j, k)'
    <3>1. PICK c \in Pids \ {1}, j \in Pipes, k \in Pipes : Exchange(c, j, k)
      BY <1>0, <1>7, <2>8, UpperPartner
    <3>2. Ties(c, j, k) /\ Alive(c)
      BY <1>0, <3>1 DEF Exchange, Ties, At
    <3>3. fd'[1][5] = <<"r", k>> /\ fd'[c][3] = <<"r", j>>
      BY <2>5, <3>2 DEF Ties
    <3>4. pipe'[k] = pipe[k] /\ pipe'[j] = pipe[j]
      <4>2. pipe'[k] = pipe[k]
        BY <1>b, <2>4, <3>3, PipeKept, Numbers
      <4>3. pipe'[j] = pipe[j]
        BY <1>b, <2>4, <3>3, PipeKept, Numbers
      <4> QED BY <4>2, <4>3
    <3>5. Ties(c, j, k)'
      BY <1>0, <2>2, <2>4, <2>5, <3>2, Numbers DEF Ties, At, Alive
    <3>6. proc'[c] = proc[c] /\ proc'[1].held = proc[1].held
      BY <2>2, <2>4
    <3>7. \A x \in Text : input' # <<x>>
      BY <1>0, <1>1
    <3>8. NoText(c, j, k)'
      BY <1>7, <3>1, <3>4, <3>6 DEF Exchange, NoText, At, Alive
    <3> QED BY <3>1, <3>5, <3>6, <3>7, <3>8 DEF Exchange, At
  <2>9. proc'[1].pc \in Exchanging /\ ~At(1, "start")' /\ ~At(1, "show")'
    BY <1>a, <2>2, <2>4 DEF At
  <2>10. UpperRight'
    BY <1>0, <1>7, <2>6, <2>8, <2>9 DEF UpperRight
  <2> QED BY <2>4, <2>10
<1>2. CASE Exits(1)
  BY <1>0, <1>2, UpperMainEnds
<1>3. CASE /\ input # <<>> /\ HasRoom(fd[1][4])
           /\ Puts(1, [proc[1] EXCEPT !.pc = "close", !.held = input], fd[1][4], Head(input))
  <2> DEFINE r == [proc[1] EXCEPT !.pc = "close", !.held = input]
  <2>1. PICK x \in Text : input = <<x>>
    BY <1>3 DEF Family, Histories
  <2>a. IsSeq(input)
    BY <2>1, SeqSmall
  <2>2. GoodProc(r) /\ r.parent = 0 /\ r.pc = "close"
    BY ProcOne, <2>a DEF GoodProc, NoProc
  <2>3. Puts(1, r, fd[1][4], x)
    BY <1>3, <2>1
  <2> HIDE DEF r
  <2>4. /\ Kernel' /\ fd' = fd
        /\ proc'[1] = r /\ \A q \in Pids \ {1} : proc'[q] = proc[q]
    BY <1>0, <1>3, <1>b, <2>2, <2>3, PutsKeeps, Numbers DEF Family
  <2>5. Family'
    <3>1. Main'
      BY <1>a, <2>2, <2>4 DEF Main
    <3> QED BY <1>0, <2>4, <3>1, OtherProgram, HistoryTypes DEF Family, Histories
  <2>6. \A q \in Pids \ {1} : proc'[q].pc \in {"none", "zombie", "child", "copy"}
    BY <1>0, <2>4 DEF UpperRight
  <2>8. ASSUME ~died
        PROVE  \E c \in Pids \ {1}, j, k \in Pipes : Exchange(c, j, k)'
    <3>1. PICK c \in Pids \ {1}, j \in Pipes, k \in Pipes : Exchange(c, j, k)
      BY <1>0, <1>7, <2>8, UpperPartner
    <3>2. Ties(c, j, k) /\ Alive(c) /\ NoText(c, j, k)
      BY <1>0, <1>7, <3>1 DEF Exchange, Ties, At
    <3>3. fd[1][4] = <<"w", j>>
      BY <1>0, <3>2 DEF Ties, At
    <3>4. pipe' = [pipe EXCEPT ![j] = Append(@, x)]
      BY <2>3, <3>3 DEF Puts
    <3>5. j # k /\ j \in DOMAIN pipe /\ k \in DOMAIN pipe
      BY <3>2 DEF Ties, Family, Kernel, PipesRoomy
    <3>6. pipe'[j] = <<x>> /\ pipe'[k] = <<>>
      BY <3>2, <3>4, <3>5 DEF NoText
    <3>7. Ties(c, j, k)'
      BY <1>0, <2>2, <2>4, <3>2, Numbers DEF Ties, At, Alive
    <3>8. proc'[c] = proc[c] /\ proc[c].held = <<>> /\ Alive(c)'
      BY <2>4, <3>2 DEF NoText, Alive, At
    <3>9. TextAt(x, c, j, k)'
      BY <3>6, <3>8 DEF TextAt
    <3>10. \A y \in Text : input' = <<y>> => y = x
      BY <1>0, <2>1
    <3>11. input' # <<>> /\ proc'[1].pc \in Written
      BY <1>0, <1>3, <1>a, <2>2, <2>4
    <3> QED BY <3>1, <3>7, <3>8, <3>9, <3>10, <3>11 DEF Exchange, At
  <2>9. proc'[1].pc \in Exchanging /\ ~At(1, "start")' /\ ~At(1, "show")'
    BY <1>a, <2>2, <2>4 DEF At
  <2>10. UpperRight'
    BY <1>0, <1>7, <2>6, <2>8, <2>9 DEF UpperRight
  <2> QED BY <2>5, <2>10
<1> QED BY <1>1, <1>2, <1>3 DEF UpperWrite

\* 44_1 reads what comes back.
LEMMA UpperReads ==
  ASSUME Family, UpperRight, UpperRead
  PROVE  Family' /\ UpperRight'
<1>0. /\ program = "44_1" /\ ~Shell /\ Alive(1) /\ UNCHANGED <<jobVars, showVars>>
      /\ At(1, "read")
  BY DEF UpperRead, In44_1, Shell, Alive, At
<1> USE DEF jobVars, showVars
<1>7. shown = <<>> /\ proc[1].pc \in Exchanging /\ proc[1].pc \in Written
  BY <1>0 DEF UpperRight, Exchanging, Written, At
<1>a. "show" \in MainCalls /\ "show" \notin Exchanging
  BY DEF MainCalls, Exchanging, Written
<1>b. {3, 4, 5, 6} \subseteq Fds
  BY DEF Fds
<1>1. CASE AtEof(fd[1][5]) /\ Goes(1, "show")
  <2> DEFINE r == [proc[1] EXCEPT !.pc = "show"]
  <2>1. Becomes(1, r, fd[1])
    BY <1>1 DEF Goes
  <2>2. GoodProc(r) /\ r.parent = 0 /\ r.held = proc[1].held /\ r.pc = "show"
    BY ProcOne DEF GoodProc, NoProc
  <2> HIDE DEF r
  <2>4. /\ Family'
        /\ proc'[1] = r /\ \A q \in Pids \ {1} : proc'[q] = proc[q]
    BY <1>0, <1>a, <2>1, <2>2, ProcOne, MainGoesOn DEF Family, Histories
  <2>6. \A q \in Pids \ {1} : proc'[q].pc \in {"none", "zombie", "child", "copy"}
    BY <1>0, <2>4 DEF UpperRight
  <2>8. ASSUME ~died
        PROVE  input = <<>> /\ proc[1].held = <<>>
    <3>1. PICK c \in Pids \ {1}, j \in Pipes, k \in Pipes : Exchange(c, j, k)
      BY <1>0, <1>7, <2>8, UpperPartner
    <3>2. Ties(c, j, k)
      BY <3>1 DEF Exchange
    <3>3. pipe[k] = <<>> /\ \A p \in Pids, e \in Fds : fd[p][e] # <<"w", k>>
      BY <1>1, <3>2 DEF AtEof, Ties
    <3>4. ~Alive(c)
      BY <1>b, <3>2, <3>3 DEF Ties
    <3>5. input = <<>>
      <4> SUFFICES ASSUME NEW x \in Text, input = <<x>> PROVE FALSE
        BY DEF Family, Histories
      <4>1. TextAt(x, c, j, k)
        BY <1>7, <3>1 DEF Exchange
      <4> QED BY <3>3, <3>4, <4>1 DEF TextAt
    <3> QED BY <3>1, <3>5 DEF Exchange, NoText
  <2>9. proc'[1].pc \notin Exchanging /\ At(1, "show")' /\ ~At(1, "start")'
        /\ proc'[1].held = proc[1].held
    BY <1>a, <2>2, <2>4 DEF At
  <2>10. UpperRight'
    BY <1>0, <1>7, <2>6, <2>8, <2>9 DEF UpperRight
  <2> QED BY <2>4, <2>10
<1>2. CASE /\ HasData(fd[1][5])
           /\ Takes(1, [proc[1] EXCEPT !.pc = "show", !.held = pipe[fd[1][5][2]]],
                   fd[1][5], Len(pipe[fd[1][5][2]]))
  <2> DEFINE h == pipe[fd[1][5][2]]
             r == [proc[1] EXCEPT !.pc = "show", !.held = h]
  <2>1. Takes(1, r, fd[1][5], Len(h)) /\ fd[1][5][1] = "r" /\ h # <<>>
    BY <1>2 DEF HasData
  <2>2. IsSeq(h) /\ Len(h) \in Nat
    <3>1. fd[1][5] \in Ends
      BY <1>b, ProcOne
    <3>2. fd[1][5][2] \in Pipes
      BY <2>1, <3>1 DEF Ends, Closed, Tty, InFile, OutFile
    <3>3. IsSeq(h)
      BY <3>2 DEF Family, Kernel, PipesRoomy
    <3> QED BY <3>3, SeqIsSeq DEF IsSeq
  <2> HIDE DEF h
  <2>3. GoodProc(r) /\ r.parent = 0 /\ r.held = h /\ r.pc = "show"
    BY <2>2, ProcOne DEF GoodProc, NoProc
  <2> HIDE DEF r
  <2>4. /\ Kernel'
        /\ proc'[1] = r /\ \A q \in Pids \ {1} : proc'[q] = proc[q]
    BY <1>0, <1>b, <2>1, <2>2, <2>3, TakesKeeps, Numbers DEF Family
  <2>5. Family'
    <3>1. Main'
      BY <1>a, <2>3, <2>4 DEF Main
    <3> QED BY <1>0, <2>4, <3>1, OtherProgram, HistoryTypes DEF Family, Histories
  <2>6. \A q \in Pids \ {1} : proc'[q].pc \in {"none", "zombie", "child", "copy"}
    BY <1>0, <2>4 DEF UpperRight
  <2>8. ASSUME ~died
        PROVE  input # <<>> /\ \A x \in Text : input = <<x>> => h = <<Upper(x)>>
    <3>1. PICK c \in Pids \ {1}, j \in Pipes, k \in Pipes : Exchange(c, j, k)
      BY <1>0, <1>7, <2>8, UpperPartner
    <3>2. h = pipe[k]
      BY <3>1 DEF Exchange, Ties, h
    <3>3. input # <<>>
      BY <2>1, <3>1, <3>2 DEF Exchange, NoText
    <3>4. ASSUME NEW x \in Text, input = <<x>> PROVE h = <<Upper(x)>>
      <4>1. TextAt(x, c, j, k)
        BY <1>7, <3>1, <3>4 DEF Exchange
      <4> QED BY <2>1, <3>2, <4>1 DEF TextAt
    <3> QED BY <3>3, <3>4
  <2>9. proc'[1].pc \notin Exchanging /\ At(1, "show")' /\ ~At(1, "start")'
        /\ proc'[1].held = h
    BY <1>a, <2>3, <2>4 DEF At
  <2>10. UpperRight'
    BY <1>0, <1>7, <2>6, <2>8, <2>9 DEF UpperRight
  <2> QED BY <2>5, <2>10
<1> QED BY <1>1, <1>2 DEF UpperRead

\* 44_1 shows what it has.
LEMMA UpperShows ==
  ASSUME Family, UpperRight, UpperShow
  PROVE  Family' /\ UpperRight'
<1>0. /\ program = "44_1" /\ ~Shell /\ Alive(1) /\ UNCHANGED <<jobVars, input, died>>
      /\ At(1, "show")
  BY DEF UpperShow, In44_1, Shell, Alive, At
<1> USE DEF jobVars
<1> DEFINE r == [proc[1] EXCEPT !.pc = "wait"]
<1>1. Becomes(1, r, Close(fd[1], {5})) /\ shown' = proc[1].held
  BY DEF UpperShow
<1>2. GoodProc(r) /\ r.parent = 0 /\ r.pc = "wait"
  BY ProcOne DEF GoodProc, NoProc
<1> HIDE DEF r
<1>3. r.pc \in MainCalls \ {"none"} /\ r.pc \notin Exchanging
  BY <1>2 DEF MainCalls, Exchanging, Written
<1>4. Close(fd[1], {5}) \in [Fds -> Ends]
  BY ProcOne, FdOperators
<1>5. /\ Family'
      /\ proc'[1] = r /\ \A q \in Pids \ {1} : proc'[q] = proc[q]
  BY <1>0, <1>1, <1>2, <1>3, <1>4, MainGoesOn DEF Family, Histories
<1>6. \A q \in Pids \ {1} : proc'[q].pc \in {"none", "zombie", "child", "copy"}
  BY <1>0, <1>5 DEF UpperRight
<1>7. ~died /\ shown' # <<>> => shown' = <<Upper(input[1])>>
  <2> SUFFICES ASSUME ~died, proc[1].held # <<>> PROVE proc[1].held = <<Upper(input[1])>>
    BY <1>1
  <2>1. input # <<>>
    BY <1>0 DEF UpperRight
  <2>2. PICK x \in Text : input = <<x>>
    BY <2>1 DEF Family, Histories
  <2>3. proc[1].held = <<Upper(x)>>
    BY <1>0, <2>2 DEF UpperRight
  <2>4. input[1] = x
    BY <2>2
  <2> QED BY <2>3, <2>4
<1>8. proc'[1].pc \notin Exchanging \union {"show", "start"}
  BY <1>2, <1>3, <1>5
<1>9. UpperRight'
  BY <1>0, <1>6, <1>7, <1>8 DEF UpperRight, At
<1> QED BY <1>5, <1>9

\* 44_1 waits for its child.
LEMMA UpperWaits ==
  ASSUME Family, UpperRight, UpperWait
  PROVE  Family' /\ UpperRight'
<1>0. /\ program = "44_1" /\ ~Shell /\ Alive(1) /\ UNCHANGED <<jobVars, showVars>>
      /\ At(1, "wait")
  BY DEF UpperWait, In44_1, Shell, Alive, At
<1> USE DEF jobVars, showVars
<1>1. PICK q \in Pids : Reaps(1, q, "exit")
  BY DEF UpperWait
<1>2. /\ Kernel' /\ q # 1
      /\ proc'[1] = [proc[1] EXCEPT !.pc = "exit"] /\ proc'[q] = NoProc
      /\ \A x \in Pids \ {1, q} : proc'[x] = proc[x]
  BY <1>0, <1>1, ReapsKeeps, Numbers DEF Family
<1>3. proc'[1].pc = "exit" /\ proc'[1].parent = 0 /\ NoProc.pc = "none"
  BY <1>2, ProcOne DEF GoodProc, NoProc
<1>4. Main' /\ proc'[1].pc \notin Exchanging \union {"show", "start"}
  BY <1>3 DEF Main, MainCalls, Exchanging, Written
<1>5. Family'
  BY <1>0, <1>2, <1>4, OtherProgram, HistoryTypes DEF Family, Histories
<1>6. \A x \in Pids \ {1} : proc'[x].pc \in {"none", "zombie", "child", "copy"}
  BY <1>0, <1>2, <1>3 DEF UpperRight
<1>7. UpperRight'
  BY <1>0, <1>4, <1>6 DEF UpperRight, At
<1> QED BY <1>5, <1>7

\* What the end of a child changes.
LEMMA ChildEnds ==
  ASSUME Family, NEW p \in Pids \ {1}, Exits(p), Alive(p)
  PROVE  /\ Others /\ proc'[p].pc \in {"none", "zombie"}
         /\ \A q \in Pids \ {p} :
              /\ proc'[q].pc \in {"none", proc[q].pc}
              /\ At(q, "none") => proc'[q].pc = "none"
              /\ fd'[q] = fd[q]
<1>1. Others
  BY ExitsOthers DEF Family
<1>2. proc'[p].pc \in {"none", "zombie"}
  BY ExitsKeeps DEF Family
<1>3. ASSUME NEW q \in Pids \ {p}
      PROVE  /\ proc'[q].pc \in {"none", proc[q].pc} /\ fd'[q] = fd[q]
             /\ At(q, "none") => proc'[q].pc = "none"
  <2>1. NoProc.pc = "none" /\ [proc[q] EXCEPT !.parent = 0].pc = proc[q].pc
    BY DEF NoProc, Family, Kernel, Procs, GoodProc
  <2>2. /\ proc'[q] \in {proc[q], NoProc, [proc[q] EXCEPT !.parent = 0]}
        /\ fd'[q] = fd[q]
    BY ExitsKeeps DEF Family
  <2> QED BY <2>1, <2>2 DEF At
<1> QED BY <1>1, <1>2, <1>3

\* 44_1's child: it ends only when nothing is left to copy.
LEMMA UpperChildSteps ==
  ASSUME Family, UpperRight, NEW p \in Pids,
         UpperChildCloses(p) \/ UpperChildReads(p) \/ UpperChildWrites(p)
  PROVE  Family' /\ UpperRight'
<1>0. /\ program = "44_1" /\ ~Shell /\ Alive(p) /\ UNCHANGED <<jobVars, showVars>>
      /\ p # 1 /\ proc[p].pc \in {"child", "copy"}
  BY DEF UpperChildCloses, UpperChildReads, UpperChildWrites, In44_1, Shell, Alive, At,
         Family, Main, Prompt, MainCalls
<1> USE DEF jobVars, showVars
<1>b. {3, 4, 5, 6} \subseteq Fds
  BY DEF Fds
<1>c. GoodProc(proc[p]) /\ fd[p] \in [Fds -> Ends]
  BY ProcTypes
<1>d. 1 \in Pids \ {p}
  BY <1>0, Numbers
\* It is enough to look at the exchange.
<1>e. ASSUME Others, \A q \in Pids \ {1} : proc'[q].pc \in {"none", "zombie", "child", "copy"},
             \A c \in Pids \ {1}, j, k \in Pipes :
               ~died /\ proc[1].pc \in Exchanging /\ Exchange(c, j, k) => Exchange(c, j, k)'
      PROVE  Family' /\ UpperRight'
  <2>1. Family'
    BY <1>0, <1>e, OthersKeep DEF Family, Histories
  <2>2. proc'[1] = proc[1]
    BY <1>e DEF Others
  <2>3. ~At(1, "start")
    BY <1>0 DEF UpperRight, OnlyMain, At
  <2>4. \A c \in Pids \ {1}, j, k \in Pipes :
          ~died /\ proc[1].pc \in Exchanging /\ Exchange(c, j, k) => Exchange(c, j, k)'
    BY <1>e
  <2>5. UpperRight'
    BY <1>0, <1>e, <2>2, <2>3, <2>4 DEF UpperRight, At
  <2> QED BY <2>1, <2>5
<1>f. ASSUME NEW c \in Pids \ {1}, NEW j \in Pipes, NEW k \in Pipes, Exchange(c, j, k)
      PROVE  c = p /\ fd[p][3] = <<"r", j>> /\ fd[p][6] = <<"w", k>> /\ Ties(p, j, k)
             /\ fd[1][5] = <<"r", k>>
  BY <1>0, <1>f DEF Exchange, Ties, At
<1>1. CASE UpperChildCloses(p)
  <2> DEFINE r == [proc[p] EXCEPT !.pc = "copy"]
             f == Close(fd[p], {4, 5})
  <2>1. Becomes(p, r, f) /\ At(p, "child")
    BY <1>1 DEF UpperChildCloses, In44_1
  <2>2. f \in [Fds -> Ends] /\ f[3] = fd[p][3] /\ f[6] = fd[p][6]
    <3>1. f \in [Fds -> Ends]
      BY <1>c, FdOperators
    <3> QED BY <1>b, <3>1 DEF Close
  <2>3. /\ GoodProc(r) /\ r.pc = "copy" /\ r.held = proc[p].held
        /\ r.parent = proc[p].parent /\ r.line = proc[p].line /\ r.fg = proc[p].fg
    BY <1>c DEF GoodProc, NoProc
  <2> HIDE DEF r, f
  <2>4. Others
    BY <1>0, <2>1, <2>2, <2>3, BecomesOthers DEF Family
  <2>5. /\ proc'[p] = r /\ \A q \in Pids \ {p} : proc'[q] = proc[q]
        /\ fd'[p] = f /\ \A q \in Pids \ {p} : fd'[q] = fd[q]
    BY <2>1, <2>2, <2>3, BecomesKeeps DEF Family
  <2>6. \A q \in Pids \ {1} : proc'[q].pc \in {"none", "zombie", "child", "copy"}
    BY <1>0, <2>3, <2>5 DEF UpperRight
  <2>7. ASSUME NEW c \in Pids \ {1}, NEW j \in Pipes, NEW k \in Pipes,
               ~died, proc[1].pc \in Exchanging, Exchange(c, j, k)
        PROVE  Exchange(c, j, k)'
    <3>1. c = p /\ fd[p][3] = <<"r", j>> /\ fd[p][6] = <<"w", k>> /\ Ties(p, j, k)
          /\ fd[1][5] = <<"r", k>>
      BY <1>f, <2>7
    <3>2. fd'[p][3] = <<"r", j>> /\ fd'[1][5] = <<"r", k>>
      BY <1>d, <2>2, <2>5, <3>1
    <3>3. pipe'[j] = pipe[j] /\ pipe'[k] = pipe[k]
      <4>1. SetFds([fd EXCEPT ![p] = f])
        BY <2>1 DEF Becomes
      <4>2. pipe'[j] = pipe[j]
        BY <1>b, <3>2, <4>1, PipeKept
      <4>3. pipe'[k] = pipe[k]
        BY <1>b, <3>2, <4>1, PipeKept, Numbers
      <4> QED BY <4>2, <4>3
    <3>4. proc'[1] = proc[1] /\ fd'[1] = fd[1]
      BY <1>d, <2>5
    <3>5. Ties(p, j, k)'
      BY <1>0, <2>2, <2>3, <2>5, <3>1, <3>4 DEF Ties, At, Alive
    <3>6. Alive(p)' /\ proc'[p].held = proc[p].held /\ ~At(p, "child")' /\ input' = input
      BY <1>0, <2>3, <2>5 DEF Alive, At
    <3> QED BY <1>0, <2>7, <3>1, <3>3, <3>4, <3>5, <3>6 DEF Exchange, NoText, TextAt
  <2> QED BY <1>e, <2>4, <2>6, <2>7
<1>2. CASE /\ At(p, "copy") /\ Exits(p)
           /\ (proc[p].held = <<>> /\ AtEof(fd[p][3])) \/ Broken(fd[p][6])
  <2>a. Exits(p)
    BY <1>2
  <2>b. /\ Others /\ proc'[p].pc \in {"none", "zombie"}
        /\ \A q \in Pids \ {p} :
             /\ proc'[q].pc \in {"none", proc[q].pc}
             /\ At(q, "none") => proc'[q].pc = "none"
             /\ fd'[q] = fd[q]
    BY <1>0, <2>a, ChildEnds
  <2>1. Others /\ \A q \in Pids \ {1} : proc'[q].pc \in {"none", "zombie", "child", "copy"}
    BY <1>0, <2>b DEF UpperRight
  <2>2. ASSUME NEW c \in Pids \ {1}, NEW j \in Pipes, NEW k \in Pipes,
               ~died, proc[1].pc \in Exchanging, Exchange(c, j, k)
        PROVE  Exchange(c, j, k)'
    <3>1. c = p /\ fd[p][3] = <<"r", j>> /\ fd[p][6] = <<"w", k>> /\ Ties(p, j, k)
          /\ fd[1][5] = <<"r", k>>
      BY <1>f, <2>2
    <3>2. ~Broken(fd[p][6])
      BY <1>b, <3>1, Numbers DEF Broken, Closed
    <3>3. proc[p].held = <<>> /\ pipe[j] = <<>> /\ \A q \in Pids, e \in Fds : fd[q][e] # <<"w", j>>
      BY <1>2, <3>1, <3>2 DEF AtEof
    <3>4. At(1, "read")
      BY <1>b, <3>1, <3>3, Numbers DEF Ties
    <3>5. /\ proc'[1] = proc[1] /\ fd'[1] = fd[1] /\ ~Alive(p)' /\ ~At(p, "child")'
          /\ \A q \in Pids \ {1, p} : At(q, "none")'
      <4>1. proc'[1] = proc[1] /\ fd'[1] = fd[1]
        BY <1>d, <2>b DEF Others
      <4>2. ~Alive(p)' /\ ~At(p, "child")'
        BY <2>b DEF Alive, At
      <4>3. \A q \in Pids \ {1, p} : At(q, "none")'
        BY <2>b, <3>1 DEF Ties, At
      <4> QED BY <4>1, <4>2, <4>3
    <3>6. pipe'[k] = pipe[k]
      <4>1. SetFds([fd EXCEPT ![p] = [e \in Fds |-> Closed]])
        BY <2>a DEF Exits
      <4>2. fd'[1][5] = <<"r", k>>
        BY <3>1, <3>5
      <4> QED BY <1>b, <4>1, <4>2, PipeKept, Numbers
    <3>7. Ties(p, j, k)'
      BY <3>1, <3>4, <3>5 DEF Ties, At
    <3>8. NoText(p, j, k) => NoText(p, j, k)'
      BY <3>5, <3>6 DEF NoText
    <3>9. \A x \in Text : TextAt(x, p, j, k) => TextAt(x, p, j, k)'
      BY <3>3, <3>5, <3>6 DEF TextAt
    <3> QED BY <1>0, <2>2, <3>1, <3>5, <3>7, <3>8, <3>9 DEF Exchange
  <2> QED BY <1>e, <2>1, <2>2
<1>3. CASE /\ At(p, "copy") /\ proc[p].held = <<>> /\ HasData(fd[p][3])
           /\ Takes(p, [proc[p] EXCEPT !.held = <<Upper(Head(pipe[fd[p][3][2]]))>>], fd[p][3], 1)
  <2> DEFINE h == <<Upper(Head(pipe[fd[p][3][2]]))>>
             r == [proc[p] EXCEPT !.held = h]
  <2>1. Takes(p, r, fd[p][3], 1) /\ fd[p][3][1] = "r" /\ pipe[fd[p][3][2]] # <<>>
    BY <1>3 DEF HasData
  <2>2. IsSeq(h)
    BY SeqSmall
  <2> HIDE DEF h
  <2>3. /\ GoodProc(r) /\ r.pc = "copy" /\ r.held = h
        /\ r.parent = proc[p].parent /\ r.line = proc[p].line /\ r.fg = proc[p].fg
    BY <1>3, <1>c, <2>2 DEF GoodProc, NoProc, At
  <2> HIDE DEF r
  <2>4. /\ Kernel' /\ fd' = fd /\ DOMAIN proc' = Pids
        /\ proc'[p] = r /\ \A q \in Pids \ {p} : proc'[q] = proc[q]
    BY <1>0, <1>b, <2>1, <2>3, TakesKeeps DEF Family
  <2>5. Others
    <3>1. SameFamily
      BY <1>0, <2>3, <2>4, OneChanges DEF Alive, At, Family
    <3> QED BY <1>d, <2>4, <3>1 DEF Others
  <2>6. \A q \in Pids \ {1} : proc'[q].pc \in {"none", "zombie", "child", "copy"}
    BY <1>0, <2>3, <2>4 DEF UpperRight
  <2>7. ASSUME NEW c \in Pids \ {1}, NEW j \in Pipes, NEW k \in Pipes,
               ~died, proc[1].pc \in Exchanging, Exchange(c, j, k)
        PROVE  Exchange(c, j, k)'
    <3>1. c = p /\ fd[p][3] = <<"r", j>> /\ fd[p][6] = <<"w", k>> /\ Ties(p, j, k)
          /\ fd[1][5] = <<"r", k>>
      BY <1>f, <2>7
    <3>2. pipe[j] # <<>> /\ h = <<Upper(Head(pipe[j]))>>
      BY <2>1, <3>1 DEF h
    <3>3. ~NoText(p, j, k)
      BY <1>0, <3>2 DEF NoText
    <3>4. PICK x \in Text : input = <<x>>
      BY <2>7, <3>1, <3>3 DEF Exchange, Family, Histories
    <3>5. proc[1].pc \in Written
      BY <2>7, <3>1, <3>3 DEF Exchange
    <3>6. TextAt(x, p, j, k)
      BY <2>7, <3>1, <3>4, <3>5 DEF Exchange
    <3>7. pipe[j] = <<x>> /\ pipe[k] = <<>>
      BY <1>0, <3>2, <3>6 DEF TextAt
    <3>8. h = <<Upper(x)>>
      <4>1. Head(pipe[j]) = x
        BY <3>7
      <4> QED BY <3>2, <4>1
    <3>9. pipe' = [pipe EXCEPT ![j] = SubSeq(@, 2, Len(@))]
      BY <2>1, <3>1 DEF Takes
    <3>10. j \in DOMAIN pipe /\ j # k
      BY <3>1 DEF Ties, Family, Kernel, PipesRoomy
    <3>11. pipe'[j] = <<>> /\ pipe'[k] = <<>>
      <4>1. SubSeq(<<x>>, 2, Len(<<x>>)) = <<>>
        BY SubSeqEmpty
      <4> QED BY <3>7, <3>9, <3>10, <4>1
    <3>12. Alive(p)' /\ proc'[p].held = <<Upper(x)>> /\ ~At(p, "child")' /\ proc'[1] = proc[1]
      BY <1>d, <2>3, <2>4, <3>8 DEF Alive, At
    <3>13. TextAt(x, p, j, k)'
      BY <3>11, <3>12 DEF TextAt
    <3>14. \A y \in Text : input' = <<y>> => y = x
      BY <1>0, <3>4
    <3>15. Ties(p, j, k)'
      BY <1>0, <2>3, <2>4, <3>1, <3>12 DEF Ties, At, Alive
    <3>16. input' # <<>> /\ proc'[1].pc \in Written
      BY <1>0, <3>4, <3>5, <3>12
    <3> QED BY <3>1, <3>12, <3>13, <3>14, <3>15, <3>16 DEF Exchange
  <2> QED BY <1>e, <2>5, <2>6, <2>7
<1>4. CASE /\ At(p, "copy") /\ proc[p].held # <<>> /\ HasRoom(fd[p][6])
           /\ Puts(p, [proc[p] EXCEPT !.held = <<>>], fd[p][6], Head(proc[p].held))
  <2> DEFINE r == [proc[p] EXCEPT !.held = <<>>]
  <2>1. Puts(p, r, fd[p][6], Head(proc[p].held))
    BY <1>4
  <2>3. /\ GoodProc(r) /\ r.pc = "copy" /\ r.held = <<>>
        /\ r.parent = proc[p].parent /\ r.line = proc[p].line /\ r.fg = proc[p].fg
    BY <1>4, <1>c, SeqSmall DEF GoodProc, NoProc, At
  <2> HIDE DEF r
  <2>4. /\ Kernel' /\ fd' = fd /\ DOMAIN proc' = Pids
        /\ proc'[p] = r /\ \A q \in Pids \ {p} : proc'[q] = proc[q]
    BY <1>0, <1>4, <1>b, <2>1, <2>3, PutsKeeps DEF Family
  <2>5. Others
    <3>1. SameFamily
      BY <1>0, <2>3, <2>4, OneChanges DEF Alive, At, Family
    <3> QED BY <1>d, <2>4, <3>1 DEF Others
  <2>6. \A q \in Pids \ {1} : proc'[q].pc \in {"none", "zombie", "child", "copy"}
    BY <1>0, <2>3, <2>4 DEF UpperRight
  <2>7. ASSUME NEW c \in Pids \ {1}, NEW j \in Pipes, NEW k \in Pipes,
               ~died, proc[1].pc \in Exchanging, Exchange(c, j, k)
        PROVE  Exchange(c, j, k)'
    <3>1. c = p /\ fd[p][3] = <<"r", j>> /\ fd[p][6] = <<"w", k>> /\ Ties(p, j, k)
          /\ fd[1][5] = <<"r", k>>
      BY <1>f, <2>7
    <3>3. ~NoText(p, j, k)
      BY <1>0, <1>4 DEF NoText
    <3>4. PICK x \in Text : input = <<x>>
      BY <2>7, <3>1, <3>3 DEF Exchange, Family, Histories
    <3>5. proc[1].pc \in Written
      BY <2>7, <3>1, <3>3 DEF Exchange
    <3>6. TextAt(x, p, j, k)
      BY <2>7, <3>1, <3>4, <3>5 DEF Exchange
    <3>7. pipe[j] = <<>> /\ pipe[k] = <<>> /\ proc[p].held = <<Upper(x)>>
      BY <1>0, <1>4, <3>6 DEF TextAt
    <3>8. Head(proc[p].held) = Upper(x)
      BY <3>7
    <3>9. pipe' = [pipe EXCEPT ![k] = Append(@, Upper(x))]
      <4>1. fd[p][6][1] = "w" /\ fd[p][6][2] = k
        BY <3>1
      <4> QED BY <2>1, <3>8, <4>1 DEF Puts
    <3>10. k \in DOMAIN pipe /\ j # k
      BY <3>1 DEF Ties, Family, Kernel, PipesRoomy
    <3>11. pipe'[j] = <<>> /\ pipe'[k] = <<Upper(x)>>
      BY <3>7, <3>9, <3>10
    <3>12. Alive(p)' /\ proc'[p].held = <<>> /\ ~At(p, "child")' /\ proc'[1] = proc[1]
      BY <1>d, <2>3, <2>4 DEF Alive, At
    <3>13. TextAt(x, p, j, k)'
      BY <3>11, <3>12 DEF TextAt
    <3>14. \A y \in Text : input' = <<y>> => y = x
      BY <1>0, <3>4
    <3>15. Ties(p, j, k)'
      BY <1>0, <2>3, <2>4, <3>1, <3>12 DEF Ties, At, Alive
    <3>16. input' # <<>> /\ proc'[1].pc \in Written
      BY <1>0, <3>4, <3>5, <3>12
    <3> QED BY <3>1, <3>12, <3>13, <3>14, <3>15, <3>16 DEF Exchange
  <2> QED BY <1>e, <2>5, <2>6, <2>7
<1> QED BY <1>1, <1>2, <1>3, <1>4 DEF UpperChildReads, UpperChildWrites, In44_1
-----------------------------------------------------------------------------
(* The actions of 44_2 *)

\* 44_2 without fork, read and write.
LEMMA PopenMain ==
  ASSUME Family, Popen, PopenParent \/ Pclose
  PROVE  Family'
<1>0. /\ ~Shell /\ Alive(1) /\ UNCHANGED <<jobVars, showVars>>
  BY DEF PopenParent, Pclose, Popen, Shell, Alive, At
<1> USE DEF jobVars, showVars
<1>1. PICK c \in {"read", "fgets", "waitpid"}, E \in SUBSET Fds :
        Becomes(1, [proc[1] EXCEPT !.pc = c], Close(fd[1], E))
  <2>1. {4} \in SUBSET Fds /\ {3} \in SUBSET Fds /\ {3, 4} \in SUBSET Fds
    BY DEF Fds
  <2>2. CASE PopenParent
    <3>1. CASE program = "44_2_r"
      BY <2>1, <2>2, <3>1 DEF PopenParent
    <3>2. CASE program # "44_2_r"
      BY <2>1, <2>2, <3>2 DEF PopenParent
    <3> QED BY <3>1, <3>2
  <2>3. CASE Pclose
    BY <2>1, <2>3 DEF Pclose
  <2> QED BY <2>2, <2>3
<1> DEFINE r == [proc[1] EXCEPT !.pc = c]
<1>2. GoodProc(r) /\ r.parent = 0 /\ r.pc = c
  BY ProcOne DEF GoodProc, NoProc
<1>3. Becomes(1, r, Close(fd[1], E))
  BY <1>1
<1> HIDE DEF r
<1>4. r.pc \in MainCalls \ {"none"}
  BY <1>2 DEF MainCalls
<1>5. Close(fd[1], E) \in [Fds -> Ends]
  BY ProcOne, FdOperators
<1> QED BY <1>0, <1>2, <1>3, <1>4, <1>5, MainGoesOn DEF Family, Histories

\* my_popen.
LEMMA PopenForks ==
  ASSUME Family, PopenFork
  PROVE  Family'
<1>0. /\ ~Shell /\ Alive(1) /\ UNCHANGED <<jobVars, showVars>>
  BY DEF PopenFork, Popen, Shell, Alive, At
<1> USE DEF jobVars, showVars
<1>1. CASE Exits(1)
  BY <1>0, <1>1, MainEnds DEF Family, Histories
<1>2. CASE \E command \in Commands \union {"nosuch"}, k \in FreePipes :
            /\ k = Min(FreePipes)
            /\ Forks(1, [proc[1] EXCEPT !.pc = "my_popen", !.words = <<command>>],
                     [NoProc EXCEPT !.pc = "popen_child", !.argv = <<command>>],
                     WithPipe(fd[1], 3, 4, k))
  <2>1. PICK command \in Commands \union {"nosuch"}, k \in Pipes :
            Forks(1, [proc[1] EXCEPT !.pc = "my_popen", !.words = <<command>>],
                     [NoProc EXCEPT !.pc = "popen_child", !.argv = <<command>>],
                     WithPipe(fd[1], 3, 4, k))
    BY <1>2 DEF FreePipes
  <2> DEFINE r == [proc[1] EXCEPT !.pc = "my_popen", !.words = <<command>>]
             s == [NoProc EXCEPT !.pc = "popen_child", !.argv = <<command>>]
             f == WithPipe(fd[1], 3, 4, k)
  <2>2. f \in [Fds -> Ends]
    BY ProcOne, FdOperators
  <2>3. GoodProc(r) /\ r.pc = "my_popen" /\ r.parent = 0
    BY ProcOne DEF GoodProc, NoProc
  <2>4. GoodProc(s) /\ s.pc = "popen_child"
    BY SeqSmall, Numbers DEF GoodProc, NoProc
  <2>5. Forks(1, r, s, f)
    BY <2>1
  <2> HIDE DEF r, s, f
  <2>6. Kernel' /\ proc'[1] = r
    BY <1>0, <2>2, <2>3, <2>4, <2>5, ForksKeeps, Numbers DEF Family
  <2>7. Main'
    BY <2>3, <2>6 DEF Main, MainCalls
  <2> QED BY <1>0, <2>6, <2>7, OtherProgram, HistoryTypes DEF Family, Histories
<1> QED BY <1>1, <1>2 DEF PopenFork

\* The one read of a pipe, by 44_2 or pipe_ls.
LEMMA PopenReads ==
  ASSUME Family, ~Shell, Alive(1), UNCHANGED <<jobVars, input, died>>,
         NEW c \in MainCalls \ {"none"},
         \/ Goes(1, c)
         \/ /\ HasData(fd[1][3])
            /\ \E n \in 1..Len(pipe[fd[1][3][2]]) :
                  Takes(1, [proc[1] EXCEPT !.pc = c], fd[1][3], n)
  PROVE  /\ Family' /\ proc'[1].pc = c /\ \A q \in Pids \ {1} : proc'[q] = proc[q]
<1> USE DEF jobVars
<1> DEFINE r == [proc[1] EXCEPT !.pc = c]
<1>1. GoodProc(r) /\ r.parent = 0 /\ r.pc = c /\ c \notin {"none", "zombie"}
  BY ProcOne DEF GoodProc, NoProc, MainCalls
<1>2. CASE Goes(1, c)
  <2>1. Becomes(1, r, fd[1])
    BY <1>2 DEF Goes
  <2> HIDE DEF r
  <2> QED BY <1>1, <2>1, ProcOne, MainGoesOn DEF Family, Histories
<1>3. CASE /\ HasData(fd[1][3])
           /\ \E n \in 1..Len(pipe[fd[1][3][2]]) :
                  Takes(1, [proc[1] EXCEPT !.pc = c], fd[1][3], n)
  <2>1. PICK n \in 1..Len(pipe[fd[1][3][2]]) : Takes(1, r, fd[1][3], n)
    BY <1>3
  <2>2. n \in Nat
    <3>1. fd[1][3] \in Ends
      BY ProcOne, FdOperators
    <3>2. fd[1][3][2] \in Pipes
      BY <1>3, <3>1 DEF HasData, Ends, Closed, Tty, InFile, OutFile
    <3>3. Len(pipe[fd[1][3][2]]) \in Nat
      BY <3>2, SeqIsSeq DEF Family, Kernel, PipesRoomy, IsSeq
    <3> QED BY <3>3
  <2>3. fd[1][3][1] = "r" /\ 3 \in Fds
    BY <1>3 DEF HasData, Fds
  <2> HIDE DEF r
  <2>4. Kernel' /\ proc'[1] = r /\ \A q \in Pids \ {1} : proc'[q] = proc[q]
    BY <1>1, <2>1, <2>2, <2>3, TakesKeeps, Numbers DEF Family
  <2>5. Main'
    BY <1>1, <2>4 DEF Main
  <2> QED BY <1>1, <2>4, <2>5, OtherProgram, HistoryTypes DEF Family, Histories
<1> QED BY <1>2, <1>3

\* 44_2 keeps the family.
LEMMA PopenKeeps ==
  ASSUME Family, NEW p \in Pids, Alive(p), PopenStep(p)
  PROVE  Family' /\ Popen /\ program' = program
<1> USE DEF jobVars, showVars
<1>p. Popen /\ program' = program
  BY DEF PopenStep, PopenFork, PopenParent, PopenRead, PopenFgets, PopenWrite, Pclose, PcloseWaits,
         PopenChild, Popen
<1>s. ~Shell
  BY <1>p DEF Popen, Shell
<1>a. "my_pclose" \in MainCalls /\ "write" \in MainCalls /\ "fgets" \in MainCalls
      /\ "exit" \in MainCalls
  BY DEF MainCalls
<1>1. CASE p = 1 /\ PopenFork
  BY <1>1, PopenForks, <1>p
<1>2. CASE p = 1 /\ (PopenParent \/ Pclose)
  BY <1>2, PopenMain, <1>p
<1>3. CASE p = 1 /\ PopenRead
  <2>1. Alive(1) /\ UNCHANGED <<jobVars, input, died>>
    BY <1>3 DEF PopenRead
  <2>2. \/ Goes(1, "my_pclose")
        \/ /\ HasData(fd[1][3])
           /\ \E n \in 1..Len(pipe[fd[1][3][2]]) :
                  Takes(1, [proc[1] EXCEPT !.pc = "my_pclose"], fd[1][3], n)
    BY <1>3 DEF PopenRead
  <2>3. "my_pclose" \in MainCalls \ {"none"}
    BY <1>a
  <2> QED BY <1>s, <1>p, <2>1, <2>2, <2>3, PopenReads
<1>4. CASE p = 1 /\ PopenFgets
  <2>1. PICK c \in {"my_pclose", "write"} :
          /\ Goes(1, c)
          /\ \/ typed' = typed /\ input' = input
             \/ typed < MaxTyped /\ typed' = typed + 1 /\ \E x \in Text : input' = <<x>>
    BY <1>4 DEF PopenFgets
  <2> DEFINE r == [proc[1] EXCEPT !.pc = c]
  <2>2. GoodProc(r) /\ r.parent = 0 /\ r.pc = c
    BY ProcOne DEF GoodProc, NoProc
  <2>3. Becomes(1, r, fd[1])
    BY <2>1 DEF Goes
  <2> HIDE DEF r
  <2>4. Kernel' /\ proc'[1] = r
    BY <2>2, <2>3, BecomesKeeps, ProcOne, Numbers DEF Family
  <2>5. Main'
    BY <1>a, <2>2, <2>4 DEF Main
  <2>6. program' = program /\ background' = background /\ died' = died
    BY <1>4 DEF PopenFgets
  <2>7. /\ typed' \in {typed, typed + 1} /\ typed' =< MaxTyped
        /\ input' \in {<<>>} \union {<<x>> : x \in Text}
    <3>1. typed \in Nat /\ typed =< MaxTyped /\ MaxTyped \in Nat
          /\ input \in {<<>>} \union {<<x>> : x \in Text}
      BY HistoryTypes, Numbers DEF Family, Histories
    <3>2. CASE typed' = typed /\ input' = input
      BY <3>1, <3>2
    <3>3. CASE typed < MaxTyped /\ typed' = typed + 1 /\ \E x \in Text : input' = <<x>>
      BY <3>1, <3>3
    <3> QED BY <2>1, <3>2, <3>3
  <2> QED BY <1>s, <1>p, <2>4, <2>5, <2>6, <2>7, OtherProgram DEF Family, Histories
<1>5. CASE p = 1 /\ PopenWrite
  <2>1. UNCHANGED <<jobVars, showVars>> /\ Alive(1)
    BY <1>5 DEF PopenWrite
  <2>2. CASE Exits(1)
    BY <1>p, <2>1, <2>2, MainEnds DEF Family, Histories
  <2>3. CASE HasRoom(fd[1][4]) /\ Puts(1, [proc[1] EXCEPT !.pc = "fgets"], fd[1][4], Head(input))
    <3> DEFINE r == [proc[1] EXCEPT !.pc = "fgets"]
    <3>1. GoodProc(r) /\ r.parent = 0 /\ r.pc = "fgets"
      BY ProcOne DEF GoodProc, NoProc
    <3>2. Puts(1, r, fd[1][4], Head(input)) /\ 4 \in Fds
      BY <2>3 DEF Fds
    <3> HIDE DEF r
    <3>3. Kernel' /\ proc'[1] = r
      BY <2>1, <2>3, <3>1, <3>2, PutsKeeps, Numbers DEF Family
    <3>4. Main'
      BY <1>a, <3>1, <3>3 DEF Main
    <3> QED BY <1>s, <1>p, <2>1, <3>3, <3>4, OtherProgram, HistoryTypes DEF Family, Histories
  <2> QED BY <1>5, <2>2, <2>3 DEF PopenWrite
<1>6. CASE p = 1 /\ PcloseWaits
  <2>1. UNCHANGED <<jobVars, showVars>> /\ Alive(1)
    BY <1>6 DEF PcloseWaits
  <2>2. PICK q \in Pids : Reaps(1, q, "exit")
    BY <1>6 DEF PcloseWaits
  <2>3. Kernel' /\ proc'[1] = [proc[1] EXCEPT !.pc = "exit"]
    BY <2>1, <2>2, ReapsKeeps, Numbers DEF Family
  <2>4. Main'
    BY <1>a, <2>3, ProcOne DEF Main, GoodProc, NoProc
  <2> QED BY <1>s, <1>p, <2>1, <2>3, <2>4, OtherProgram, HistoryTypes DEF Family, Histories
<1>7. CASE PopenChild(p)
  <2>1. p # 1 /\ UNCHANGED <<jobVars, showVars>>
    BY <1>7 DEF PopenChild, At, Family, Main, Prompt, MainCalls
  <2>2. \E E \in SUBSET Fds : \/ Execs(p, proc[p].argv, Close(Dup2(fd[p], 4, 1), E))
                             \/ Execs(p, proc[p].argv, Close(Dup2(fd[p], 3, 0), E))
    <3>1. {3, 4} \in SUBSET Fds
      BY DEF Fds
    <3>2. CASE program = "44_2_r"
      BY <1>7, <3>1, <3>2 DEF PopenChild
    <3>3. CASE program # "44_2_r"
      BY <1>7, <3>1, <3>3 DEF PopenChild
    <3> QED BY <3>2, <3>3
  <2>3. fd[p] \in [Fds -> Ends]
    BY ProcTypes
  <2>4. \A E : /\ Close(Dup2(fd[p], 4, 1), E) \in [Fds -> Ends]
             /\ Close(Dup2(fd[p], 3, 0), E) \in [Fds -> Ends]
    BY <2>3, FdOperators
  <2>5. Others
    BY <2>1, <2>2, <2>4, ExecsOthers DEF Family
  <2> QED BY <1>p, <2>1, <2>5, OthersKeep DEF Family, Histories
<1> QED BY <1>1, <1>2, <1>3, <1>4, <1>5, <1>6, <1>7 DEF PopenStep
-----------------------------------------------------------------------------
(* The actions of pipe_ls, and of the ls that it starts *)

\* pipe_ls makes its pipe and its child.
LEMMA LsForks ==
  ASSUME Family, LsRight, LsFork
  PROVE  Family' /\ LsRight'
<1>0. program = "pipe_ls" /\ At(1, "start") /\ ~Shell /\ Alive(1) /\ UNCHANGED <<jobVars, showVars>>
  BY DEF LsFork, Shell, Alive, At
<1> USE DEF jobVars, showVars
<1>1. CASE Exits(1)
  <2>1. proc'[1].pc = "none"
    BY <1>1, ExitsKeeps, ProcOne, Numbers DEF Family
  <2>2. Family'
    BY <1>0, <1>1, MainEnds DEF Family, Histories
  <2> QED BY <2>1, <2>2 DEF LsRight, At, Written
<1>2. CASE /\ FreePipes # {}
           /\ Forks(1, [proc[1] EXCEPT !.pc = "close"], [NoProc EXCEPT !.pc = "ls"],
                   WithPipe(fd[1], 3, 4, Min(FreePipes)))
  <2>1. PICK k \in Pipes : k = Min(FreePipes)
    BY <1>2, NextPipe
  <2> DEFINE r == [proc[1] EXCEPT !.pc = "close"]
             s == [NoProc EXCEPT !.pc = "ls"]
             f == WithPipe(fd[1], 3, 4, k)
  <2>2. f \in [Fds -> Ends] /\ f[3] = <<"r", k>> /\ f[4] = <<"w", k>>
    <3>1. {3, 4} \subseteq Fds
      BY DEF Fds
    <3>2. f \in [Fds -> Ends]
      BY <2>1, ProcOne, FdOperators
    <3> QED BY <3>1, <3>2, ProcOne DEF WithPipe
  <2>3. /\ GoodProc(r) /\ r.pc = "close" /\ r.parent = 0
        /\ GoodProc(s) /\ s.pc = "ls" /\ s.held = <<>>
    BY ProcOne, SeqSmall, Numbers DEF GoodProc, NoProc
  <2>4. Forks(1, r, s, f)
    BY <1>2, <2>1
  <2> HIDE DEF r, s, f
  <2>5. /\ Kernel'
        /\ \E c \in Pids \ {1} :
              /\ proc'[1] = r /\ proc'[c] = [s EXCEPT !.parent = 1]
              /\ \A q \in Pids \ {1, c} : proc'[q] = proc[q]
              /\ fd'[1] = f /\ fd'[c] = f
    BY <1>0, <2>2, <2>3, <2>4, ForksKeeps, Numbers DEF Family
  <2>6. PICK c \in Pids \ {1} :
              /\ proc'[1] = r /\ proc'[c] = [s EXCEPT !.parent = 1]
              /\ \A q \in Pids \ {1, c} : proc'[q] = proc[q]
              /\ fd'[1] = f /\ fd'[c] = f
    BY <2>5
  <2>7. proc'[c].pc = "ls"
    BY <2>3, <2>6 DEF GoodProc, NoProc
  <2>8. Main'
    BY <2>3, <2>6 DEF Main, MainCalls
  <2>9. Family'
    BY <1>0, <2>5, <2>8, OtherProgram, HistoryTypes DEF Family, Histories
  <2>10. OnlyMain
    BY <1>0 DEF LsRight
  <2>11. pipe'[k] = <<>>
    BY <2>1, <2>4, <2>10, PipeSame DEF Forks, OnlyMain
  <2>12. LsTies(c, k)'
    <3>1. fd'[1][3] = <<"r", k>>
      BY <2>2, <2>6
    <3> QED BY <2>6, <2>10, <3>1 DEF LsTies, OnlyMain, At
  <2>13. Writing(c, k)'
    <3>1. fd'[c][4] = <<"w", k>>
      BY <2>2, <2>6
    <3> QED BY <2>7, <2>11, <3>1 DEF Writing, At
  <2>14. proc'[1].pc = "close" /\ shown' = <<>>
    BY <1>0, <2>3, <2>6, <2>10 DEF OnlyMain
  <2>15. \E b \in Pids \ {1}, j \in Pipes : LsTies(b, j)' /\ Writing(b, j)'
    BY <2>1, <2>6, <2>12, <2>13
  <2>16. LsRight'
    BY <2>14, <2>15 DEF LsRight, At
  <2> QED BY <2>9, <2>16
<1> QED BY <1>1, <1>2 DEF LsFork

\* pipe_ls closes its end for writing.
LEMMA LsCloses ==
  ASSUME Family, LsRight, LsParent
  PROVE  Family' /\ LsRight'
<1>0. /\ program = "pipe_ls" /\ At(1, "close") /\ ~Shell /\ Alive(1)
      /\ UNCHANGED <<jobVars, showVars>>
  BY DEF LsParent, Shell, Alive, At
<1> USE DEF jobVars, showVars
<1> DEFINE r == [proc[1] EXCEPT !.pc = "read"]  f == Close(fd[1], {4})
<1>1. Becomes(1, r, f)
  BY DEF LsParent
<1>2. GoodProc(r) /\ r.parent = 0 /\ r.pc = "read"
  BY ProcOne DEF GoodProc, NoProc
<1>b. {3, 4} \subseteq Fds
  BY DEF Fds
<1>3. f \in [Fds -> Ends] /\ f[3] = fd[1][3]
  <2>1. f \in [Fds -> Ends]
    BY ProcOne, FdOperators
  <2> QED BY <1>b, <2>1 DEF Close
<1> HIDE DEF r, f
<1>4. "read" \in MainCalls /\ "read" \in Written /\ "close" \in Written
  BY DEF MainCalls, Written
<1>5. /\ Family'
      /\ proc'[1] = r /\ \A q \in Pids \ {1} : proc'[q] = proc[q]
      /\ fd'[1] = f /\ \A q \in Pids \ {1} : fd'[q] = fd[q]
      /\ SetFds([fd EXCEPT ![1] = f])
  BY <1>0, <1>1, <1>2, <1>3, <1>4, MainGoesOn DEF Family, Histories
<1>6. shown = <<>> /\ \E c \in Pids \ {1}, k \in Pipes : LsTies(c, k) /\ Writing(c, k)
  BY <1>0, <1>4 DEF LsRight, At
<1>7. PICK c \in Pids \ {1}, k \in Pipes : LsTies(c, k) /\ Writing(c, k)
  BY <1>6
<1>8. fd'[1][3] = <<"r", k>>
  BY <1>3, <1>5, <1>7 DEF LsTies
<1>9. pipe'[k] = pipe[k]
  BY <1>b, <1>5, <1>8, PipeKept, Numbers
<1>10. LsTies(c, k)'
  BY <1>5, <1>7, <1>8 DEF LsTies, At
<1>11. Writing(c, k)'
  BY <1>0, <1>5, <1>7, <1>9 DEF Writing, At, Alive
<1>12. LsRight'
  BY <1>0, <1>2, <1>5, <1>6, <1>10, <1>11 DEF LsRight, At
<1> QED BY <1>5, <1>12

\* One read of what ls has written.
LEMMA LsPrefix ==
  ASSUME NEW s \in {<<>>, <<"a">>, <<"a", "b">>}, NEW n \in 1..Len(s)
  PROVE  SubSeq(s, 1, n) \in {<<"a">>, <<"a", "b">>}
<1>1. s # <<>>
  OBVIOUS
<1>2. CASE s = <<"a">>
  <2>1. n = 1
    BY <1>2
  <2>2. SubSeq(<<"a">>, 1, 1) = <<"a">>
    BY SmallTexts
  <2> QED BY <1>2, <2>1, <2>2
<1>3. CASE s = <<"a", "b">>
  <2>1. n \in {1, 2}
    BY <1>3
  <2>2. SubSeq(<<"a", "b">>, 1, 1) = <<"a">> /\ SubSeq(<<"a", "b">>, 1, 2) = <<"a", "b">>
    BY SmallTexts
  <2> QED BY <1>3, <2>1, <2>2
<1> QED BY <1>1, <1>2, <1>3

\* pipe_ls reads; at end of file the child died, for otherwise ls wrote.
LEMMA LsReads ==
  ASSUME Family, LsRight, LsRead
  PROVE  Family' /\ LsRight'
<1>0. /\ program = "pipe_ls" /\ At(1, "read") /\ ~Shell /\ Alive(1)
      /\ UNCHANGED <<jobVars, input, died>>
  BY DEF LsRead, Shell, Alive, At
<1> USE DEF jobVars
<1>1. "exit" \in MainCalls \ {"none"} /\ "read" \in Written /\ "exit" \notin Written
  BY DEF MainCalls, Written
<1>2. \/ Goes(1, "exit")
      \/ /\ HasData(fd[1][3])
         /\ \E n \in 1..Len(pipe[fd[1][3][2]]) :
               Takes(1, [proc[1] EXCEPT !.pc = "exit"], fd[1][3], n)
  BY DEF LsRead
<1>3. Family' /\ proc'[1].pc = "exit"
  BY <1>0, <1>1, <1>2, PopenReads
<1>4. shown = <<>> /\ \E c \in Pids \ {1}, k \in Pipes : LsTies(c, k) /\ Writing(c, k)
  BY <1>0, <1>1 DEF LsRight, At
<1>5. PICK c \in Pids \ {1}, k \in Pipes : LsTies(c, k) /\ Writing(c, k)
  BY <1>4
<1>6. fd[1][3] = <<"r", k>>
  BY <1>5 DEF LsTies
<1>b. {1, 4} \subseteq Fds
  BY DEF Fds
<1>7. CASE AtEof(fd[1][3]) /\ shown' = shown
  <2>1. pipe[k] = <<>> /\ \A p \in Pids, e \in Fds : fd[p][e] # <<"w", k>>
    BY <1>6, <1>7 DEF AtEof
  <2>2. died
    BY <1>5, <1>b, <2>1 DEF Writing
  <2> QED BY <1>0, <1>1, <1>3, <1>4, <1>7, <2>2 DEF LsRight, At
<1>8. CASE \E n \in 1..Len(pipe[fd[1][3][2]]) : shown' = SubSeq(pipe[fd[1][3][2]], 1, n)
  <2>1. PICK n \in 1..Len(pipe[k]) : shown' = SubSeq(pipe[k], 1, n)
    BY <1>6, <1>8
  <2>2. pipe[k] \in {<<>>, <<"a">>, <<"a", "b">>}
    BY <1>5 DEF Writing
  <2>3. shown' \in {<<"a">>, <<"a", "b">>}
    BY <2>1, <2>2, LsPrefix
  <2>4. shown' # <<>>
    <3>1. <<"a">> # <<>> /\ <<"a", "b">> # <<>>
      BY SmallTexts
    <3> QED BY <2>3, <3>1
  <2> QED BY <1>0, <1>1, <1>3, <2>3, <2>4 DEF LsRight, At
<1> QED BY <1>7, <1>8 DEF LsRead

\* As long as pipe_ls has not read, its child is the only other process.
LEMMA LsPartner ==
  ASSUME LsRight, program = "pipe_ls", NEW p \in Pids \ {1}, Alive(p)
  PROVE  /\ ~At(1, "start")
         /\ proc[1].pc \in Written =>
              shown = <<>> /\ \E k \in Pipes : LsTies(p, k) /\ Writing(p, k)
<1>1. ~At(1, "start")
  BY DEF LsRight, OnlyMain, Alive, At
<1>2. ASSUME proc[1].pc \in Written
      PROVE  shown = <<>> /\ \E k \in Pipes : LsTies(p, k) /\ Writing(p, k)
  <2>1. shown = <<>> /\ \E c \in Pids \ {1}, k \in Pipes : LsTies(c, k) /\ Writing(c, k)
    BY <1>2 DEF LsRight
  <2>2. \A c \in Pids \ {1}, k \in Pipes : LsTies(c, k) => c = p
    BY DEF LsTies, Alive, At
  <2> QED BY <2>1, <2>2
<1> QED BY <1>1, <1>2

\* A step of ls that keeps what it has left to write keeps all.
LEMMA LsChildKeeps ==
  ASSUME Family, LsRight, program = "pipe_ls", NEW p \in Pids \ {1}, Alive(p), Others,
         UNCHANGED <<jobVars, input, shown>>, died' \in BOOLEAN, died => died',
         \A k \in Pipes : LsTies(p, k) /\ Writing(p, k) => LsTies(p, k)' /\ Writing(p, k)'
  PROVE  Family' /\ LsRight'
<1>1. Family'
  BY OthersKeep
<1>2. proc'[1] = proc[1] /\ program' = program
  BY DEF Others, jobVars
<1>3. LsRight'
  BY <1>2, LsPartner DEF LsRight, At
<1> QED BY <1>1, <1>3

\* A child that dies, before it is ls or after, leaves what it has written.
LEMMA LsDies ==
  ASSUME Family, LsRight, program = "pipe_ls", NEW p \in Pids \ {1}, Alive(p), Exits(p),
         UNCHANGED <<jobVars, input, shown>>, died' = TRUE
  PROVE  Family' /\ LsRight'
<1>1. /\ Others /\ proc'[p].pc \in {"none", "zombie"}
      /\ \A q \in Pids \ {p} :
           /\ At(q, "none") => proc'[q].pc = "none"
           /\ fd'[q] = fd[q]
  BY ChildEnds
<1>2. ASSUME NEW k \in Pipes, LsTies(p, k), Writing(p, k)
      PROVE  LsTies(p, k)' /\ Writing(p, k)'
  <2>1. fd'[1][3] = <<"r", k>>
    BY <1>1, <1>2, Numbers DEF LsTies
  <2>2. 3 \in Fds
    BY DEF Fds
  <2>3. pipe'[k] = pipe[k]
    BY <2>1, <2>2, PipeKept, Numbers DEF Exits
  <2>4. pipe[k] \in {<<>>, <<"a">>, <<"a", "b">>}
    BY <1>2 DEF Writing
  <2>5. LsTies(p, k)'
    BY <1>1, <1>2, <2>1 DEF LsTies, At
  <2>6. Writing(p, k)'
    BY <1>1, <2>3, <2>4 DEF Writing, Alive, At
  <2> QED BY <2>5, <2>6
<1> QED BY <1>1, <1>2, LsChildKeeps

\* pipe_ls's child becomes ls, or exits.
LEMMA LsExecs ==
  ASSUME Family, LsRight, NEW p \in Pids, LsChild(p)
  PROVE  Family' /\ LsRight'
<1>0. /\ program = "pipe_ls" /\ At(p, "ls") /\ Alive(p) /\ p # 1
      /\ UNCHANGED <<jobVars, input, shown>> /\ died' = (died \/ ~Alive(p)')
  BY DEF LsChild, Alive, At, Family, Main, Prompt, MainCalls
<1> DEFINE f == Close(Dup2(fd[p], 4, 1), {3})
           r == [proc[p] EXCEPT !.pc = "run", !.argv = <<"ls">>, !.does = "ls",
                                !.held = <<"a", "b">>]
<1>a. Becomes(p, r, f) \/ Exits(p)
  <2>1. <<"ls">> # <<>> /\ <<"ls">>[1] = "ls" /\ "ls" \in Commands /\ Output("ls") = <<"a", "b">>
    BY DEF Commands, Output
  <2> QED BY <2>1 DEF LsChild, Execs
<1>b. CASE Exits(p)
  <2>1. proc'[p].pc \in {"none", "zombie"}
    BY <1>0, <1>b, ChildEnds
  <2>2. ~Alive(p)'
    BY <2>1 DEF Alive, At
  <2> QED BY <1>0, <1>b, <2>2, LsDies
<1>1. SUFFICES ASSUME Becomes(p, r, f) PROVE Family' /\ LsRight'
  BY <1>a, <1>b
<1>2. f \in [Fds -> Ends] /\ f[1] = fd[p][4]
  <2>1. fd[p] \in [Fds -> Ends] /\ {1, 3, 4} \subseteq Fds
    BY ProcTypes DEF Fds
  <2>2. f \in [Fds -> Ends]
    BY <2>1, FdOperators
  <2> QED BY <2>1, <2>2 DEF Close, Dup2
<1>3. /\ GoodProc(r) /\ r.pc = "run" /\ r.does = "ls" /\ r.held = <<"a", "b">>
      /\ r.parent = proc[p].parent /\ r.line = proc[p].line /\ r.fg = proc[p].fg
  BY ProcTypes, SeqSmall DEF GoodProc, NoProc
<1> HIDE DEF r, f
<1>4. Others
  BY <1>0, <1>1, <1>2, <1>3, BecomesOthers DEF Family
<1>5. /\ proc'[p] = r /\ \A q \in Pids \ {p} : proc'[q] = proc[q]
      /\ fd'[p] = f /\ \A q \in Pids \ {p} : fd'[q] = fd[q]
  BY <1>1, <1>2, <1>3, BecomesKeeps DEF Family
<1>6. ASSUME NEW k \in Pipes, LsTies(p, k), Writing(p, k)
      PROVE  LsTies(p, k)' /\ Writing(p, k)'
  <2>1. fd'[1][3] = <<"r", k>> /\ fd[p][4] = <<"w", k>> /\ pipe[k] = <<>>
    BY <1>0, <1>5, <1>6, Numbers DEF LsTies, Writing, At, Alive
  <2>2. pipe'[k] = <<>>
    BY <1>1, <2>1, PipeSame DEF Becomes
  <2>3. LsTies(p, k)'
    BY <1>0, <1>5, <1>6, <2>1 DEF LsTies, At
  <2>4. Writing(p, k)'
    BY <1>2, <1>3, <1>5, <2>1, <2>2 DEF Writing, At
  <2> QED BY <2>3, <2>4
<1>7. died' \in BOOLEAN /\ (died => died')
  BY <1>0 DEF Family, Histories
<1> QED BY <1>0, <1>4, <1>6, <1>7, LsChildKeeps

\* ls writes: its end is open, for pipe_ls has not read.
LEMMA LsRuns ==
  ASSUME Family, LsRight, program = "pipe_ls", NEW p \in Pids, CommandStep(p), UNCHANGED showVars
  PROVE  Family' /\ LsRight'
<1>0. /\ At(p, "run") /\ Alive(p) /\ p # 1 /\ Others /\ UNCHANGED <<jobVars, showVars>>
      /\ p \in Pids \ {1} /\ 1 \in Pids \ {p}
  BY RunOthers, Numbers DEF CommandStep, RunWrite, RunRead, Alive, At, Family
<1> USE DEF showVars
<1>b. {0, 1, 3, 4} \subseteq Fds
  BY DEF Fds
<1>c. GoodProc(proc[p])
  BY ProcTypes
<1>1. ASSUME NEW k \in Pipes, LsTies(p, k), Writing(p, k)
      PROVE  LsTies(p, k)' /\ Writing(p, k)'
  <2>1. /\ fd[1][3] = <<"r", k>> /\ proc[p].does = "ls" /\ fd[p][1] = <<"w", k>>
        /\ <<pipe[k], proc[p].held>> \in {<< <<>>, <<"a", "b">> >>, << <<"a">>, <<"b">> >>,
                                         << <<"a", "b">>, <<>> >>}
    BY <1>0, <1>1 DEF LsTies, Writing, Alive, At
  <2>2. ~Broken(fd[p][1])
    BY <1>b, <2>1, Numbers DEF Broken, Closed
  <2>3. CASE /\ proc[p].held # <<>>
             /\ Puts(p, [proc[p] EXCEPT !.held = IF proc[p].does = "yes" THEN @ ELSE Tail(@)],
                     fd[p][1], Head(proc[p].held))
    <3> DEFINE r == [proc[p] EXCEPT !.held = IF proc[p].does = "yes" THEN @ ELSE Tail(@)]
    <3>1. r.pc = "run" /\ r.does = "ls" /\ r.held = Tail(proc[p].held)
      BY <1>0, <1>c, <2>1 DEF GoodProc, NoProc, At
    <3>2. Puts(p, r, fd[p][1], Head(proc[p].held))
      BY <2>3
    <3> HIDE DEF r
    <3>3. proc'[p] = r /\ \A q \in Pids \ {p} : proc'[q] = proc[q]
      BY <3>2 DEF Puts, Family, Kernel, Procs
    <3>4. fd' = fd /\ pipe'[k] = Append(pipe[k], Head(proc[p].held))
      <4>1. k \in DOMAIN pipe
        BY DEF Family, Kernel, PipesRoomy
      <4>2. fd[p][1][1] = "w" /\ fd[p][1][2] = k
        BY <2>1
      <4> QED BY <3>2, <4>1, <4>2 DEF Puts
    <3>5. LsTies(p, k)'
      BY <1>1, <3>3, <3>4 DEF LsTies, At
    <3>6. <<pipe'[k], proc'[p].held>> \in {<< <<"a">>, <<"b">> >>, << <<"a", "b">>, <<>> >>}
      <4>1. CASE pipe[k] = <<>> /\ proc[p].held = <<"a", "b">>
        <5>1. Append(<<>>, Head(<<"a", "b">>)) = <<"a">> /\ Tail(<<"a", "b">>) = <<"b">>
          OBVIOUS
        <5> QED BY <3>1, <3>3, <3>4, <4>1, <5>1
      <4>2. CASE pipe[k] = <<"a">> /\ proc[p].held = <<"b">>
        <5>1. Append(<<"a">>, Head(<<"b">>)) = <<"a", "b">> /\ Tail(<<"b">>) = <<>>
          <6>1. \A x : Head(<<x>>) = x /\ Tail(<<x>>) = <<>>
            BY SmallTexts
          <6>2. Append(<<"a">>, "b") = <<"a", "b">>
            BY SmallTexts
          <6> QED BY <6>1, <6>2
        <5> QED BY <3>1, <3>3, <3>4, <4>2, <5>1
      <4> QED BY <2>1, <2>3, <4>1, <4>2
    <3>7. Writing(p, k)'
      BY <2>1, <3>1, <3>3, <3>4, <3>6 DEF Writing, At
    <3> QED BY <3>5, <3>7
  <2>4. CASE proc[p].held = <<>> /\ Exits(p)
    <3>1. /\ proc'[p].pc \in {"none", "zombie"}
          /\ \A q \in Pids \ {p} :
               /\ At(q, "none") => proc'[q].pc = "none"
               /\ fd'[q] = fd[q]
      BY <1>0, <2>4, ChildEnds
    <3>2. fd'[1][3] = <<"r", k>>
      BY <1>0, <2>1, <3>1
    <3>3. pipe'[k] = pipe[k]
      BY <1>b, <2>4, <3>2, PipeKept, Numbers DEF Exits
    <3>4. pipe[k] = <<"a", "b">>
      BY <2>1, <2>4
    <3>5. LsTies(p, k)'
      BY <1>1, <3>1, <3>2 DEF LsTies, At
    <3>6. Writing(p, k)'
      BY <3>1, <3>3, <3>4 DEF Writing, Alive, At
    <3> QED BY <3>5, <3>6
  <2>5. \/ /\ proc[p].held # <<>>
           /\ Puts(p, [proc[p] EXCEPT !.held = IF proc[p].does = "yes" THEN @ ELSE Tail(@)],
                   fd[p][1], Head(proc[p].held))
        \/ proc[p].held = <<>> /\ Exits(p)
    BY <2>1, <2>2 DEF CommandStep, RunWrite, RunRead
  <2> QED BY <2>3, <2>4, <2>5
<1> QED BY <1>0, <1>1, LsChildKeeps DEF Family, Histories

\* A child dies.
LEMMA DiesKeeps ==
  ASSUME Family, UpperRight, LsRight, NEW p \in Pids, ChildDies(p)
  PROVE  Family' /\ UpperRight' /\ LsRight'
<1>0. /\ p \in Pids \ {1} /\ 1 \in Pids \ {p} /\ Alive(p) /\ Exits(p) /\ died' = TRUE
      /\ died' \in BOOLEAN /\ UNCHANGED <<jobVars, input, shown>>
  BY Numbers DEF ChildDies
<1>1. /\ Others /\ proc'[p].pc \in {"none", "zombie"}
      /\ \A q \in Pids \ {p} :
           /\ proc'[q].pc \in {"none", proc[q].pc}
           /\ At(q, "none") => proc'[q].pc = "none"
           /\ fd'[q] = fd[q]
  BY <1>0, ChildEnds
<1>2. Family'
  BY <1>0, <1>1, OthersKeep
<1>3. program' = program /\ proc'[1] = proc[1] /\ shown' = shown
  BY <1>0, <1>1 DEF Others, jobVars
<1>4. UpperRight'
  <2> SUFFICES ASSUME program = "44_1" PROVE UpperRight'
    BY <1>3 DEF UpperRight
  <2>1. \A q \in Pids \ {1} : proc'[q].pc \in {"none", "zombie", "child", "copy"}
    BY <1>0, <1>1 DEF UpperRight
  <2>2. ~At(1, "start")
    BY <1>0 DEF UpperRight, OnlyMain, Alive, At
  <2> QED BY <1>0, <1>3, <2>1, <2>2 DEF UpperRight, At
<1>5. LsRight'
  <2> SUFFICES ASSUME program = "pipe_ls" PROVE LsRight'
    BY <1>3 DEF LsRight
  <2> QED BY <1>0, LsDies
<1> QED BY <1>2, <1>4, <1>5

-----------------------------------------------------------------------------
\* The invariant holds when the program starts.
LEMMA ProcessInitial == ASSUME ProcessInit PROVE ProcessInv
<1> USE DEF ProcessInit, KernelInit
<1>1. /\ GoodProc(NoProc) /\ NoProc.pc = "none" /\ NoProc.parent = 0 /\ NoProc.held = <<>>
      /\ GoodProc([NoProc EXCEPT !.pc = "start"])
      /\ [NoProc EXCEPT !.pc = "start"].pc = "start"
      /\ [NoProc EXCEPT !.pc = "start"].parent = 0
      /\ [NoProc EXCEPT !.pc = "start"].held = <<>>
  <2>1. IsSeq(<<>>) /\ 0 \in 0..MaxPid /\ 0 \in 0..MaxTyped
    BY SeqSmall, Numbers
  <2> QED BY <2>1 DEF GoodProc, NoProc
<1>2. /\ proc[1] = [NoProc EXCEPT !.pc = "start"]
      /\ \A q \in Pids \ {1} : proc[q] = NoProc
      /\ DOMAIN proc = Pids
  BY Numbers
<1>3. /\ At(1, "start") /\ proc[1].parent = 0 /\ proc[1].held = <<>>
      /\ \A q \in Pids \ {1} : At(q, "none")
  BY <1>1, <1>2 DEF At
<1>4. Procs
  BY <1>1, <1>2 DEF Procs
<1>5. Descriptors
  <2>1. \A e \in Fds : Terminal[e] \in Ends
    BY DEF Terminal, Ends
  <2>2. fd \in [Pids -> [Fds -> Ends]]
    BY <2>1 DEF Ends
  <2>3. \A p \in Pids : ~Alive(p) => p # 1
    BY <1>3 DEF Alive, At
  <2> QED BY <2>2, <2>3 DEF Descriptors, NoFds
<1>6. PipesRoomy
  BY SeqSmall, Numbers DEF PipesRoomy
<1>7. Kernel
  BY <1>4, <1>5, <1>6 DEF Kernel
<1>8. Main
  BY <1>3 DEF Main, Prompt, At
<1>9. Histories
  <2>1. program \in {"HW3", "HW5", "44_1", "44_2_r", "44_2_w", "pipe_ls"}
    BY DEF JobShellInit, PipeShellInit, PipeProgramsInit
  <2>2. typed \in 0..MaxTyped /\ background \in 0..typed
    BY Numbers
  <2>3. ~At(1, "run_command")
    BY <1>3 DEF At
  <2> QED BY <2>1, <2>2, <2>3 DEF Histories
<1>10. Children(1) = {}
  BY <1>3 DEF Children
<1>11. ChildrenAgree
  <2>1. Cardinality(Children(1)) = 0
    BY <1>10, FS_EmptySet
  <2> QED BY <1>3, <2>1 DEF ChildrenAgree, At
<1>12. Lines
  BY <1>10 DEF Lines
<1>13. OnlyMain
  BY <1>3 DEF OnlyMain
<1>14. UpperRight
  BY <1>3, <1>13 DEF UpperRight, At, Exchanging, Written
<1>15. LsRight
  BY <1>3, <1>13 DEF LsRight, At, Written
<1> QED BY <1>7, <1>8, <1>9, <1>11, <1>12, <1>14, <1>15 DEF ProcessInv, Family

\* A step of nothing keeps it.
LEMMA ProcessStutter == ASSUME ProcessInv, UNCHANGED processVars PROVE ProcessInv'
<1> USE DEF processVars
<1>1. /\ \A p \in Pids : Alive(p)' = Alive(p)
      /\ \A p \in Pids : At(p, "none")' = At(p, "none")
      /\ Children(1)' = Children(1)
      /\ Shell' = Shell
  BY DEF Alive, At, Children, Shell
<1>2. Kernel'
  BY <1>1 DEF ProcessInv, Family, Kernel, Procs, Descriptors, PipesRoomy
<1>3. Others
  BY <1>1, <1>2 DEF Others, SameFamily
<1>4. Family'
  BY <1>3, OthersKeep DEF ProcessInv, Family, Histories, jobVars
<1>5. OnlyMain' = OnlyMain
  BY DEF OnlyMain, At
<1>6. \A c \in Pids \ {1}, j, k \in Pipes : Exchange(c, j, k)' = Exchange(c, j, k)
  BY DEF Exchange, Ties, NoText, TextAt, Alive, At
<1>7. UpperRight'
  BY <1>5, <1>6 DEF ProcessInv, UpperRight, At
<1>8. \A c \in Pids \ {1}, k \in Pipes :
        (LsTies(c, k) /\ Writing(c, k))' = (LsTies(c, k) /\ Writing(c, k))
  BY DEF LsTies, Writing, Alive, At
<1>9. LsRight'
  BY <1>5, <1>8 DEF ProcessInv, LsRight, At
<1> QED BY <1>4, <1>7, <1>9 DEF ProcessInv

\* So does the end of a program of PipePrograms,
LEMMA MainExitsKeeps == ASSUME ProcessInv, MainExits PROVE ProcessInv'
<1>1. Exits(1) /\ UNCHANGED <<jobVars, showVars>> /\ program' = program
  BY DEF MainExits, jobVars
<1>2. Family'
  BY <1>1, MainEnds DEF ProcessInv, Family, Histories, showVars
<1>3. UpperRight'
  BY <1>1, UpperMainEnds DEF ProcessInv, UpperRight
<1>4. proc'[1].pc = "none"
  BY <1>1, ExitsKeeps, ProcOne, Numbers DEF ProcessInv, Family
<1>5. LsRight'
  BY <1>4 DEF LsRight, At, Written
<1> QED BY <1>2, <1>3, <1>5 DEF ProcessInv

\* What is not about 44_1, or not about pipe_ls.
LEMMA Elsewhere ==
  /\ program # "44_1" /\ program' = program => UpperRight'
  /\ program # "pipe_ls" /\ program' = program => LsRight'
BY DEF UpperRight, LsRight

\* a step of a shell or of a command,
LEMMA ShellSteps ==
  ASSUME ProcessInv, NEW p \in Pids, Alive(p), UNCHANGED showVars,
         JobShellStep(p) \/ PipeShellStep(p) \/ CommandStep(p)
  PROVE  ProcessInv'
<1>1. CASE JobShellStep(p)
  <2>1. program = "HW3" /\ program' = program
    BY <1>1 DEF JobShellStep, Fgets, FgetsEof, DoBuiltin, RunCommand, Waitpid, ChildExec, jobVars
  <2> QED BY <1>1, <2>1, JobShellKeeps, Elsewhere DEF ProcessInv
<1>2. CASE PipeShellStep(p)
  <2>1. program = "HW5" /\ program' = program
    BY <1>2 DEF PipeShellStep, PFgets, PFgetsEof, PDoBuiltin, PRunCommand, PWaitpid, Redirect,
                ExecWhole, SplitPipe, LeftExec, RightRedirect, jobVars
  <2> QED BY <1>2, <2>1, PipeShellKeeps, Elsewhere DEF ProcessInv
<1>3. CASE CommandStep(p)
  <2>1. At(p, "run") /\ program' = program
    BY <1>3 DEF CommandStep, RunWrite, RunRead, jobVars
  <2>2. Others /\ p # 1
    BY <1>3, RunOthers DEF CommandStep, ProcessInv, Family
  <2>3. program # "44_1"
    BY <2>1, <2>2 DEF ProcessInv, UpperRight, At
  <2>4. Family'
    BY <1>3, <2>2, OthersKeep DEF ProcessInv, Family, Histories, CommandStep, showVars
  <2>5. LsRight'
    BY <1>3, <2>1, LsRuns, Elsewhere DEF ProcessInv
  <2> QED BY <2>1, <2>3, <2>4, <2>5, Elsewhere DEF ProcessInv
<1> QED BY <1>1, <1>2, <1>3

\* one of 44_1 and its child,
LEMMA UpperSteps == ASSUME ProcessInv, NEW p \in Pids, UpperStep(p) PROVE ProcessInv'
<1>1. program = "44_1" /\ program' = program
  BY DEF UpperStep, UpperStart, UpperParentCloses, UpperReadStdin, UpperWrite, UpperClose,
         UpperRead, UpperShow, UpperWait, UpperChildCloses, UpperChildReads, UpperChildWrites,
         In44_1, jobVars
<1>2. Family' /\ UpperRight'
  <2> USE DEF ProcessInv
  <2>1. CASE UpperStart
    BY <2>1, UpperStarts
  <2>2. CASE UpperParentCloses \/ UpperClose
    BY <2>2, UpperMainCloses
  <2>3. CASE UpperReadStdin
    BY <2>3, UpperReadsStdin
  <2>4. CASE UpperWrite
    BY <2>4, UpperWrites
  <2>5. CASE UpperRead
    BY <2>5, UpperReads
  <2>6. CASE UpperShow
    BY <2>6, UpperShows
  <2>7. CASE UpperWait
    BY <2>7, UpperWaits
  <2>8. CASE UpperChildCloses(p) \/ UpperChildReads(p) \/ UpperChildWrites(p)
    BY <2>8, UpperChildSteps
  <2> QED BY <2>1, <2>2, <2>3, <2>4, <2>5, <2>6, <2>7, <2>8 DEF UpperStep
<1> QED BY <1>1, <1>2, Elsewhere DEF ProcessInv

\* one of pipe_ls and its child,
LEMMA LsSteps == ASSUME ProcessInv, NEW p \in Pids, LsStep(p) PROVE ProcessInv'
<1>1. program = "pipe_ls" /\ program' = program
  BY DEF LsStep, LsFork, LsParent, LsRead, LsChild, jobVars
<1>2. Family' /\ LsRight'
  BY LsForks, LsCloses, LsReads, LsExecs DEF LsStep, ProcessInv
<1> QED BY <1>1, <1>2, Elsewhere DEF ProcessInv

\* and thus every step.
LEMMA ProcessStep == ProcessInv /\ [ProcessNext]_processVars => ProcessInv'
<1> SUFFICES ASSUME ProcessInv, [ProcessNext]_processVars PROVE ProcessInv'
  OBVIOUS
<1>1. CASE UNCHANGED processVars
  BY <1>1, ProcessStutter
<1>2. ASSUME NEW p \in Pids, Step(p) PROVE ProcessInv'
  <2>1. CASE (JobShellStep(p) \/ PipeShellStep(p) \/ CommandStep(p)) /\ UNCHANGED showVars
    BY <1>2, <2>1, ShellSteps DEF Step
  <2>2. CASE UpperStep(p)
    BY <2>2, UpperSteps
  <2>3. CASE PopenStep(p)
    BY <1>2, <2>3, PopenKeeps, Elsewhere DEF Step, ProcessInv, Popen
  <2>4. CASE LsStep(p)
    BY <2>4, LsSteps
  <2>5. CASE MainExits
    BY <2>5, MainExitsKeeps
  <2> QED BY <1>2, <2>1, <2>2, <2>3, <2>4, <2>5 DEF Step
<1>3. ASSUME NEW p \in Pids, ChildDies(p) PROVE ProcessInv'
  BY <1>3, DiesKeeps DEF ProcessInv
<1> QED BY <1>1, <1>2, <1>3 DEF ProcessNext

\* The invariant holds for ever.
LEMMA ProcessInvariant == ProcessSpec => []ProcessInv
<1>1. ProcessInit => ProcessInv
  BY ProcessInitial
<1> QED BY <1>1, ProcessStep, PTL DEF ProcessSpec

\* ChildrenCounted, for any number of processes, pipes and lines typed, and any
\* lines: at its prompt a shell has as many unreaped children as it has started
\* background commands (in HW5 the background commands themselves), so that the
\* shell that waits always finds a child; and no pipe is over full.
THEOREM ChildrenRight == ProcessSpec => []ChildrenCounted
<1>1. ProcessInv => ChildrenCounted
  <2> SUFFICES ASSUME ProcessInv PROVE ChildrenCounted
    OBVIOUS
  <2> USE DEF ProcessInv, Family
  <2>1. ProcessTypeOK
    <3>1. program \in {"HW3", "HW5", "44_1", "44_2_r", "44_2_w", "pipe_ls"} /\ died \in BOOLEAN
      BY DEF Histories
    <3>2. typed \in 0..MaxTyped /\ over \subseteq 0..MaxTyped
      BY DEF Histories, Kernel
    <3>3. background \in 0..MaxTyped
      BY Numbers DEF Histories
    <3>4. \A p \in Pids : ~Alive(p) => fd[p] = [e \in Fds |-> Closed]
      BY DEF Kernel, Descriptors, NoFds
    <3>5. \A k \in Pipes : Len(pipe[k]) =< Capacity
      BY DEF Kernel, PipesRoomy
    <3> QED BY <3>1, <3>2, <3>3, <3>4, <3>5 DEF ProcessTypeOK
  <2>2. ASSUME Shell, At(1, "start")
        PROVE  /\ Cardinality(Children(1)) = background
               /\ program = "HW5" => \A p \in Children(1) : ~proc[p].fg
    <3>1. Cardinality(Children(1)) = background
      BY <2>2 DEF ChildrenAgree, Prompt, At
    <3>2. ASSUME program = "HW5" PROVE \A p \in Children(1) : ~proc[p].fg
      BY <2>2, <3>2 DEF Lines, At
    <3> QED BY <3>1, <3>2
  <2>3. ASSUME Shell, At(1, "waitpid") PROVE Children(1) # {}
    <3>1. Cardinality(Children(1)) = background + 1 /\ background \in Nat
      BY <2>3 DEF ChildrenAgree, Histories
    <3>2. Cardinality({}) = 0
      BY FS_EmptySet
    <3> QED BY <3>1, <3>2
  <2> QED BY <2>1, <2>2, <2>3 DEF ChildrenCounted
<1> QED BY <1>1, ProcessInvariant, PTL

\* ShownRight, likewise: 44_1 shows the text in upper case unless its child was
\* killed or met a failing call, and pipe_ls a beginning of what ls writes, nothing
\* only when its child was killed before it wrote or could not become ls.
THEOREM WhatIsShown == ProcessSpec => []ShownRight
<1>1. ProcessInv => ShownRight
  <2> SUFFICES ASSUME ProcessInv PROVE ShownRight
    OBVIOUS
  <2>1. program = "44_1" /\ ~died /\ shown # <<>> => shown = <<Upper(input[1])>>
    BY DEF ProcessInv, UpperRight
  <2>2. ASSUME program = "pipe_ls", At(1, "exit")
        PROVE  IsPrefix(shown, Output("ls")) /\ (shown = <<>> => died)
    <3>1. shown \in {<<>>, <<"a">>, <<"a", "b">>} /\ (shown = <<>> => died)
      BY <2>2 DEF ProcessInv, LsRight
    <3>2. Output("ls") = <<"a", "b">>
      BY DEF Output
    <3>3. IsPrefix(shown, Output("ls"))
      <4>1. CASE shown = <<>>
        BY <3>2, <4>1, LsTexts
      <4>2. CASE shown = <<"a">>
        BY <3>2, <4>2, LsTexts
      <4>3. CASE shown = <<"a", "b">>
        BY <3>2, <4>3, LsTexts
      <4> QED BY <3>1, <4>1, <4>2, <4>3
    <3> QED BY <3>1, <3>3
  <2> QED BY <2>1, <2>2 DEF ShownRight
<1> QED BY <1>1, ProcessInvariant, PTL
-----------------------------------------------------------------------------
(* What StagesAsWritten rests on: the processes of a pipeline, each with what
   is left of its line, and the pipe between each and the next *)

\* What is left of a line at stage s: what follows its word b, up to a word behind
\* the last "|"; s - 1 bars are in front of it.
RestFrom(words, argv, b, s) ==
    /\ b \in {0} \union Bars(words)
    /\ Cardinality({j \in Bars(words) : j =< b}) = s - 1
    /\ b + Len(argv) =< Len(words)
    /\ Bars(words) \subseteq 1..(b + Len(argv))
    /\ \A i \in 1..Len(argv) : argv[i] = words[b + i]

\* The rest of a line at stage s, from some word on.
Rest(words, argv, s) == \E b \in 0..Len(words) : RestFrom(words, argv, b, s)

\* The stages of a line, and what its ends are: a file or the terminal.
LastStage(words) == Cardinality(Bars(words)) + 1
InOf(words) == IF First("<", words) # 0 THEN InFile ELSE Tty
OutOf(words) == IF First(">", words) # 0 THEN OutFile ELSE Tty

\* The calls of the processes of a pipeline, and of the one that is to make the
\* next stage.
Stages == {"redirect", "pipe_and_exec", "left", "right", "run"}
Tips == {"redirect", "pipe_and_exec", "right"}

\* A process of a pipeline, with fields r and descriptors f.
StageRight(r, f) ==
    /\ r.words \in Seq(STRING) /\ r.argv \in Seq(STRING) /\ r.stage \in Nat \ {0}
    /\ r.pc = "redirect" => r.stage = 1 /\ r.argv = r.words /\ f = Terminal
    /\ r.pc \in {"pipe_and_exec", "run"} => \A e \in Fds \ {0, 1} : f[e] = Closed
    /\ r.pc \in {"left", "right"} =>
         /\ f[5] = Closed /\ f[6] = Closed
         /\ f[3][1] = "r" /\ f[4][1] = "w" /\ f[3][2] = f[4][2]
         /\ pipe_present(r.argv) > 0
    /\ r.pc = "right" => r.stage > 1
    /\ r.stage > 1 /\ r.pc # "right" => f[0][1] = "r"
    /\ AsWritten(r.words) =>
         /\ r.pc \in {"pipe_and_exec", "left", "right"} =>
              /\ Rest(r.words, r.argv, IF r.pc = "right" THEN r.stage - 1 ELSE r.stage)
              /\ f[1] = OutOf(r.words)
         /\ r.pc # "redirect" /\ r.stage = 1 => f[0] = InOf(r.words)
         /\ r.pc = "run" =>
              /\ r.argv[1] = CommandAt(r.words, r.stage)
              /\ r.stage = LastStage(r.words) => f[1] = OutOf(r.words)
              /\ r.stage < LastStage(r.words) => f[1][1] = "w"

\* The pipe that a stage writes, and the one that it reads.
Writes(p) == IF At(p, "left") THEN fd[p][4][2] ELSE fd[p][1][2]
Reads(p) == IF At(p, "right") THEN fd[p][3][2] ELSE fd[p][0][2]

\* A process of a pipeline; two of the same line.
Staged(p) == p # 1 /\ proc[p].pc \in Stages
SameLine(p, q) == Staged(p) /\ Staged(q) /\ proc[p].line = proc[q].line

\* The invariant.  No two processes of a line are of one stage, and only that of the
\* greatest stage may make another.  A stage that follows another reads the pipe
\* that the other writes; lines are told apart by their number.
Wired ==
    program = "HW5" =>
      /\ Alive(1) => fd[1] = Terminal
      /\ At(1, "run_command") => proc[1].argv \in Seq(STRING)
      /\ \A p \in Pids :
           Staged(p) => /\ StageRight(proc[p], fd[p])
                        /\ proc[p].line =< typed
                        /\ At(1, "run_command") => proc[p].line < typed
      /\ \A p, q \in Pids : SameLine(p, q) =>
           /\ proc[p].stage = proc[q].stage => p = q
           /\ proc[p].pc \in Tips => proc[q].stage =< proc[p].stage
           /\ proc[q].stage = proc[p].stage + 1 =>
                proc[p].pc \in {"left", "run"} /\ Writes(p) = Reads(q)
-----------------------------------------------------------------------------
(* The words of a line *)

\* First finds the first occurrence of a word.
LEMMA FirstFound ==
  ASSUME NEW x, NEW w \in Seq(STRING)
  PROVE  /\ First(x, w) \in 0..Len(w) /\ Len(w) \in Nat /\ DOMAIN w = 1..Len(w)
         /\ First(x, w) = 0 => \A i \in 1..Len(w) : w[i] # x
         /\ First(x, w) # 0 => /\ w[First(x, w)] = x
                               /\ \A i \in 1..(First(x, w) - 1) : w[i] # x
<1> DEFINE I == {i \in 1..Len(w) : w[i] = x}
<1>1. First(x, w) = IF I # {} THEN Min(I) ELSE 0
  BY DEF First, SelectInSeq
<1>2. Len(w) \in Nat /\ DOMAIN w = 1..Len(w)
  OBVIOUS
<1>3. I \in SUBSET Nat
  BY <1>2
<1>4. CASE I = {}
  BY <1>1, <1>2, <1>4
<1>5. CASE I # {}
  <2>1. Min(I) \in I /\ \A i \in I : Min(I) =< i
    BY <1>3, <1>5, SmallestOf
  <2>2. Min(I) \in 1..Len(w) /\ w[Min(I)] = x
    BY <2>1
  <2>3. \A i \in 1..(Min(I) - 1) : w[i] # x
    <3> SUFFICES ASSUME NEW i \in 1..(Min(I) - 1), w[i] = x PROVE FALSE
      OBVIOUS
    <3>1. i \in 1..Len(w)
      BY <1>2, <2>2
    <3>2. Min(I) =< i
      BY <2>1, <3>1
    <3> HIDE DEF I
    <3> QED BY <1>2, <2>2, <3>2
  <2> HIDE DEF I
  <2> QED BY <1>1, <1>2, <1>5, <2>2, <2>3
<1> QED BY <1>4, <1>5

\* Before is what is in front of it.
LEMMA BeforeCuts ==
  ASSUME NEW x, NEW w \in Seq(STRING)
  PROVE  /\ Before(x, w) \in Seq(STRING) /\ Len(Before(x, w)) \in Nat
         /\ Len(Before(x, w)) = IF First(x, w) = 0 THEN Len(w) ELSE First(x, w) - 1
         /\ Len(Before(x, w)) =< Len(w)
         /\ \A i \in 1..Len(Before(x, w)) : Before(x, w)[i] = w[i]
<1> DEFINE n == First(x, w)
<1>1. n \in 0..Len(w) /\ Len(w) \in Nat /\ DOMAIN w = 1..Len(w)
  BY FirstFound
<1>2. CASE n = 0
  BY <1>1, <1>2 DEF Before
<1>3. CASE n # 0
  <2>1. Before(x, w) = SubSeq(w, 1, n - 1)
    BY <1>3 DEF Before
  <2> HIDE DEF n
  <2> DEFINE k == n - 1
  <2>2. k \in Int /\ 1 \in Int /\ k \in Nat /\ k =< Len(w) /\ k - 1 + 1 = k
    BY <1>1, <1>3
  <2>3. \A i \in 1..k : w[i] \in STRING
    BY <1>1, <2>2
  <2> HIDE DEF k
  <2>4. /\ SubSeq(w, 1, k) \in Seq(STRING)
        /\ Len(SubSeq(w, 1, k)) = IF 1 <= k THEN k - 1 + 1 ELSE 0
        /\ \A i \in 1..k - 1 + 1 : SubSeq(w, 1, k)[i] = w[1 + i - 1]
    BY <2>2, <2>3, SubSeqProperties
  <2>5. Len(SubSeq(w, 1, k)) = k /\ \A i \in 1..k : SubSeq(w, 1, k)[i] = w[i]
    BY <2>2, <2>4
  <2>6. Before(x, w) = SubSeq(w, 1, k)
    BY <2>1 DEF k
  <2>7. k = n - 1
    BY DEF k
  <2> QED BY <1>3, <2>2, <2>4, <2>5, <2>6, <2>7 DEF n
<1> QED BY <1>2, <1>3

\* The bars of a line can be counted.
LEMMA BarsCount ==
  ASSUME NEW w \in Seq(STRING)
  PROVE  /\ Bars(w) \subseteq 1..Len(w) /\ Bars(w) \subseteq Nat /\ IsFiniteSet(Bars(w))
         /\ \A S \in SUBSET Bars(w) :
              /\ IsFiniteSet(S) /\ Cardinality(S) \in Nat
              /\ \A T \in SUBSET S : Cardinality(T) =< Cardinality(S)
              /\ \A x \in Bars(w) \ S : Cardinality(S \union {x}) = Cardinality(S) + 1
<1>1. Bars(w) \subseteq 1..Len(w) /\ Len(w) \in Nat
  BY FirstFound DEF Bars
<1>2. IsFiniteSet(1..Len(w))
  BY <1>1, FS_Interval
<1>3. IsFiniteSet(Bars(w))
  BY <1>1, <1>2, FS_Subset
<1>4. ASSUME NEW S \in SUBSET Bars(w)
      PROVE  /\ IsFiniteSet(S) /\ Cardinality(S) \in Nat
             /\ \A T \in SUBSET S : Cardinality(T) =< Cardinality(S)
             /\ \A x \in Bars(w) \ S : Cardinality(S \union {x}) = Cardinality(S) + 1
  <2>1. IsFiniteSet(S)
    BY <1>3, FS_Subset
  <2>2. Cardinality(S) \in Nat
    BY <2>1, FS_CardinalityType
  <2>3. \A T \in SUBSET S : Cardinality(T) =< Cardinality(S)
    BY <2>1, FS_Subset
  <2>4. \A x \in Bars(w) \ S : Cardinality(S \union {x}) = Cardinality(S) + 1
    BY <2>1, FS_AddElement
  <2> QED BY <2>1, <2>2, <2>3, <2>4
<1> QED BY <1>1, <1>3, <1>4

\* What the redirections leave of a line is all its stages, and they find the
\* files that are written there.
LEMMA RedirectCuts ==
  ASSUME NEW w \in Seq(STRING), AsWritten(w)
  PROVE  /\ RestFrom(w, Before(">", Before("<", w)), 0, 1)
         /\ First(">", Before("<", w)) # 0 <=> First(">", w) # 0
         /\ First("<", w) # 0 <=> FileName("<", w) = "file"
<1> DEFINE v == Before("<", w)  a == Before(">", v)
<1>1. /\ DOMAIN w = 1..Len(w) /\ Len(w) \in Nat
      /\ First("<", w) \in 0..Len(w)
      /\ First("<", w) # 0 => w[First("<", w)] = "<"
      /\ First(">", w) \in 0..Len(w)
      /\ First(">", w) # 0 => w[First(">", w)] = ">"
      /\ First(">", w) = 0 => \A i \in 1..Len(w) : w[i] # ">"
  BY FirstFound
<1>2. /\ v \in Seq(STRING) /\ Len(v) \in Nat /\ Len(v) =< Len(w)
      /\ Len(v) = IF First("<", w) = 0 THEN Len(w) ELSE First("<", w) - 1
      /\ \A i \in 1..Len(v) : v[i] = w[i]
  BY BeforeCuts
<1> HIDE DEF v
<1>3. /\ First(">", v) \in 0..Len(v)
      /\ First(">", v) # 0 => v[First(">", v)] = ">"
      /\ First(">", v) = 0 => \A i \in 1..Len(v) : v[i] # ">"
  BY <1>2, FirstFound
<1>4. /\ a \in Seq(STRING) /\ Len(a) \in Nat /\ Len(a) =< Len(v)
      /\ Len(a) = IF First(">", v) = 0 THEN Len(v) ELSE First(">", v) - 1
      /\ \A i \in 1..Len(a) : a[i] = v[i]
  BY <1>2, BeforeCuts
<1> HIDE DEF a
<1>5. \A i, j \in 1..Len(w) :
        /\ w[i] = "<" => w[j] # "|" /\ (w[j] = ">" => j < i)
        /\ w[i] = ">" /\ w[j] = "|" => j < i
  BY <1>1 DEF AsWritten, Bars
<1>6. First(">", v) # 0 <=> First(">", w) # 0
  <2>1. ASSUME First(">", v) # 0 PROVE First(">", w) # 0
    <3>1. First(">", v) \in 1..Len(v) /\ First(">", v) \in 1..Len(w)
      BY <1>1, <1>2, <1>3, <2>1
    <3>2. w[First(">", v)] = ">"
      BY <1>2, <1>3, <2>1, <3>1
    <3> QED BY <1>1, <3>1, <3>2
  <2>2. ASSUME First(">", w) # 0 PROVE First(">", v) # 0
    <3>1. First(">", w) \in 1..Len(w) /\ w[First(">", w)] = ">"
      BY <1>1, <2>2
    <3>2. First(">", w) \in 1..Len(v)
      <4>1. CASE First("<", w) = 0
        BY <1>2, <3>1, <4>1
      <4>2. CASE First("<", w) # 0
        <5>1. First("<", w) \in 1..Len(w) /\ w[First("<", w)] = "<"
          BY <1>1, <4>2
        <5>2. First(">", w) < First("<", w)
          BY <1>5, <3>1, <5>1
        <5> QED BY <1>1, <1>2, <3>1, <4>2, <5>2
      <4> QED BY <4>1, <4>2
    <3>3. v[First(">", w)] = ">"
      BY <1>2, <3>1, <3>2
    <3> QED BY <1>3, <3>2, <3>3
  <2> QED BY <2>1, <2>2
<1>7. First("<", w) # 0 <=> FileName("<", w) = "file"
  <2>1. First("<", w) # 0 => FileName("<", w) = "file"
    BY DEF AsWritten
  <2>2. First("<", w) = 0 => FileName("<", w) = ""
    BY DEF FileName
  <2> QED BY <2>1, <2>2
<1>8. RestFrom(w, a, 0, 1)
  <2> DEFINE V == {j \in Bars(w) : j =< 0}
  <2>1. V = {}
    BY BarsCount
  <2>2. Cardinality({j \in Bars(w) : j =< 0}) = 1 - 1
    <3> HIDE DEF V
    <3>1. Cardinality(V) = 1 - 1
      BY <2>1, FS_EmptySet
    <3> QED BY <3>1 DEF V
  <2>3. 0 + Len(a) =< Len(w)
    BY <1>1, <1>2, <1>4
  <2>4. Bars(w) \subseteq 1..(0 + Len(a))
    <3> SUFFICES ASSUME NEW j \in Bars(w) PROVE j \in 1..Len(a)
      BY <1>4
    <3>1. j \in 1..Len(w) /\ w[j] = "|"
      BY <1>1 DEF Bars
    <3>2. First("<", w) = 0
      <4> SUFFICES ASSUME First("<", w) # 0 PROVE FALSE
        OBVIOUS
      <4>1. First("<", w) \in 1..Len(w) /\ w[First("<", w)] = "<"
        BY <1>1
      <4> QED BY <1>5, <3>1, <4>1
    <3>3. j \in 1..Len(v)
      BY <1>2, <3>1, <3>2
    <3>4. CASE First(">", v) = 0
      BY <1>4, <3>3, <3>4
    <3>5. CASE First(">", v) # 0
      <4>1. First(">", v) \in 1..Len(v) /\ First(">", v) \in 1..Len(w)
        BY <1>1, <1>2, <1>3, <3>5
      <4>2. w[First(">", v)] = ">"
        BY <1>2, <1>3, <3>5, <4>1
      <4>3. j < First(">", v)
        BY <1>5, <3>1, <4>1, <4>2
      <4> QED BY <1>4, <3>1, <3>5, <4>1, <4>3
    <3> QED BY <3>4, <3>5
  <2>5. \A i \in 1..Len(a) : a[i] = w[0 + i]
    <3> SUFFICES ASSUME NEW i \in 1..Len(a) PROVE a[i] = w[0 + i]
      OBVIOUS
    <3>1. i \in 1..Len(v) /\ 0 + i = i
      BY <1>2, <1>4
    <3> QED BY <1>2, <1>4, <3>1
  <2> QED BY <2>2, <2>3, <2>4, <2>5 DEF RestFrom
<1> QED BY <1>6, <1>7, <1>8 DEF v, a

\* What follows the first bar is left for the next stage; this one is not the last.
LEMMA RestSplit ==
  ASSUME NEW w \in Seq(STRING), NEW a \in Seq(STRING), NEW b \in Nat, NEW s \in Nat \ {0},
         RestFrom(w, a, b, s), First("|", a) # 0
  PROVE  /\ RestFrom(w, SubSeq(a, First("|", a) + 1, Len(a)), b + First("|", a), s + 1)
         /\ s < LastStage(w)
<1> DEFINE k == First("|", a)  c == SubSeq(a, k + 1, Len(a))
<1>1. /\ Len(w) \in Nat /\ DOMAIN w = 1..Len(w)
      /\ Len(a) \in Nat /\ k \in 1..Len(a) /\ a[k] = "|" /\ \A i \in 1..(k - 1) : a[i] # "|"
  BY FirstFound
<1>d. DOMAIN a = 1..Len(a)
  BY FirstFound
<1> HIDE DEF k
<1>2. /\ b + Len(a) =< Len(w) /\ Bars(w) \subseteq 1..(b + Len(a))
      /\ \A i \in 1..Len(a) : a[i] = w[b + i]
      /\ Cardinality({j \in Bars(w) : j =< b}) = s - 1
  BY DEF RestFrom
<1>3. b + k \in Bars(w) /\ b + k \in Nat
  <2>1. b + k \in 1..Len(w)
    BY <1>1, <1>2
  <2> QED BY <1>1, <1>2, <2>1 DEF Bars
<1>4. {j \in Bars(w) : j =< b + k} = {j \in Bars(w) : j =< b} \union {b + k}
  <2>1. ASSUME NEW j \in Bars(w), j =< b + k, ~(j =< b) PROVE j = b + k
    <3>1. j \in Nat /\ w[j] = "|"
      BY BarsCount DEF Bars
    <3>2. SUFFICES ASSUME j # b + k PROVE FALSE
      OBVIOUS
    <3>3. j - b \in 1..(k - 1) /\ j - b \in 1..Len(a) /\ b + (j - b) = j
      BY <1>1, <2>1, <3>1, <3>2
    <3>4. a[j - b] = "|"
      BY <1>2, <3>1, <3>3
    <3> QED BY <1>1, <3>3, <3>4
  <2>2. \A j \in Bars(w) : j =< b => j =< b + k
    BY <1>1, BarsCount
  <2>3. b + k =< b + k
    BY <1>1
  <2> QED BY <1>3, <2>1, <2>2, <2>3
<1>5. /\ Cardinality({j \in Bars(w) : j =< b + k}) = (s + 1) - 1
      /\ Cardinality({j \in Bars(w) : j =< b + k}) =< Cardinality(Bars(w))
      /\ Cardinality(Bars(w)) \in Nat
  <2> DEFINE S == {j \in Bars(w) : j =< b}  V == {j \in Bars(w) : j =< b + k}
  <2>1. S \in SUBSET Bars(w) /\ Bars(w) \in SUBSET Bars(w)
    OBVIOUS
  <2>2. b + k \in Bars(w) \ S
    <3>1. ~(b + k =< b)
      BY <1>1
    <3> QED BY <1>3, <3>1
  <2>3. S \union {b + k} \in SUBSET Bars(w)
    BY <1>3
  <2>4. Cardinality(S) = s - 1
    BY <1>2
  <2> HIDE DEF S
  <2>5. Cardinality(S \union {b + k}) = Cardinality(S) + 1
    BY <2>1, <2>2, BarsCount
  <2>6. Cardinality(S \union {b + k}) =< Cardinality(Bars(w)) /\ Cardinality(Bars(w)) \in Nat
    BY <2>1, <2>3, BarsCount
  <2>7. V = S \union {b + k}
    BY <1>4 DEF S
  <2> HIDE DEF V
  <2>8. /\ Cardinality(V) = (s + 1) - 1 /\ Cardinality(V) =< Cardinality(Bars(w))
        /\ Cardinality(Bars(w)) \in Nat
    BY <2>4, <2>5, <2>6, <2>7
  <2> QED BY <2>8 DEF V
<1>6. Len(c) = Len(a) - k /\ \A i \in 1..Len(c) : c[i] = w[(b + k) + i]
  <2> DEFINE m == k + 1
  <2>1. m \in Int /\ Len(a) \in Int /\ m \in Nat /\ m = k + 1
    BY <1>1
  <2>2. \A i \in m..Len(a) : a[i] \in STRING
    BY <1>1, <1>d
  <2> HIDE DEF m
  <2>3. /\ Len(SubSeq(a, m, Len(a))) = IF m <= Len(a) THEN Len(a) - m + 1 ELSE 0
        /\ \A i \in 1 .. Len(a) - m + 1 : SubSeq(a, m, Len(a))[i] = a[m + i - 1]
    BY <2>1, <2>2, SubSeqProperties
  <2>4. c = SubSeq(a, m, Len(a))
    BY <2>1
  <2> HIDE DEF c
  <2>5. Len(c) = Len(a) - k
    BY <1>1, <2>1, <2>3, <2>4
  <2>6. ASSUME NEW i \in 1..Len(c) PROVE c[i] = w[(b + k) + i]
    <3>1. i \in 1 .. Len(a) - m + 1 /\ m + i - 1 = k + i /\ k + i \in 1..Len(a) /\ b + (k + i) = (b + k) + i
      BY <1>1, <2>1, <2>5
    <3>2. c[i] = a[k + i]
      BY <2>3, <2>4, <3>1
    <3> QED BY <1>2, <3>1, <3>2
  <2> QED BY <2>5, <2>6
<1> HIDE DEF c
<1>7. (b + k) + Len(c) = b + Len(a)
  BY <1>1, <1>6
<1>8. RestFrom(w, c, b + k, s + 1)
  BY <1>2, <1>3, <1>5, <1>6, <1>7 DEF RestFrom
<1>9. s < LastStage(w)
  BY <1>5 DEF LastStage
<1> QED BY <1>8, <1>9 DEF c, k

\* Without a bar this stage is the last.
LEMMA RestWhole ==
  ASSUME NEW w \in Seq(STRING), NEW a \in Seq(STRING), NEW b \in Nat, NEW s \in Nat \ {0},
         RestFrom(w, a, b, s), First("|", a) = 0
  PROVE  s = LastStage(w)
<1>1. /\ Bars(w) \subseteq 1..(b + Len(a)) /\ Len(a) \in Nat
      /\ \A i \in 1..Len(a) : a[i] = w[b + i] /\ a[i] # "|"
      /\ Cardinality({j \in Bars(w) : j =< b}) = s - 1
  BY FirstFound DEF RestFrom
<1>2. ASSUME NEW j \in Bars(w) PROVE j =< b
  <2>1. j \in 1..(b + Len(a)) /\ w[j] = "|"
    BY <1>1 DEF Bars
  <2>2. SUFFICES ASSUME ~(j =< b) PROVE FALSE
    OBVIOUS
  <2>3. j - b \in 1..Len(a) /\ b + (j - b) = j
    BY <1>1, <2>1, <2>2
  <2> QED BY <1>1, <2>1, <2>3
<1> DEFINE V == {j \in Bars(w) : j =< b}
<1>3. V = Bars(w)
  BY <1>2
<1>4. Cardinality(V) = s - 1
  BY <1>1
<1> HIDE DEF V
<1> QED BY <1>3, <1>4 DEF LastStage

\* What is left begins with the command of this stage.
LEMMA RestCommand ==
  ASSUME NEW w \in Seq(STRING), NEW a \in Seq(STRING), NEW b \in Nat, NEW s \in Nat \ {0},
         RestFrom(w, a, b, s), a # <<>>
  PROVE  CommandAt(w, s) = a[1]
<1> DEFINE To(i) == {j \in Bars(w) : j =< i}
           T == {0} \union {i \in Bars(w) : Cardinality(To(i)) < s}
<1>1. b \in {0} \union Bars(w) /\ Cardinality(To(b)) = s - 1 /\ \A i \in 1..Len(a) : a[i] = w[b + i]
  BY DEF RestFrom
<1>2. ASSUME NEW i \in Bars(w), i =< b PROVE Cardinality(To(i)) < s
  <2>1. i \in Nat /\ \A j \in Bars(w) : j \in Nat
    BY BarsCount
  <2>2. To(i) \in SUBSET To(b) /\ To(b) \in SUBSET Bars(w)
    <3>1. \A j \in Bars(w) : j =< i => j =< b
      BY <1>2, <2>1
    <3> QED BY <3>1
  <2> HIDE DEF To
  <2>3. Cardinality(To(i)) =< Cardinality(To(b)) /\ Cardinality(To(i)) \in Nat
    <3>1. To(i) \in SUBSET Bars(w)
      BY <2>2
    <3> QED BY <2>2, <3>1, BarsCount
  <2> QED BY <1>1, <2>3
<1>3. ASSUME NEW i \in Bars(w), Cardinality(To(i)) < s PROVE i =< b
  <2>1. i \in Nat /\ \A j \in Bars(w) : j \in Nat
    BY BarsCount
  <2>2. SUFFICES ASSUME ~(i =< b) PROVE FALSE
    OBVIOUS
  <2>3. /\ i \in Bars(w) \ To(b) /\ To(b) \in SUBSET Bars(w) /\ To(i) \in SUBSET Bars(w)
        /\ To(b) \union {i} \in SUBSET To(i)
    <3>1. i =< i /\ \A j \in Bars(w) : j =< b => j =< i
      BY <2>1, <2>2
    <3> QED BY <2>2, <3>1
  <2> HIDE DEF To
  <2>4. Cardinality(To(b) \union {i}) = Cardinality(To(b)) + 1
    BY <2>3, BarsCount
  <2>5. Cardinality(To(b) \union {i}) =< Cardinality(To(i)) /\ Cardinality(To(i)) \in Nat
    BY <2>3, BarsCount
  <2> QED BY <1>1, <1>3, <2>4, <2>5
<1>4. b \in T /\ \A i \in T : b >= i /\ i \in Nat
  <2>1. b \in T
    <3>1. b =< b
      OBVIOUS
    <3> QED BY <1>1, <1>2, <3>1
  <2>2. \A i \in Bars(w) : i \in Nat
    BY BarsCount
  <2>3. \A i \in T : i =< b /\ i \in Nat
    <3>1. 0 =< b /\ 0 \in Nat
      OBVIOUS
    <3> QED BY <1>3, <2>2, <3>1
  <2> HIDE DEF T
  <2> QED BY <2>1, <2>3
<1>5. Max(T) = b
  <2> HIDE DEF T
  <2>1. Max(T) \in T /\ \A i \in T : Max(T) >= i
    BY <1>4 DEF Max
  <2>2. b >= Max(T) /\ Max(T) >= b /\ Max(T) \in Nat
    BY <1>4, <2>1
  <2> QED BY <2>2
<1>6. CommandAt(w, s) = w[1 + b]
  BY <1>5 DEF CommandAt
<1>7. 1 \in 1..Len(a) /\ b + 1 = 1 + b
  <2>1. Len(a) \in Nat /\ Len(a) # 0
    BY FirstFound
  <2> QED BY <2>1
<1> QED BY <1>1, <1>6, <1>7
-----------------------------------------------------------------------------
(* Steps that leave what is said of the other processes *)

\* A step of another process, to a process of a pipeline; it may be orphaned.
Unmoved(q) ==
    Staged(q)' =>
      /\ Staged(q) /\ fd'[q] = fd[q]
      /\ proc'[q].pc = proc[q].pc /\ proc'[q].argv = proc[q].argv
      /\ proc'[q].line = proc[q].line
      /\ proc'[q].words = proc[q].words /\ proc'[q].stage = proc[q].stage

\* Then all that Wired says of it stays.
LEMMA UnmovedKeeps ==
  ASSUME NEW q \in Pids, Unmoved(q), Staged(q)'
  PROVE  /\ Staged(q) /\ proc'[q].pc = proc[q].pc /\ proc'[q].line = proc[q].line
         /\ proc'[q].stage = proc[q].stage
         /\ StageRight(proc[q], fd[q]) => StageRight(proc'[q], fd'[q])
         /\ Writes(q)' = Writes(q) /\ Reads(q)' = Reads(q)
<1>1. /\ Staged(q) /\ fd'[q] = fd[q]
      /\ proc'[q].pc = proc[q].pc /\ proc'[q].argv = proc[q].argv
      /\ proc'[q].line = proc[q].line
      /\ proc'[q].words = proc[q].words /\ proc'[q].stage = proc[q].stage
  BY DEF Unmoved
<1>2. StageRight(proc[q], fd[q]) => StageRight(proc'[q], fd'[q])
  BY <1>1 DEF StageRight
<1>3. Writes(q)' = Writes(q) /\ Reads(q)' = Reads(q)
  BY <1>1 DEF Writes, Reads, At
<1> QED BY <1>1, <1>2, <1>3

\* A step of the shell that leaves the processes of its pipelines alone.
LEMMA WiredMain ==
  ASSUME Wired, program = "HW5", program' = program, typed' \in {typed, typed + 1}, typed \in Nat,
         \A q \in Pids : proc[q].line \in Nat,
         \A q \in Pids \ {1} : Unmoved(q),
         Alive(1)' => fd'[1] = Terminal,
         At(1, "run_command")' => /\ proc'[1].argv \in Seq(STRING)
                                  /\ typed' = typed + 1 \/ At(1, "run_command")
  PROVE  Wired'
<1>1. ASSUME NEW q \in Pids, Staged(q)'
      PROVE  /\ Staged(q) /\ proc'[q].pc = proc[q].pc /\ proc'[q].line = proc[q].line
             /\ proc'[q].stage = proc[q].stage /\ Writes(q)' = Writes(q) /\ Reads(q)' = Reads(q)
             /\ StageRight(proc'[q], fd'[q])
             /\ proc'[q].line =< typed'
             /\ At(1, "run_command")' => proc'[q].line < typed'
  <2>1. q \in Pids \ {1}
    BY <1>1 DEF Staged
  <2>2. /\ Staged(q) /\ proc'[q].pc = proc[q].pc /\ proc'[q].line = proc[q].line
        /\ proc'[q].stage = proc[q].stage /\ Writes(q)' = Writes(q) /\ Reads(q)' = Reads(q)
        /\ StageRight(proc[q], fd[q]) => StageRight(proc'[q], fd'[q])
    BY <1>1, <2>1, UnmovedKeeps
  <2>3. /\ StageRight(proc[q], fd[q]) /\ proc[q].line =< typed
        /\ At(1, "run_command") => proc[q].line < typed
    BY <2>2 DEF Wired
  <2>4. /\ proc'[q].line =< typed'
        /\ At(1, "run_command")' => proc'[q].line < typed'
    BY <2>2, <2>3
  <2> QED BY <2>2, <2>3, <2>4
<1>2. ASSUME NEW p \in Pids, NEW q \in Pids, SameLine(p, q)'
      PROVE  /\ proc'[p].stage = proc'[q].stage => p = q
             /\ proc'[p].pc \in Tips => proc'[q].stage =< proc'[p].stage
             /\ proc'[q].stage = proc'[p].stage + 1 =>
                  proc'[p].pc \in {"left", "run"} /\ Writes(p)' = Reads(q)'
  <2>1. Staged(p)' /\ Staged(q)'
    BY <1>2 DEF SameLine
  <2>2. SameLine(p, q)
    BY <1>1, <1>2, <2>1 DEF SameLine
  <2>3. /\ proc[p].stage = proc[q].stage => p = q
        /\ proc[p].pc \in Tips => proc[q].stage =< proc[p].stage
        /\ proc[q].stage = proc[p].stage + 1 =>
             proc[p].pc \in {"left", "run"} /\ Writes(p) = Reads(q)
    BY <2>2 DEF Wired
  <2> QED BY <1>1, <2>1, <2>3
<1> QED BY <1>1, <1>2 DEF Wired

\* A step of one process of a pipeline, of which the neighbours see the same ends.
LEMMA WiredOne ==
  ASSUME Wired, program = "HW5", program' = program, typed' = typed,
         NEW p \in Pids \ {1}, Staged(p), 1 \in Pids,
         \A q \in Pids \ {p} : Unmoved(q), proc'[1] = proc[1], fd'[1] = fd[1],
         Staged(p)' =>
           /\ StageRight(proc'[p], fd'[p]) /\ proc'[p].line = proc[p].line
           /\ proc'[p].stage = proc[p].stage
           /\ proc'[p].pc \in Tips => proc[p].pc \in Tips
           /\ proc[p].stage > 1 => Reads(p)' = Reads(p)
           /\ proc[p].pc \notin Tips => Writes(p)' = Writes(p) /\ proc'[p].pc \in {"left", "run"}
  PROVE  Wired'
<1>0. StageRight(proc[p], fd[p])
  BY DEF Wired
<1>1. ASSUME NEW q \in Pids, Staged(q)'
      PROVE  /\ Staged(q) /\ proc'[q].line = proc[q].line /\ proc'[q].stage = proc[q].stage
             /\ proc'[q].pc \in Tips => proc[q].pc \in Tips
             /\ StageRight(proc'[q], fd'[q]) /\ proc[q].stage \in Nat \ {0}
             /\ proc[q].stage > 1 => Reads(q)' = Reads(q)
             /\ proc[q].pc \notin Tips =>
                  Writes(q)' = Writes(q) /\ proc'[q].pc \in {"left", "run"}
             /\ proc'[q].line =< typed'
             /\ At(1, "run_command")' => proc'[q].line < typed'
  <2>1. CASE q = p
    BY <1>0, <1>1, <2>1 DEF Wired, At, StageRight
  <2>2. CASE q # p
    <3>1. /\ Staged(q) /\ proc'[q].pc = proc[q].pc /\ proc'[q].line = proc[q].line
          /\ proc'[q].stage = proc[q].stage /\ Writes(q)' = Writes(q) /\ Reads(q)' = Reads(q)
          /\ StageRight(proc[q], fd[q]) => StageRight(proc'[q], fd'[q])
      BY <1>1, <2>2, UnmovedKeeps
    <3>2. /\ StageRight(proc[q], fd[q]) /\ proc[q].line =< typed
          /\ At(1, "run_command") => proc[q].line < typed
      BY <3>1 DEF Wired
    <3>3. proc[q].stage \in Nat \ {0}
      BY <3>2 DEF StageRight
    <3>4. proc[q].pc \notin Tips => proc'[q].pc \in {"left", "run"}
      BY <3>1 DEF Staged, Stages, Tips
    <3> QED BY <3>1, <3>2, <3>3, <3>4 DEF At
  <2> QED BY <2>1, <2>2
<1>2. ASSUME NEW a \in Pids, NEW b \in Pids, SameLine(a, b)'
      PROVE  /\ proc'[a].stage = proc'[b].stage => a = b
             /\ proc'[a].pc \in Tips => proc'[b].stage =< proc'[a].stage
             /\ proc'[b].stage = proc'[a].stage + 1 =>
                  proc'[a].pc \in {"left", "run"} /\ Writes(a)' = Reads(b)'
  <2>1. Staged(a)' /\ Staged(b)'
    BY <1>2 DEF SameLine
  <2>2. SameLine(a, b)
    BY <1>1, <1>2, <2>1 DEF SameLine
  <2>3. /\ proc[a].stage = proc[b].stage => a = b
        /\ proc[a].pc \in Tips => proc[b].stage =< proc[a].stage
        /\ proc[b].stage = proc[a].stage + 1 =>
             proc[a].pc \in {"left", "run"} /\ Writes(a) = Reads(b)
    BY <2>2 DEF Wired
  <2>4. ASSUME proc'[b].stage = proc'[a].stage + 1
        PROVE  proc'[a].pc \in {"left", "run"} /\ Writes(a)' = Reads(b)'
    <3>1. proc[a].pc \in {"left", "run"} /\ Writes(a) = Reads(b) /\ proc[b].stage > 1
      BY <1>1, <2>1, <2>3, <2>4
    <3>2. proc[a].pc \notin Tips
      BY <3>1 DEF Tips
    <3> QED BY <1>1, <2>1, <3>1, <3>2
  <2> QED BY <1>1, <2>1, <2>3, <2>4
<1>3. Alive(1)' => fd'[1] = Terminal
  BY DEF Wired, Alive
<1>4. At(1, "run_command")' => proc'[1].argv \in Seq(STRING)
  BY DEF Wired, At
<1> QED BY <1>1, <1>2, <1>3, <1>4 DEF Wired

\* The end of a process is no step of any other.
LEMMA ExitsUnmoved ==
  ASSUME Kernel, NEW p \in Pids, Exits(p)
  PROVE  /\ ~Staged(p)' /\ fd'[p] = NoFds
         /\ \A q \in Pids \ {p} : Unmoved(q)
<1>1. /\ fd'[p] = NoFds /\ \A q \in Pids \ {p} : fd'[q] = fd[q]
      /\ proc'[p].pc = IF proc[p].parent = 0 THEN "none" ELSE "zombie"
      /\ \A q \in Pids \ {p} :
           proc'[q] = IF proc[q].parent # p THEN proc[q]
                      ELSE IF At(q, "zombie") THEN NoProc
                      ELSE [proc[q] EXCEPT !.parent = 0]
  BY ExitsKeeps
<1>2. ~Staged(p)'
  BY <1>1 DEF Staged, Stages
<1>3. ASSUME NEW q \in Pids \ {p} PROVE Unmoved(q)
  <2>1. GoodProc(proc[q])
    BY DEF Kernel, Procs
  <2>2. CASE proc'[q] = proc[q]
    BY <1>1, <2>2 DEF Unmoved, Staged
  <2>3. CASE proc'[q] = NoProc
    <3>1. NoProc.pc = "none"
      BY DEF NoProc
    <3>2. proc'[q].pc \notin Stages
      BY <2>3, <3>1 DEF Stages
    <3> QED BY <3>2 DEF Unmoved, Staged
  <2>4. CASE proc'[q] = [proc[q] EXCEPT !.parent = 0]
    <3>1. /\ proc'[q].pc = proc[q].pc /\ proc'[q].argv = proc[q].argv
          /\ proc'[q].line = proc[q].line
          /\ proc'[q].words = proc[q].words /\ proc'[q].stage = proc[q].stage
      BY <2>1, <2>4 DEF GoodProc, NoProc
    <3> QED BY <1>1, <3>1 DEF Unmoved, Staged
  <2> QED BY <1>1, <2>2, <2>3, <2>4
<1> QED BY <1>1, <1>2, <1>3

\* Nor is a step that leaves it as it is.
LEMMA SameUnmoved ==
  ASSUME NEW q \in Pids, proc'[q] = proc[q], fd'[q] = fd[q]
  PROVE  Unmoved(q)
BY DEF Unmoved, Staged

\* A process of a pipeline ends.
LEMMA WiredExits ==
  ASSUME Family, Wired, program = "HW5", program' = program, typed' = typed,
         NEW p \in Pids \ {1}, Exits(p)
  PROVE  Wired'
<1>1. ~Staged(p)' /\ \A q \in Pids \ {p} : Unmoved(q)
  BY ExitsUnmoved DEF Family
<1>2. proc'[1] = proc[1] /\ fd'[1] = fd[1] /\ 1 \in Pids /\ 1 # p
  <2>1. proc[1].parent = 0 /\ 1 \in Pids /\ p # 0
    BY Numbers DEF Family, Main
  <2> QED BY <2>1, ExitsKeeps DEF Family
<1>3. Unmoved(p)
  BY <1>1 DEF Unmoved
<1>4. Alive(1)' => fd'[1] = Terminal
  BY <1>2 DEF Wired, Alive
<1>5. At(1, "run_command")' => proc'[1].argv \in Seq(STRING) /\ At(1, "run_command")
  BY <1>2 DEF Wired, At
<1> QED BY <1>1, <1>3, <1>4, <1>5, HistoryTypes, WiredMain
-----------------------------------------------------------------------------
(* The actions of the processes of a pipeline *)

\* A process of a pipeline goes on, as r with descriptors f.
LEMMA WiredGoes ==
  ASSUME Family, Wired, program = "HW5", UNCHANGED jobVars,
         NEW p \in Pids \ {1}, Staged(p), NEW r, NEW f,
         proc'[p] = r, fd'[p] = f,
         \A q \in Pids \ {p} : proc'[q] = proc[q] /\ fd'[q] = fd[q],
         StageRight(r, f), r.line = proc[p].line, r.stage = proc[p].stage,
         r.pc \in Tips => proc[p].pc \in Tips,
         proc[p].stage > 1 => Reads(p) = IF r.pc = "right" THEN f[3][2] ELSE f[0][2],
         proc[p].pc \notin Tips => /\ r.pc \in {"left", "run"}
                                   /\ Writes(p) = IF r.pc = "left" THEN f[4][2] ELSE f[1][2]
  PROVE  Wired'
<1>1. 1 \in Pids /\ proc'[1] = proc[1] /\ fd'[1] = fd[1]
  BY Numbers
<1>2. \A q \in Pids \ {p} : Unmoved(q)
  BY SameUnmoved
<1>3. /\ StageRight(proc'[p], fd'[p]) /\ proc'[p].line = proc[p].line
      /\ proc'[p].stage = proc[p].stage
      /\ proc'[p].pc \in Tips => proc[p].pc \in Tips
  OBVIOUS
<1>4. proc[p].stage > 1 => Reads(p)' = Reads(p)
  BY DEF Reads, At
<1>5. proc[p].pc \notin Tips => Writes(p)' = Writes(p) /\ proc'[p].pc \in {"left", "run"}
  BY DEF Writes, At
<1>6. program' = program /\ typed' = typed
  BY DEF jobVars
<1> QED BY <1>1, <1>2, <1>3, <1>4, <1>5, <1>6, WiredOne

\* The same, for Becomes.
LEMMA WiredBecomes ==
  ASSUME Family, Wired, program = "HW5", UNCHANGED jobVars,
         NEW p \in Pids \ {1}, Staged(p), NEW r, NEW f \in [Fds -> Ends], Becomes(p, r, f),
         GoodProc(r), r.pc \in Stages,
         StageRight(r, f), r.line = proc[p].line, r.stage = proc[p].stage,
         r.pc \in Tips => proc[p].pc \in Tips,
         proc[p].stage > 1 => Reads(p) = IF r.pc = "right" THEN f[3][2] ELSE f[0][2],
         proc[p].pc \notin Tips => /\ r.pc \in {"left", "run"}
                                   /\ Writes(p) = IF r.pc = "left" THEN f[4][2] ELSE f[1][2]
  PROVE  Wired'
<1>1. /\ proc'[p] = r /\ \A q \in Pids \ {p} : proc'[q] = proc[q]
      /\ fd'[p] = f /\ \A q \in Pids \ {p} : fd'[q] = fd[q]
  BY BecomesKeeps DEF Family, Stages
<1> QED BY <1>1, WiredGoes

\* The first process of a line redirects itself.
LEMMA WiredRedirects ==
  ASSUME Family, Wired, NEW p \in Pids \ {1}, Redirect(p)
  PROVE  Wired'
<1>1. program = "HW5" /\ UNCHANGED jobVars /\ program' = program /\ typed' = typed
      /\ proc[p].pc = "redirect"
  BY DEF Redirect, jobVars, At
<1>2. Staged(p)
  BY <1>1 DEF Staged, Stages
<1>3. /\ StageRight(proc[p], fd[p]) /\ GoodProc(proc[p])
      /\ fd[p] \in [Fds -> Ends]
  BY <1>1, <1>2, ProcTypes DEF Wired
<1>4. proc[p].stage = 1 /\ proc[p].argv = proc[p].words /\ fd[p] = Terminal
      /\ proc[p].argv \in Seq(STRING) /\ proc[p].words \in Seq(STRING)
  BY <1>1, <1>3 DEF StageRight
<1> DEFINE w == proc[p].words
           v == Before("<", w)
           a == Before(">", v)
           f == RedirectOut(v, RedirectIn(w, fd[p]))
           r == [proc[p] EXCEPT !.pc = "pipe_and_exec", !.argv = a]
<1>5. CASE Exits(p)
  BY <1>1, <1>2, <1>5, WiredExits
<1>6. CASE Becomes(p, r, f)
  <2>1. v \in Seq(STRING) /\ a \in Seq(STRING)
    BY <1>4, BeforeCuts
  <2>2. InFile \in Ends /\ OutFile \in Ends /\ {0, 1} \subseteq Fds
    BY DEF Ends, Fds
  <2>3. RedirectIn(w, fd[p]) \in [Fds -> Ends]
    BY <1>3, <2>2 DEF RedirectIn
  <2>4. f \in [Fds -> Ends]
    BY <2>2, <2>3 DEF RedirectOut
  <2>5. /\ f[0] = IF FileName("<", w) = "file" THEN InFile ELSE Tty
        /\ f[1] = IF First(">", v) # 0 THEN OutFile ELSE Tty
        /\ \A e \in Fds \ {0, 1} : f[e] = Closed
    <3>1. /\ fd[p][0] = Tty /\ fd[p][1] = Tty /\ \A e \in Fds \ {0, 1} : fd[p][e] = Closed
      BY <1>4 DEF Terminal, Fds
    <3>2. /\ RedirectIn(w, fd[p])[0] = IF FileName("<", w) = "file" THEN InFile ELSE Tty
          /\ RedirectIn(w, fd[p])[1] = Tty
          /\ \A e \in Fds \ {0, 1} : RedirectIn(w, fd[p])[e] = Closed
      BY <1>3, <2>2, <3>1 DEF RedirectIn
    <3> QED BY <2>2, <2>3, <3>2 DEF RedirectOut
  <2>6. AsWritten(w) => /\ RestFrom(w, a, 0, 1)
                        /\ f[0] = InOf(w) /\ f[1] = OutOf(w)
    BY <1>4, <2>5, RedirectCuts DEF InOf, OutOf
  <2>7. AsWritten(w) => Rest(w, a, 1)
    <3>1. 0 \in 0..Len(w)
      BY <1>4
    <3> QED BY <2>6, <3>1 DEF Rest
  <2> HIDE DEF v, a, f
  <2>8. /\ GoodProc(r) /\ r.pc = "pipe_and_exec" /\ r.line = proc[p].line /\ r.stage = 1
        /\ r.argv = a /\ r.words = w
    BY <1>3, <1>4 DEF GoodProc, NoProc
  <2> HIDE DEF r, w
  <2>9. w \in Seq(STRING)
    BY <1>4 DEF w
  <2>10. StageRight(r, f)
    BY <2>1, <2>5, <2>6, <2>7, <2>8, <2>9 DEF StageRight
  <2> QED BY <1>1, <1>2, <1>4, <1>6, <2>4, <2>8, <2>10, WiredBecomes DEF Stages, Tips
<1> QED BY <1>4, <1>5, <1>6 DEF Redirect

\* A process becomes its command, or ends.
LEMMA WiredExecs ==
  ASSUME Family, Wired, program = "HW5", UNCHANGED jobVars, NEW p \in Pids \ {1}, Staged(p),
         NEW words \in Seq(STRING), NEW f \in [Fds -> Ends], Execs(p, words, f),
         \A e \in Fds \ {0, 1} : f[e] = Closed,
         f[0] = fd[p][0], proc[p].stage > 1 => f[0][1] = "r",
         proc[p].pc \in {"pipe_and_exec", "left"},
         proc[p].pc = "left" => f[1] = fd[p][4],
         AsWritten(proc[p].words) =>
           /\ words # <<>> => words[1] = CommandAt(proc[p].words, proc[p].stage)
           /\ proc[p].stage = 1 => f[0] = InOf(proc[p].words)
           /\ proc[p].stage = LastStage(proc[p].words) => f[1] = OutOf(proc[p].words)
           /\ proc[p].stage < LastStage(proc[p].words) => f[1][1] = "w"
  PROVE  Wired'
<1>1. StageRight(proc[p], fd[p]) /\ GoodProc(proc[p])
  BY ProcTypes DEF Wired
<1>2. proc[p].words \in Seq(STRING) /\ proc[p].stage \in Nat \ {0}
  BY <1>1 DEF StageRight
<1>3. program' = program /\ typed' = typed
  BY DEF jobVars
<1>4. CASE Exits(p)
  BY <1>3, <1>4, WiredExits
<1>5. CASE ~Exits(p)
  <2> DEFINE h == Output(words[1])
             r == [proc[p] EXCEPT !.pc = "run", !.argv = words, !.does = words[1], !.held = h]
  <2>1. words # <<>> /\ words[1] \in Commands /\ Becomes(p, r, f)
    BY <1>5 DEF Execs
  <2>2. IsSeq(h)
    BY <2>1, CommandOutput
  <2> HIDE DEF h
  <2>3. /\ GoodProc(r) /\ r.pc = "run" /\ r.line = proc[p].line /\ r.stage = proc[p].stage
        /\ r.argv = words /\ r.words = proc[p].words
    BY <1>1, <2>2 DEF GoodProc, NoProc
  <2> HIDE DEF r
  <2>4. StageRight(r, f)
    BY <1>2, <2>1, <2>3 DEF StageRight
  <2>5. Reads(p) = f[0][2] /\ (proc[p].pc = "left" => Writes(p) = f[1][2])
    BY DEF Reads, Writes, At
  <2> QED BY <2>1, <2>3, <2>4, <2>5, WiredBecomes DEF Stages, Tips
<1> QED BY <1>4, <1>5

\* What is in front of the bar that pipe_present finds, and what follows it.
LEMMA BarFound ==
  ASSUME NEW a \in Seq(STRING), pipe_present(a) > 0
  PROVE  /\ pipe_present(a) = First("|", a) /\ First("|", a) \in 2..(Len(a) - 1)
         /\ Len(a) \in Nat /\ a # <<>>
         /\ SubSeq(a, 1, First("|", a) - 1) \in Seq(STRING)
         /\ SubSeq(a, 1, First("|", a) - 1)[1] = a[1]
         /\ SubSeq(a, First("|", a) + 1, Len(a)) \in Seq(STRING)
<1> DEFINE k == First("|", a)
<1>1. k \in 0..Len(a) /\ Len(a) \in Nat
  BY FirstFound
<1>2. pipe_present(a) = k /\ k # 0 /\ k # 1 /\ k # Len(a)
  BY <1>1 DEF pipe_present
<1>3. k \in 2..(Len(a) - 1)
  BY <1>1, <1>2
<1> HIDE DEF k
<1> DEFINE m == k - 1
<1>4. m \in Int /\ 1 \in Int /\ m \in 1..Len(a) /\ m - 1 + 1 = m
  BY <1>1, <1>3
<1>5. \A i \in 1..m : a[i] \in STRING
  BY <1>1, <1>4
<1>6. m = k - 1
  OBVIOUS
<1> HIDE DEF m
<1>7. /\ SubSeq(a, 1, m) \in Seq(STRING)
      /\ \A i \in 1..m - 1 + 1 : SubSeq(a, 1, m)[i] = a[1 + i - 1]
  BY <1>4, <1>5, SubSeqProperties
<1>8. SubSeq(a, 1, m)[1] = a[1]
  BY <1>4, <1>7
<1> DEFINE n == k + 1  l == Len(a)
<1>9. n \in Int /\ l \in Int /\ n \in 1..l /\ \A i \in n..l : a[i] \in STRING
  BY <1>1, <1>3
<1>10. n = k + 1 /\ l = Len(a)
  OBVIOUS
<1> HIDE DEF n, l
<1>11. SubSeq(a, n, l) \in Seq(STRING)
  BY <1>9, SubSeqProperties
<1>12. a # <<>>
  BY <1>1, <1>3
<1> QED BY <1>1, <1>2, <1>3, <1>6, <1>7, <1>8, <1>10, <1>11, <1>12 DEF k

\* The last stage becomes its command.
LEMMA WiredExecsWhole ==
  ASSUME Family, Wired, NEW p \in Pids \ {1}, ExecWhole(p)
  PROVE  Wired'
<1>1. program = "HW5" /\ UNCHANGED jobVars /\ program' = program /\ typed' = typed
      /\ proc[p].pc = "pipe_and_exec"
  BY DEF ExecWhole, jobVars, At
<1>2. Staged(p)
  BY <1>1 DEF Staged, Stages
<1>3. StageRight(proc[p], fd[p]) /\ fd[p] \in [Fds -> Ends]
  BY <1>2, <1>1, ProcTypes DEF Wired
<1> DEFINE a == proc[p].argv  w == proc[p].words  s == proc[p].stage
<1>4. a \in Seq(STRING) /\ w \in Seq(STRING) /\ s \in Nat \ {0}
  BY <1>3 DEF StageRight
<1>5. CASE Exits(p)
  BY <1>1, <1>2, <1>5, WiredExits
<1>6. CASE ~Exits(p)
  <2>1. pipe_present(a) = 0 /\ Execs(p, a, fd[p])
    BY <1>6 DEF ExecWhole
  <2>2. First("|", a) = 0
    BY <2>1 DEF pipe_present
  <2>3. ASSUME AsWritten(w)
        PROVE  /\ a # <<>> => a[1] = CommandAt(w, s)
               /\ s = 1 => fd[p][0] = InOf(w)
               /\ s = LastStage(w) /\ fd[p][1] = OutOf(w)
    <3>1. Rest(w, a, s) /\ fd[p][1] = OutOf(w) /\ (s = 1 => fd[p][0] = InOf(w))
      BY <1>1, <1>3, <2>3 DEF StageRight
    <3>2. PICK b \in 0..Len(w) : RestFrom(w, a, b, s)
      BY <3>1 DEF Rest
    <3>3. b \in Nat
      BY <1>4
    <3> HIDE DEF a, w, s
    <3>4. s = LastStage(w)
      BY <1>4, <2>2, <3>2, <3>3, RestWhole
    <3>5. a # <<>> => a[1] = CommandAt(w, s)
      BY <1>4, <3>2, <3>3, RestCommand
    <3> QED BY <3>1, <3>4, <3>5
  <2>4. /\ \A e \in Fds \ {0, 1} : fd[p][e] = Closed
        /\ s > 1 => fd[p][0][1] = "r"
    BY <1>1, <1>3 DEF StageRight
  <2>5. AsWritten(w) => ~(s < LastStage(w))
    BY <1>4, <2>3
  <2> QED BY <1>1, <1>2, <1>3, <1>4, <2>1, <2>3, <2>4, <2>5, WiredExecs
<1> QED BY <1>5, <1>6

\* Another stage becomes its command, and writes the pipe to the next.
LEMMA WiredExecsLeft ==
  ASSUME Family, Wired, NEW p \in Pids \ {1}, LeftExec(p)
  PROVE  Wired'
<1>1. program = "HW5" /\ UNCHANGED jobVars /\ program' = program /\ typed' = typed
      /\ proc[p].pc = "left"
  BY DEF LeftExec, jobVars, At
<1>2. Staged(p)
  BY <1>1 DEF Staged, Stages
<1>3. StageRight(proc[p], fd[p]) /\ fd[p] \in [Fds -> Ends]
  BY <1>2, <1>1, ProcTypes DEF Wired
<1> DEFINE a == proc[p].argv  w == proc[p].words  s == proc[p].stage
           c == SubSeq(a, 1, First("|", a) - 1)
           f == Close(Dup2(fd[p], 4, 1), {3, 4})
<1>4. /\ a \in Seq(STRING) /\ w \in Seq(STRING) /\ s \in Nat \ {0} /\ pipe_present(a) > 0
      /\ fd[p][5] = Closed /\ fd[p][6] = Closed /\ fd[p][4][1] = "w"
      /\ s > 1 => fd[p][0][1] = "r"
  BY <1>1, <1>3 DEF StageRight
<1>5. f \in [Fds -> Ends]
  BY <1>3, FdOperators
<1>6. /\ f[0] = fd[p][0] /\ f[1] = fd[p][4] /\ \A e \in Fds \ {0, 1} : f[e] = Closed
  BY <1>3, <1>4 DEF Close, Dup2, Fds
<1>7. c \in Seq(STRING) /\ c[1] = a[1] /\ pipe_present(a) = First("|", a) /\ a # <<>>
      /\ First("|", a) # 0
  BY <1>4, BarFound
<1>8. Execs(p, c, f)
  BY <1>7 DEF LeftExec
<1> HIDE DEF f, c
<1>9. ASSUME AsWritten(w)
      PROVE  /\ c[1] = CommandAt(w, s)
             /\ s = 1 => f[0] = InOf(w)
             /\ s < LastStage(w)
  <2>1. Rest(w, a, s) /\ (s = 1 => fd[p][0] = InOf(w))
    BY <1>1, <1>3, <1>9 DEF StageRight
  <2>2. PICK b \in 0..Len(w) : RestFrom(w, a, b, s)
    BY <2>1 DEF Rest
  <2>3. b \in Nat
    BY <1>4
  <2> HIDE DEF a, w, s
  <2>4. s < LastStage(w)
    BY <1>4, <1>7, <2>2, <2>3, RestSplit
  <2>5. a[1] = CommandAt(w, s)
    BY <1>4, <1>7, <2>2, <2>3, RestCommand
  <2> QED BY <1>6, <1>7, <2>1, <2>4, <2>5
<1>10. AsWritten(w) => s # LastStage(w)
  BY <1>4, <1>9
<1> QED BY <1>1, <1>2, <1>4, <1>5, <1>6, <1>7, <1>8, <1>9, <1>10, WiredExecs

\* The child reads the pipe, and has the rest of the line in front of it.
LEMMA WiredRightRedirects ==
  ASSUME Family, Wired, NEW p \in Pids \ {1}, RightRedirect(p)
  PROVE  Wired'
<1>1. program = "HW5" /\ UNCHANGED jobVars /\ proc[p].pc = "right"
  BY DEF RightRedirect, jobVars, At
<1>2. Staged(p)
  BY <1>1 DEF Staged, Stages
<1>3. StageRight(proc[p], fd[p]) /\ fd[p] \in [Fds -> Ends] /\ GoodProc(proc[p])
  BY <1>2, <1>1, ProcTypes DEF Wired
<1> DEFINE a == proc[p].argv  w == proc[p].words  s == proc[p].stage
           c == SubSeq(a, First("|", a) + 1, Len(a))
           f == Close(Dup2(fd[p], 3, 0), {3, 4})
           r == [proc[p] EXCEPT !.pc = "pipe_and_exec", !.argv = c]
<1>4. /\ a \in Seq(STRING) /\ w \in Seq(STRING) /\ s \in Nat \ {0} /\ pipe_present(a) > 0
      /\ fd[p][5] = Closed /\ fd[p][6] = Closed /\ fd[p][3][1] = "r" /\ s > 1
  BY <1>1, <1>3 DEF StageRight
<1>5. f \in [Fds -> Ends]
  BY <1>3, FdOperators
<1>6. /\ f[0] = fd[p][3] /\ f[1] = fd[p][1] /\ \A e \in Fds \ {0, 1} : f[e] = Closed
  BY <1>3, <1>4 DEF Close, Dup2, Fds
<1>7. c \in Seq(STRING) /\ pipe_present(a) = First("|", a) /\ First("|", a) # 0
      /\ First("|", a) \in Nat
  BY <1>4, BarFound
<1>8. Becomes(p, r, f)
  BY <1>7, <1>3 DEF RightRedirect, GoodProc, NoProc
<1> HIDE DEF f
<1>9. ASSUME AsWritten(w)
      PROVE  Rest(w, c, s) /\ f[1] = OutOf(w)
  <2>1. Rest(w, a, s - 1) /\ fd[p][1] = OutOf(w)
    BY <1>1, <1>3, <1>9 DEF StageRight
  <2>2. PICK b \in 0..Len(w) : RestFrom(w, a, b, s - 1)
    BY <2>1 DEF Rest
  <2>3. b \in Nat /\ s - 1 \in Nat \ {0} /\ (s - 1) + 1 = s
    BY <1>4
  <2> DEFINE t == s - 1  k == First("|", a)
  <2>4. t \in Nat \ {0} /\ t + 1 = s /\ RestFrom(w, a, b, t)
    BY <2>2, <2>3
  <2> HIDE DEF t, w, a, s
  <2>5. RestFrom(w, SubSeq(a, k + 1, Len(a)), b + k, t + 1)
    BY <1>4, <1>7, <2>3, <2>4, RestSplit
  <2>6. b + k \in 0..Len(w)
    <3>1. b + k \in {0} \union Bars(w)
      BY <2>5 DEF RestFrom
    <3>2. Bars(w) \subseteq 1..Len(w) /\ Len(w) \in Nat
      BY <1>4, BarsCount
    <3> QED BY <3>1, <3>2
  <2> QED BY <1>6, <2>1, <2>4, <2>5, <2>6 DEF Rest
<1> HIDE DEF c
<1>10. /\ GoodProc(r) /\ r.pc = "pipe_and_exec" /\ r.line = proc[p].line /\ r.stage = s
       /\ r.argv = c /\ r.words = w
  BY <1>3 DEF GoodProc, NoProc
<1> HIDE DEF r
<1>11. StageRight(r, f)
  BY <1>4, <1>6, <1>7, <1>9, <1>10 DEF StageRight
<1>12. Reads(p) = f[0][2]
  BY <1>1, <1>6 DEF Reads, At
<1> QED BY <1>1, <1>2, <1>5, <1>8, <1>10, <1>11, <1>12, WiredBecomes DEF Stages, Tips

\* A command reads or writes, or ends.
LEMMA WiredRuns ==
  ASSUME Family, Wired, program = "HW5", NEW p \in Pids, CommandStep(p)
  PROVE  Wired'
<1>1. UNCHANGED jobVars /\ program' = program /\ typed' = typed /\ proc[p].pc = "run"
  BY DEF CommandStep, RunWrite, RunRead, jobVars, At
<1>2. p # 1
  BY RunOthers DEF CommandStep, Family
<1>3. Staged(p)
  BY <1>1, <1>2 DEF Staged, Stages
<1>4. StageRight(proc[p], fd[p]) /\ GoodProc(proc[p])
  BY <1>1, <1>3, ProcTypes DEF Wired
<1>5. ASSUME NEW r, GoodProc(r), r.pc = "run", r.line = proc[p].line, r.stage = proc[p].stage,
             r.argv = proc[p].argv, r.words = proc[p].words,
             proc' = [proc EXCEPT ![p] = r], fd' = fd
      PROVE  Wired'
  <2>1. proc'[p] = r /\ fd'[p] = fd[p]
        /\ \A q \in Pids \ {p} : proc'[q] = proc[q] /\ fd'[q] = fd[q]
    BY <1>5 DEF Family, Kernel, Procs
  <2>2. StageRight(r, fd[p])
    BY <1>1, <1>4, <1>5 DEF StageRight
  <2>3. Reads(p) = fd[p][0][2] /\ Writes(p) = fd[p][1][2]
    BY <1>1 DEF Reads, Writes, At
  <2> HIDE DEF Reads, Writes
  <2> QED BY <1>1, <1>2, <1>3, <1>5, <2>1, <2>2, <2>3, WiredGoes DEF Tips
<1>6. CASE Exits(p)
  BY <1>1, <1>2, <1>3, <1>6, WiredExits
<1>7. CASE ~Exits(p)
  <2>1. \E h, d : /\ IsSeq(h)
                  /\ proc' = [proc EXCEPT ![p] = [proc[p] EXCEPT !.held = h, !.does = d]]
                  /\ fd' = fd
    <3>1. CASE RunWrite(p)
      <4> DEFINE h == IF proc[p].does = "yes" THEN proc[p].held ELSE Tail(proc[p].held)
                 d == proc[p].does
      <4>1. IsSeq(h)
        BY <1>4, <3>1, SeqTail DEF RunWrite, GoodProc
      <4>2. proc' = [proc EXCEPT ![p] = [proc[p] EXCEPT !.held = h]] /\ fd' = fd
        BY <1>7, <3>1 DEF RunWrite, Puts
      <4> HIDE DEF h
      <4>3. [proc[p] EXCEPT !.held = h] = [proc[p] EXCEPT !.held = h, !.does = d]
        BY <1>4 DEF GoodProc, NoProc
      <4> QED BY <4>1, <4>2, <4>3
    <3>2. CASE RunRead(p)
      <4> DEFINE h == <<Head(pipe[fd[p][0][2]])>>
                 d == IF proc[p].does = "head" THEN "ls" ELSE proc[p].does
      <4>1. IsSeq(h)
        BY SeqSmall
      <4>2. fd' = fd /\ proc' = [proc EXCEPT ![p] = [proc[p] EXCEPT !.held = h, !.does = IF @ = "head" THEN "ls" ELSE @]]
        BY <1>7, <3>2 DEF RunRead, Takes
      <4> HIDE DEF h
      <4>3. [proc[p] EXCEPT !.held = h, !.does = IF @ = "head" THEN "ls" ELSE @]
              = [proc[p] EXCEPT !.held = h, !.does = d]
        BY <1>4 DEF GoodProc, NoProc
      <4> QED BY <4>1, <4>2, <4>3
    <3> QED BY <3>1, <3>2 DEF CommandStep
  <2>2. PICK h, d : /\ IsSeq(h)
                    /\ proc' = [proc EXCEPT ![p] = [proc[p] EXCEPT !.held = h, !.does = d]]
                    /\ fd' = fd
    BY <2>1
  <2> DEFINE r == [proc[p] EXCEPT !.held = h, !.does = d]
  <2>3. /\ GoodProc(r) /\ r.pc = "run" /\ r.line = proc[p].line /\ r.stage = proc[p].stage
        /\ r.argv = proc[p].argv /\ r.words = proc[p].words
    BY <1>1, <1>4, <2>2 DEF GoodProc, NoProc
  <2>4. proc' = [proc EXCEPT ![p] = r] /\ fd' = fd
    BY <2>2
  <2> HIDE DEF r
  <2> QED BY <1>5, <2>3, <2>4
<1> QED BY <1>6, <1>7

\* A stage makes the next one, and the pipe between them.
LEMMA WiredSplits ==
  ASSUME Family, Wired, NEW p \in Pids \ {1}, SplitPipe(p)
  PROVE  Wired'
<1>1. program = "HW5" /\ UNCHANGED jobVars /\ program' = program /\ typed' = typed
      /\ proc[p].pc = "pipe_and_exec" /\ pipe_present(proc[p].argv) > 0 /\ Alive(p)
  BY DEF SplitPipe, jobVars, At, Alive
<1>2. Staged(p)
  BY <1>1 DEF Staged, Stages
<1>3. StageRight(proc[p], fd[p]) /\ fd[p] \in [Fds -> Ends] /\ GoodProc(proc[p])
  BY <1>2, <1>1, ProcTypes DEF Wired
<1>4. CASE Exits(p)
  BY <1>1, <1>2, <1>4, WiredExits
<1>5. CASE /\ FreePipes # {}
           /\ Forks(p, [proc[p] EXCEPT !.pc = "left"],
                    [proc[p] EXCEPT !.pc = "right", !.stage = @ + 1],
                    WithPipe(fd[p], 3, 4, Min(FreePipes)))
  <2> DEFINE st == proc[p].stage
             r == [proc[p] EXCEPT !.pc = "left"]
             s == [proc[p] EXCEPT !.pc = "right", !.stage = @ + 1]
             k == Min(FreePipes)
             f == WithPipe(fd[p], 3, 4, k)
  <2>1. k \in Pipes
    BY <1>5, NextPipe
  <2>2. f \in [Fds -> Ends]
    BY <1>3, <2>1, FdOperators
  <2> HIDE DEF k
  <2>3. /\ f[0] = fd[p][0] /\ f[1] = fd[p][1] /\ f[3] = <<"r", k>> /\ f[4] = <<"w", k>>
        /\ f[5] = fd[p][5] /\ f[6] = fd[p][6]
    BY <1>3 DEF WithPipe, Fds
  <2>4. Forks(p, r, s, f)
    BY <1>5 DEF k
  <2>5. st \in Nat \ {0}
    BY <1>3 DEF StageRight
  <2>6. /\ GoodProc(r) /\ r.pc = "left" /\ r.line = proc[p].line /\ r.stage = st
        /\ r.argv = proc[p].argv /\ r.words = proc[p].words
    BY <1>3 DEF GoodProc, NoProc
  <2>7. /\ GoodProc(s) /\ s.pc = "right" /\ s.line = proc[p].line /\ s.stage = st + 1
        /\ s.argv = proc[p].argv /\ s.words = proc[p].words
    BY <1>3 DEF GoodProc, NoProc
  <2> HIDE DEF r, s, f
  <2>8. \E c \in Pids \ {1, p} :
              /\ At(c, "none")
              /\ proc'[p] = r /\ proc'[c] = [s EXCEPT !.parent = p]
              /\ \A q \in Pids \ {p, c} : proc'[q] = proc[q]
              /\ fd'[p] = f /\ fd'[c] = f /\ \A q \in Pids \ {p, c} : fd'[q] = fd[q]
    BY <1>1, <2>2, <2>4, <2>6, <2>7, ForksKeeps DEF Family
  <2>9. PICK c \in Pids \ {1, p} :
              /\ At(c, "none")
              /\ proc'[p] = r /\ proc'[c] = [s EXCEPT !.parent = p]
              /\ \A q \in Pids \ {p, c} : proc'[q] = proc[q]
              /\ fd'[p] = f /\ fd'[c] = f /\ \A q \in Pids \ {p, c} : fd'[q] = fd[q]
    BY <2>8
  <2>10. /\ proc'[c].pc = "right" /\ proc'[c].line = proc[p].line /\ proc'[c].stage = st + 1
         /\ proc'[c].argv = proc[p].argv /\ proc'[c].words = proc[p].words
    BY <2>7, <2>9 DEF GoodProc, NoProc
  <2>11. /\ proc'[p].pc = "left" /\ proc'[p].line = proc[p].line /\ proc'[p].stage = st
         /\ proc'[p].argv = proc[p].argv /\ proc'[p].words = proc[p].words
    BY <2>6, <2>9
  <2>12. proc'[1] = proc[1] /\ fd'[1] = fd[1] /\ 1 \in Pids
    BY <2>9, Numbers
  <2>13. StageRight(proc'[p], fd'[p])
    <3>1. /\ fd'[p][5] = Closed /\ fd'[p][6] = Closed
      BY <1>1, <1>3, <2>3, <2>9 DEF StageRight, Fds
    <3>2. /\ fd'[p][3][1] = "r" /\ fd'[p][4][1] = "w" /\ fd'[p][3][2] = fd'[p][4][2]
          /\ fd'[p][0] = fd[p][0] /\ fd'[p][1] = fd[p][1]
      BY <2>3, <2>9
    <3> QED BY <1>1, <1>3, <2>11, <3>1, <3>2 DEF StageRight
  <2>14. StageRight(proc'[c], fd'[c])
    <3>1. /\ fd'[c][5] = Closed /\ fd'[c][6] = Closed
      BY <1>1, <1>3, <2>3, <2>9 DEF StageRight, Fds
    <3>2. /\ fd'[c][3][1] = "r" /\ fd'[c][4][1] = "w" /\ fd'[c][3][2] = fd'[c][4][2]
          /\ fd'[c][0] = fd[p][0] /\ fd'[c][1] = fd[p][1]
      BY <2>3, <2>9
    <3>3. st + 1 \in Nat \ {0} /\ st + 1 > 1 /\ (st + 1) - 1 = st /\ st + 1 # 1
      BY <2>5
    <3> QED BY <1>1, <1>3, <2>10, <3>1, <3>2, <3>3 DEF StageRight
  <2>15. /\ Writes(p)' = k /\ Reads(c)' = k /\ Reads(p)' = Reads(p)
    BY <1>1, <2>3, <2>9, <2>10, <2>11 DEF Writes, Reads, At
  <2>16. ASSUME NEW q \in Pids \ {p, c}, Staged(q)'
         PROVE  Staged(q) /\ proc'[q] = proc[q] /\ fd'[q] = fd[q]
                /\ Writes(q)' = Writes(q) /\ Reads(q)' = Reads(q)
                /\ proc[q].stage \in Nat
    <3>1. proc'[q] = proc[q] /\ fd'[q] = fd[q]
      BY <2>9
    <3>2. Staged(q)
      BY <2>16, <3>1 DEF Staged
    <3>3. Writes(q)' = Writes(q) /\ Reads(q)' = Reads(q)
      BY <3>1 DEF Writes, Reads, At
    <3>4. proc[q].stage \in Nat
      BY <1>1, <3>2 DEF Wired, StageRight
    <3> QED BY <3>1, <3>2, <3>3, <3>4
  <2>17. ASSUME NEW q \in Pids, Staged(q)'
         PROVE  /\ StageRight(proc'[q], fd'[q]) /\ proc'[q].line =< typed'
                /\ At(1, "run_command")' => proc'[q].line < typed'
    <3>1. CASE q = p \/ q = c
      <4>1. StageRight(proc'[q], fd'[q]) /\ proc'[q].line = proc[p].line
        BY <2>10, <2>11, <2>13, <2>14, <3>1
      <4> QED BY <1>1, <1>2, <2>12, <4>1 DEF Wired, At
    <3>2. CASE q # p /\ q # c
      BY <1>1, <2>12, <2>16, <2>17, <3>2 DEF Wired, At
    <3> QED BY <3>1, <3>2
  <2>18. ASSUME NEW q \in Pids, Staged(q), q # p, proc[q].line = proc[p].line
         PROVE  /\ proc[q].stage \in Nat /\ proc[q].stage < st /\ proc[q].pc \notin Tips
                /\ st = proc[q].stage + 1 => proc[q].pc \in {"left", "run"} /\ Writes(q) = Reads(p)
    <3>1. SameLine(p, q) /\ SameLine(q, p)
      BY <1>2, <2>18 DEF SameLine
    <3>2. proc[q].stage \in Nat
      BY <1>1, <2>18 DEF Wired, StageRight
    <3>3. proc[q].stage =< st /\ proc[q].stage # st
      BY <1>1, <2>18, <3>1 DEF Wired, Tips
    <3>4. proc[q].pc \in Tips => st =< proc[q].stage
      BY <1>1, <3>1 DEF Wired
    <3>5. st = proc[q].stage + 1 => proc[q].pc \in {"left", "run"} /\ Writes(q) = Reads(p)
      BY <1>1, <3>1 DEF Wired
    <3> HIDE DEF st
    <3> QED BY <2>5, <3>2, <3>3, <3>4, <3>5
  <2>19. ASSUME NEW a \in Pids, NEW b \in Pids, SameLine(a, b)'
         PROVE  /\ proc'[a].stage = proc'[b].stage => a = b
                /\ proc'[a].pc \in Tips => proc'[b].stage =< proc'[a].stage
                /\ proc'[b].stage = proc'[a].stage + 1 =>
                     proc'[a].pc \in {"left", "run"} /\ Writes(a)' = Reads(b)'
    <3>1. Staged(a)' /\ Staged(b)' /\ proc'[a].line = proc'[b].line
      BY <2>19 DEF SameLine
    <3> HIDE DEF st
    <3>2. CASE a = p /\ b = p
      BY <2>5, <2>11, <3>2 DEF Tips
    <3>3. CASE a = p /\ b = c
      BY <2>5, <2>10, <2>11, <2>15, <3>3 DEF Tips
    <3>4. CASE a = c /\ b = p
      BY <2>5, <2>10, <2>11, <3>4
    <3>5. CASE a = c /\ b = c
      BY <2>5, <2>10, <3>5
    <3>6. CASE a = p /\ b \notin {p, c}
      <4>1. proc'[b] = proc[b] /\ Staged(b) /\ proc[b].line = proc[p].line
        BY <2>11, <2>16, <3>1, <3>6
      <4>2. proc'[b].stage \in Nat /\ proc'[b].stage < st
        BY <2>18, <3>6, <4>1
      <4> QED BY <2>5, <2>11, <3>6, <4>2 DEF Tips
    <3>7. CASE a = c /\ b \notin {p, c}
      <4>1. proc'[b] = proc[b] /\ Staged(b) /\ proc[b].line = proc[p].line
        BY <2>10, <2>16, <3>1, <3>7
      <4>2. proc'[b].stage \in Nat /\ proc'[b].stage < st
        BY <2>18, <3>7, <4>1
      <4> QED BY <2>5, <2>10, <3>7, <4>2
    <3>8. CASE a \notin {p, c} /\ b \in {p, c}
      <4>1. proc'[a] = proc[a] /\ Staged(a) /\ proc[a].line = proc[p].line
            /\ Writes(a)' = Writes(a)
        BY <2>10, <2>11, <2>16, <3>1, <3>8
      <4>2. /\ proc'[a].stage \in Nat /\ proc'[a].stage < st /\ proc'[a].pc \notin Tips
            /\ st = proc'[a].stage + 1 =>
                 proc'[a].pc \in {"left", "run"} /\ Writes(a)' = Reads(p)
        BY <2>18, <3>8, <4>1
      <4>3. CASE b = p
        BY <2>5, <2>11, <2>15, <4>2, <4>3
      <4>4. CASE b = c
        BY <2>5, <2>10, <4>2, <4>4
      <4> QED BY <3>8, <4>3, <4>4
    <3>9. CASE a \notin {p, c} /\ b \notin {p, c}
      <4>1. proc'[a] = proc[a] /\ proc'[b] = proc[b] /\ Staged(a) /\ Staged(b)
            /\ Writes(a)' = Writes(a) /\ Reads(b)' = Reads(b)
        BY <2>16, <3>1, <3>9
      <4>2. SameLine(a, b)
        BY <3>1, <4>1 DEF SameLine
      <4>3. /\ proc[a].stage = proc[b].stage => a = b
            /\ proc[a].pc \in Tips => proc[b].stage =< proc[a].stage
            /\ proc[b].stage = proc[a].stage + 1 =>
                 proc[a].pc \in {"left", "run"} /\ Writes(a) = Reads(b)
        BY <1>1, <4>2 DEF Wired
      <4> QED BY <4>1, <4>3
    <3> QED BY <3>2, <3>3, <3>4, <3>5, <3>6, <3>7, <3>8, <3>9
  <2>20. Alive(1)' => fd'[1] = Terminal
    BY <1>1, <2>12 DEF Wired, Alive
  <2>21. At(1, "run_command")' => proc'[1].argv \in Seq(STRING)
    BY <1>1, <2>12 DEF Wired, At
  <2>22. \A q \in Pids : Staged(q)' =>
            /\ StageRight(proc'[q], fd'[q]) /\ proc'[q].line =< typed'
            /\ At(1, "run_command")' => proc'[q].line < typed'
    BY <2>17
  <2>23. \A a, b \in Pids : SameLine(a, b)' =>
            /\ proc'[a].stage = proc'[b].stage => a = b
            /\ proc'[a].pc \in Tips => proc'[b].stage =< proc'[a].stage
            /\ proc'[b].stage = proc'[a].stage + 1 =>
                 proc'[a].pc \in {"left", "run"} /\ Writes(a)' = Reads(b)'
    BY <2>19
  <2> QED BY <2>20, <2>21, <2>22, <2>23 DEF Wired
<1> QED BY <1>1, <1>4, <1>5 DEF SplitPipe
-----------------------------------------------------------------------------
(* The actions of the shell *)

\* The shell ends; its pipelines go on.
LEMMA WiredMainExits ==
  ASSUME Family, Wired, program = "HW5", Exits(1), UNCHANGED jobVars
  PROVE  Wired'
<1>1. 1 \in Pids /\ proc[1].parent = 0
  BY Numbers DEF Family, Main
<1>2. \A q \in Pids \ {1} : Unmoved(q)
  BY <1>1, ExitsUnmoved DEF Family
<1>3. proc'[1].pc = "none"
  BY <1>1, ExitsKeeps DEF Family
<1>4. ~Alive(1)' /\ ~At(1, "run_command")'
  BY <1>3 DEF Alive, At
<1>5. program' = program /\ typed' = typed
  BY DEF jobVars
<1> QED BY <1>2, <1>4, <1>5, HistoryTypes, WiredMain

\* The shell goes on, without fork or wait.
LEMMA WiredMainBecomes ==
  ASSUME Family, Wired, program = "HW5", program' = program, Alive(1),
         NEW r, Becomes(1, r, fd[1]), GoodProc(r), r.pc \notin {"none", "zombie"},
         typed' \in {typed, typed + 1},
         r.pc = "run_command" => r.argv \in Seq(STRING) /\ typed' = typed + 1
  PROVE  Wired'
<1>1. 1 \in Pids /\ fd[1] \in [Fds -> Ends] /\ fd[1] = Terminal
  BY Numbers, ProcTypes DEF Wired
<1>2. /\ proc'[1] = r /\ \A q \in Pids \ {1} : proc'[q] = proc[q]
      /\ fd'[1] = fd[1] /\ \A q \in Pids \ {1} : fd'[q] = fd[q]
  BY <1>1, BecomesKeeps DEF Family
<1>3. \A q \in Pids \ {1} : Unmoved(q)
  BY <1>2, SameUnmoved
<1>4. At(1, "run_command")' => proc'[1].argv \in Seq(STRING) /\ typed' = typed + 1
  BY <1>2 DEF At
<1> QED BY <1>1, <1>2, <1>3, <1>4, HistoryTypes, WiredMain

\* A line is typed.
LEMMA WiredTypes ==
  ASSUME Family, Wired, PFgets
  PROVE  Wired'
<1>1. program = "HW5" /\ program' = program /\ At(1, "start") /\ typed' = typed + 1 /\ Alive(1)
  BY DEF PFgets, At, Alive
<1>2. PICK line \in PipeLines : LET words == ParseLine(line) IN
         Becomes(1, [proc[1] EXCEPT !.argv = words,
                       !.pc = IF words = <<>> THEN "start"
                              ELSE IF words[1] \in BuiltinTable THEN "do_builtin"
                              ELSE "run_command"], fd[1])
  BY DEF PFgets
<1> DEFINE words == ParseLine(line)
           c == IF words = <<>> THEN "start"
                ELSE IF words[1] \in BuiltinTable THEN "do_builtin" ELSE "run_command"
           r == [proc[1] EXCEPT !.argv = words, !.pc = c]
<1>3. c \in {"start", "do_builtin", "run_command"} /\ words \in Seq(STRING)
  BY LinesAssumption
<1>4. Becomes(1, r, fd[1])
  BY <1>2
<1> HIDE DEF c, words
<1>5. GoodProc(r) /\ r.pc = c /\ r.argv = words
  BY ProcTypes, Numbers DEF GoodProc, NoProc
<1> HIDE DEF r
<1> QED BY <1>1, <1>3, <1>4, <1>5, WiredMainBecomes

\* A builtin.
LEMMA WiredBuiltin ==
  ASSUME Family, Wired, PDoBuiltin
  PROVE  Wired'
<1>1. /\ program = "HW5" /\ UNCHANGED jobVars /\ program' = program /\ typed' = typed /\ Alive(1)
  BY DEF PDoBuiltin, jobVars, At, Alive
<1>2. PICK c \in AfterBuiltin(proc[1].argv) : IF c = "exit" THEN Exits(1) ELSE Goes(1, c)
  BY DEF PDoBuiltin
<1>3. c \in {"exit", "start", "echoes_for_ever"}
  BY DEF AfterBuiltin
<1>4. CASE c = "exit"
  BY <1>1, <1>2, <1>4, WiredMainExits
<1>5. CASE c # "exit"
  <2> DEFINE r == [proc[1] EXCEPT !.pc = c]
  <2>1. GoodProc(r) /\ r.pc = c
    BY ProcTypes, Numbers DEF GoodProc, NoProc
  <2>2. Becomes(1, r, fd[1])
    BY <1>2, <1>5 DEF Goes
  <2> HIDE DEF r
  <2> QED BY <1>1, <1>3, <1>5, <2>1, <2>2, WiredMainBecomes
<1> QED BY <1>4, <1>5

\* The shell has waited: its child has ended.
LEMMA WiredWaits ==
  ASSUME Family, Wired, PWaitpid
  PROVE  Wired'
<1>1. /\ program = "HW5" /\ program' = program /\ typed' = typed /\ Alive(1)
  BY DEF PWaitpid, jobVars, At, Alive
<1>2. PICK q \in Pids : Reaps(1, q, "start")
  BY DEF PWaitpid
<1>3. 1 \in Pids /\ fd' = fd
  BY <1>2, Numbers DEF Reaps
<1>4. /\ q # 1 /\ proc'[1] = [proc[1] EXCEPT !.pc = "start"] /\ proc'[q] = NoProc
      /\ \A x \in Pids \ {1, q} : proc'[x] = proc[x]
  BY <1>1, <1>2, <1>3, ReapsKeeps DEF Family
<1>5. ASSUME NEW x \in Pids \ {1} PROVE Unmoved(x)
  <2>1. CASE x = q
    <3>1. NoProc.pc = "none"
      BY DEF NoProc
    <3>2. proc'[x].pc \notin Stages
      BY <1>4, <2>1, <3>1 DEF Stages
    <3> QED BY <3>2 DEF Unmoved, Staged
  <2>2. CASE x # q
    BY <1>3, <1>4, <2>2, SameUnmoved
  <2> QED BY <2>1, <2>2
<1>6. ~At(1, "run_command")'
  <2>1. GoodProc(proc[1])
    BY <1>3, ProcTypes
  <2>2. proc'[1].pc = "start"
    BY <1>4, <2>1 DEF GoodProc, NoProc
  <2> QED BY <2>2 DEF At
<1>7. Alive(1)' => fd'[1] = Terminal
  BY <1>1, <1>3 DEF Wired
<1> QED BY <1>1, <1>5, <1>6, <1>7, HistoryTypes, WiredMain

\* The first process of a line: no other belongs to it.
LEMMA WiredForks ==
  ASSUME Family, Wired, PRunCommand
  PROVE  Wired'
<1>1. /\ program = "HW5" /\ program' = program /\ typed' = typed /\ Alive(1)
      /\ At(1, "run_command") /\ proc[1].argv \in Seq(STRING) /\ fd[1] = Terminal
  BY DEF PRunCommand, At, Alive, Wired
<1>2. 1 \in Pids /\ fd[1] \in [Fds -> Ends] /\ GoodProc(proc[1])
  BY Numbers, ProcTypes
<1>3. CASE Exits(1) /\ background' = background
  BY <1>1, <1>3, WiredMainExits DEF jobVars
<1>4. CASE LET bg == Ampersand(proc[1].argv) IN
            /\ Forks(1, [proc[1] EXCEPT !.pc = IF bg THEN "start" ELSE "waitpid",
                                        !.argv = <<>>],
                     [proc[1] EXCEPT !.pc = "redirect", !.line = typed, !.fg = ~bg,
                                     !.stage = 1, !.words = proc[1].argv], fd[1])
            /\ background' = background + IF bg THEN 1 ELSE 0
  <2> DEFINE bg == Ampersand(proc[1].argv)
             r == [proc[1] EXCEPT !.pc = IF bg THEN "start" ELSE "waitpid", !.argv = <<>>]
             s == [proc[1] EXCEPT !.pc = "redirect", !.line = typed, !.fg = ~bg,
                                  !.stage = 1, !.words = proc[1].argv]
  <2>1. Forks(1, r, s, fd[1])
    BY <1>4
  <2> HIDE DEF bg
  <2>2. GoodProc(r) /\ r.pc \in {"start", "waitpid"}
    BY <1>2 DEF GoodProc, NoProc
  <2>3. /\ GoodProc(s) /\ s.pc = "redirect" /\ s.line = typed /\ s.stage = 1
        /\ s.words = proc[1].argv /\ s.argv = proc[1].argv
    <3>1. typed \in 0..MaxTyped
      BY DEF Family, Histories
    <3> QED BY <1>2, <3>1 DEF GoodProc, NoProc
  <2> HIDE DEF r, s
  <2>4. \E c \in Pids \ {1} :
           /\ proc'[1] = r /\ proc'[c] = [s EXCEPT !.parent = 1]
           /\ \A q \in Pids \ {1, c} : proc'[q] = proc[q]
           /\ fd'[1] = fd[1] /\ fd'[c] = fd[1] /\ \A q \in Pids \ {1, c} : fd'[q] = fd[q]
    BY <1>1, <1>2, <2>1, <2>2, <2>3, ForksKeeps DEF Family
  <2>5. PICK c \in Pids \ {1} :
           /\ proc'[1] = r /\ proc'[c] = [s EXCEPT !.parent = 1]
           /\ \A q \in Pids \ {1, c} : proc'[q] = proc[q]
           /\ fd'[1] = fd[1] /\ fd'[c] = fd[1] /\ \A q \in Pids \ {1, c} : fd'[q] = fd[q]
    BY <2>4
  <2>6. /\ proc'[c].pc = "redirect" /\ proc'[c].line = typed /\ proc'[c].stage = 1
        /\ proc'[c].words = proc[1].argv /\ proc'[c].argv = proc[1].argv
    BY <2>3, <2>5 DEF GoodProc, NoProc
  <2>7. ~At(1, "run_command")'
    BY <2>2, <2>5 DEF At
  <2>8. typed \in Nat
    BY HistoryTypes
  <2>9. ASSUME NEW q \in Pids \ {c}, Staged(q)'
        PROVE  /\ Staged(q) /\ proc'[q] = proc[q] /\ fd'[q] = fd[q] /\ proc[q].line < typed
               /\ Writes(q)' = Writes(q) /\ Reads(q)' = Reads(q)
    <3>1. proc'[q] = proc[q] /\ fd'[q] = fd[q]
      BY <2>5, <2>9 DEF Staged
    <3>2. Staged(q)
      BY <2>9, <3>1 DEF Staged
    <3>3. Writes(q)' = Writes(q) /\ Reads(q)' = Reads(q)
      BY <3>1 DEF Writes, Reads, At
    <3> QED BY <1>1, <3>1, <3>2, <3>3 DEF Wired
  <2>10. StageRight(proc'[c], fd'[c])
    BY <1>1, <2>5, <2>6 DEF StageRight
  <2>11. \A q \in Pids : Staged(q)' =>
           StageRight(proc'[q], fd'[q]) /\ proc'[q].line =< typed'
    <3> SUFFICES ASSUME NEW q \in Pids, Staged(q)'
                 PROVE  StageRight(proc'[q], fd'[q]) /\ proc'[q].line =< typed'
      OBVIOUS
    <3>1. CASE q = c
      BY <1>1, <2>6, <2>8, <2>10, <3>1
    <3>2. CASE q # c
      BY <1>1, <2>9, <3>2 DEF Wired
    <3> QED BY <3>1, <3>2
  <2>12. ASSUME NEW a \in Pids, NEW b \in Pids, SameLine(a, b)'
         PROVE  /\ proc'[a].stage = proc'[b].stage => a = b
                /\ proc'[a].pc \in Tips => proc'[b].stage =< proc'[a].stage
                /\ proc'[b].stage = proc'[a].stage + 1 =>
                     proc'[a].pc \in {"left", "run"} /\ Writes(a)' = Reads(b)'
    <3>1. Staged(a)' /\ Staged(b)' /\ proc'[a].line = proc'[b].line
      BY <2>12 DEF SameLine
    <3>2. CASE a = c /\ b = c
      BY <2>6, <3>2
    <3>3. CASE a # c /\ b # c
      <4>1. /\ proc'[a] = proc[a] /\ proc'[b] = proc[b] /\ Staged(a) /\ Staged(b)
            /\ Writes(a)' = Writes(a) /\ Reads(b)' = Reads(b)
        BY <2>9, <3>1, <3>3
      <4>2. SameLine(a, b)
        BY <3>1, <4>1 DEF SameLine
      <4>3. /\ proc[a].stage = proc[b].stage => a = b
            /\ proc[a].pc \in Tips => proc[b].stage =< proc[a].stage
            /\ proc[b].stage = proc[a].stage + 1 =>
                 proc[a].pc \in {"left", "run"} /\ Writes(a) = Reads(b)
        BY <1>1, <4>2 DEF Wired
      <4> QED BY <4>1, <4>3
    <3>4. CASE a = c /\ b # c
      <4>1. proc'[b].line < typed
        BY <2>9, <3>1, <3>4
      <4> QED BY <2>6, <2>8, <3>1, <3>4, <4>1
    <3>5. CASE a # c /\ b = c
      <4>1. proc'[a].line < typed
        BY <2>9, <3>1, <3>5
      <4> QED BY <2>6, <2>8, <3>1, <3>5, <4>1
    <3> QED BY <3>2, <3>3, <3>4, <3>5
  <2>13. \A a, b \in Pids : SameLine(a, b)' =>
            /\ proc'[a].stage = proc'[b].stage => a = b
            /\ proc'[a].pc \in Tips => proc'[b].stage =< proc'[a].stage
            /\ proc'[b].stage = proc'[a].stage + 1 =>
                 proc'[a].pc \in {"left", "run"} /\ Writes(a)' = Reads(b)'
    BY <2>12
  <2>14. fd'[1] = Terminal
    BY <1>1, <2>5
  <2> QED BY <2>7, <2>11, <2>13, <2>14 DEF Wired
<1> QED BY <1>3, <1>4 DEF PRunCommand

\* HW5's shell and the processes of its pipelines keep Wired,
LEMMA WiredShell ==
  ASSUME ProcessInv, Wired, NEW p \in Pids, PipeShellStep(p)
  PROVE  Wired'
<1>1. Family /\ (p = 1 => proc[p].pc \in Prompt \union MainCalls)
  BY DEF ProcessInv, Family, Main
<1>2. CASE p = 1 /\ (PFgets \/ PFgetsEof \/ PDoBuiltin \/ PRunCommand \/ PWaitpid)
  <2>1. CASE PFgetsEof
    BY <1>1, <2>1, WiredMainExits DEF PFgetsEof
  <2> QED BY <1>1, <1>2, <2>1, WiredTypes, WiredBuiltin, WiredForks, WiredWaits
<1>3. CASE Redirect(p) \/ ExecWhole(p) \/ SplitPipe(p) \/ LeftExec(p) \/ RightRedirect(p)
  <2>1. p # 1
    BY <1>1, <1>3 DEF At, Prompt, MainCalls, Redirect, ExecWhole, SplitPipe, LeftExec,
                      RightRedirect
  <2> QED BY <1>1, <1>3, <2>1, WiredRedirects, WiredExecsWhole, WiredSplits, WiredExecsLeft,
             WiredRightRedirects
<1> QED BY <1>2, <1>3 DEF PipeShellStep

\* which is about HW5 only, and the program stays the same,
LEMMA ProgramKept == [ProcessNext]_processVars => program' = program
<1>1. UNCHANGED processVars => program' = program
  BY DEF processVars
<1>2. ASSUME NEW p \in Pids, Step(p) PROVE program' = program
  <2>1. JobShellStep(p) => program' = program
    BY DEF JobShellStep, Fgets, FgetsEof, DoBuiltin, RunCommand, Waitpid, ChildExec, jobVars
  <2>2. PipeShellStep(p) => program' = program
    BY DEF PipeShellStep, PFgets, PFgetsEof, PDoBuiltin, PRunCommand, PWaitpid, Redirect,
           ExecWhole, SplitPipe, LeftExec, RightRedirect, jobVars
  <2>3. CommandStep(p) \/ MainExits => program' = program
    BY DEF CommandStep, MainExits, jobVars
  <2>4. UpperStep(p) => program' = program
    BY DEF UpperStep, UpperStart, UpperParentCloses, UpperReadStdin, UpperWrite, UpperClose,
           UpperRead, UpperShow, UpperWait, UpperChildCloses, UpperChildReads, UpperChildWrites,
           jobVars
  <2>5. PopenStep(p) => program' = program
    BY DEF PopenStep, PopenFork, PopenParent, PopenRead, PopenFgets, PopenWrite, Pclose,
           PcloseWaits, PopenChild, jobVars
  <2>6. LsStep(p) => program' = program
    BY DEF LsStep, LsFork, LsParent, LsRead, LsChild, jobVars
  <2> QED BY <1>2, <2>1, <2>2, <2>3, <2>4, <2>5, <2>6 DEF Step
<1>3. ASSUME NEW p \in Pids, ChildDies(p) PROVE program' = program
  BY <1>3 DEF ChildDies, jobVars
<1> QED BY <1>1, <1>2, <1>3 DEF ProcessNext

\* as a step of nothing does,
LEMMA WiredStutter ==
  ASSUME Family, Wired, program = "HW5", UNCHANGED processVars
  PROVE  Wired'
<1>1. /\ program' = program /\ typed' = typed /\ fd' = fd /\ proc' = proc
  BY DEF processVars
<1>2. \A q \in Pids : Unmoved(q)
  BY <1>1, SameUnmoved
<1>3. Alive(1)' => fd'[1] = Terminal
  BY <1>1 DEF Wired, Alive
<1>4. At(1, "run_command")' => proc'[1].argv \in Seq(STRING) /\ At(1, "run_command")
  BY <1>1 DEF Wired, At
<1> QED BY <1>1, <1>2, <1>3, <1>4, HistoryTypes, WiredMain

\* of HW5's programs only,
LEMMA OnlyItsSteps ==
  ASSUME program = "HW5", NEW p \in Pids, Step(p)
  PROVE  PipeShellStep(p) \/ CommandStep(p)
<1>1. ~JobShellStep(p)
  BY DEF JobShellStep, Fgets, FgetsEof, DoBuiltin, RunCommand, Waitpid, ChildExec
<1>2. ~UpperStep(p)
  BY DEF UpperStep, UpperStart, UpperParentCloses, UpperReadStdin, UpperWrite, UpperClose,
         UpperRead, UpperShow, UpperWait, UpperChildCloses, UpperChildReads, UpperChildWrites,
         In44_1
<1>3. ~PopenStep(p)
  BY DEF PopenStep, PopenFork, PopenParent, PopenRead, PopenFgets, PopenWrite, Pclose,
         PcloseWaits, PopenChild, Popen
<1>4. ~LsStep(p) /\ ~MainExits
  BY DEF LsStep, LsFork, LsParent, LsRead, LsChild, MainExits
<1> QED BY <1>1, <1>2, <1>3, <1>4 DEF Step

\* and thus every step.
LEMMA WiredStep == ProcessInv /\ Wired /\ [ProcessNext]_processVars => Wired'
<1> SUFFICES ASSUME ProcessInv, Wired, [ProcessNext]_processVars PROVE Wired'
  OBVIOUS
<1>1. program' = program /\ Family
  BY ProgramKept DEF ProcessInv
<1>2. CASE program # "HW5"
  BY <1>1, <1>2 DEF Wired
<1>3. CASE program = "HW5"
  <2>1. CASE UNCHANGED processVars
    BY <1>1, <1>3, <2>1, WiredStutter
  <2>2. ASSUME NEW p \in Pids, Step(p) PROVE Wired'
    BY <1>1, <1>3, <2>2, OnlyItsSteps, WiredShell, WiredRuns
  <2>3. ASSUME NEW p \in Pids, ChildDies(p) PROVE Wired'
    BY <1>1, <1>3, <2>3, WiredExits DEF ChildDies, jobVars
  <2> QED BY <2>1, <2>2, <2>3 DEF ProcessNext
<1> QED BY <1>2, <1>3

\* It holds when the program starts.
LEMMA WiredInitial == ASSUME ProcessInit PROVE Wired
<1>1. fd[1] = Terminal
  <2>1. 1 \in Pids
    BY Numbers
  <2>2. fd[1] = [e \in Fds |-> Terminal[e]]
    BY <2>1 DEF ProcessInit, KernelInit
  <2> QED BY <2>2 DEF Terminal
<1>2. \A p \in Pids : ~Staged(p)
  <2> SUFFICES ASSUME NEW p \in Pids, p # 1 PROVE proc[p].pc \notin Stages
    BY DEF Staged
  <2>1. NoProc.pc = "none"
    BY DEF NoProc
  <2>2. proc[p] = NoProc
    BY DEF ProcessInit, KernelInit
  <2> QED BY <2>1, <2>2 DEF Stages
<1>3. ~At(1, "run_command")
  <2>1. 1 \in Pids
    BY Numbers
  <2>2. proc[1] = [NoProc EXCEPT !.pc = "start"]
    BY <2>1 DEF ProcessInit, KernelInit
  <2>3. proc[1].pc = "start"
    BY <2>2 DEF NoProc
  <2> QED BY <2>3 DEF At
<1> QED BY <1>1, <1>2, <1>3 DEF Wired, SameLine

\* StagesAsWritten, for any number of processes, pipes and lines typed, and lines of
\* any length: an exec'ed stage of HW5's pipelines is the command written there,
\* reads what the stage before it writes (the first the terminal or the file, the
\* last writes the terminal or the file), and holds no other end of any pipe, in
\* whatever order the processes of the line, of other lines and the shell step.
THEOREM StagesWired == ProcessSpec => []StagesAsWritten
<1>1. ProcessInit => ProcessInv /\ Wired
  BY ProcessInitial, WiredInitial
<1>2. (ProcessInv /\ Wired) /\ [ProcessNext]_processVars => (ProcessInv /\ Wired)'
  BY ProcessStep, WiredStep
<1>3. ProcessInv /\ Wired => StagesAsWritten
  <2> SUFFICES ASSUME ProcessInv, Wired, NEW p \in Pids, program = "HW5", At(p, "run")
               PROVE
      LET words == proc[p].words  stage == proc[p].stage  last == Cardinality(Bars(words)) + 1 IN
      /\ \A e \in Fds \ {0, 1} : fd[p][e] = Closed
      /\ AsWritten(words) =>
           /\ proc[p].argv[1] = CommandAt(words, stage)
           /\ stage = 1 => fd[p][0] = IF First("<", words) # 0 THEN InFile ELSE Tty
           /\ stage = last => fd[p][1] = IF First(">", words) # 0 THEN OutFile ELSE Tty
           /\ stage > 1 => fd[p][0][1] = "r"
           /\ stage < last => fd[p][1][1] = "w"
           /\ \A q \in Pids :
                At(q, "run") /\ proc[q].line = proc[p].line /\ proc[q].stage = stage + 1
                  => fd[q][0][2] = fd[p][1][2]
    BY DEF StagesAsWritten
  <2>1. ASSUME NEW q \in Pids, At(q, "run") PROVE Staged(q)
    BY <2>1 DEF ProcessInv, Family, Main, Staged, Stages, At, Prompt, MainCalls
  <2>2. StageRight(proc[p], fd[p]) /\ proc[p].pc = "run"
    BY <2>1 DEF Wired, At
  <2>3. ASSUME NEW q \in Pids, At(q, "run"), proc[q].line = proc[p].line,
               proc[q].stage = proc[p].stage + 1
        PROVE  fd[q][0][2] = fd[p][1][2]
    <3>1. SameLine(p, q)
      BY <2>1, <2>3 DEF SameLine
    <3>2. Writes(p) = Reads(q)
      BY <2>3, <3>1 DEF Wired
    <3> QED BY <2>2, <2>3, <3>2 DEF Writes, Reads, At
  <2>4. \A e \in Fds \ {0, 1} : fd[p][e] = Closed
    BY <2>2 DEF StageRight
  <2>5. ASSUME AsWritten(proc[p].words)
        PROVE  /\ proc[p].argv[1] = CommandAt(proc[p].words, proc[p].stage)
               /\ proc[p].stage = 1 => fd[p][0] = InOf(proc[p].words)
               /\ proc[p].stage = LastStage(proc[p].words) => fd[p][1] = OutOf(proc[p].words)
               /\ proc[p].stage > 1 => fd[p][0][1] = "r"
               /\ proc[p].stage < LastStage(proc[p].words) => fd[p][1][1] = "w"
    BY <2>2, <2>5 DEF StageRight
  <2> QED BY <2>3, <2>4, <2>5 DEF InOf, OutOf, LastStage
<1> QED BY <1>1, <1>2, <1>3, PTL DEF ProcessSpec
-----------------------------------------------------------------------------
(* What EndsShared rests on: whose pipe an end is of *)

\* Whether a descriptor refers to a pipe, and the stage that writes that pipe, when it
\* is descriptor e of process r.
End(o) == o[1] \in {"r", "w"}
Writer(r, e) == (IF e = 0 THEN r.stage - 1 ELSE r.stage)
                - (IF e # 1 /\ r.pc = "right" THEN 1 ELSE 0)

\* The invariant: a pipe is known by its line and by the stage that writes it.
Owned ==
    program = "HW5" =>
      /\ \A p \in Pids, e \in Fds :
           End(fd[p][e]) => Staged(p) /\ (e = 1 => At(p, "run"))
      /\ \A p, q \in Pids, d, e \in Fds :
           End(fd[p][d]) /\ End(fd[q][e]) /\ fd[p][d][2] = fd[q][e][2] =>
             proc[p].line = proc[q].line /\ Writer(proc[p], d) = Writer(proc[q], e)

\* After a step, a process may have an end at e; it is the end of the pipe k that stage s
\* of line l writes; there was such an end before.
MayHave(q, e) == Staged(q)' /\ (e = 1 => At(q, "run")')
IsOf(q, e, k, l, s) == fd'[q][e][2] = k /\ proc'[q].line = l /\ Writer(proc'[q], e) = s
WasThere(q, e) ==
    \E o \in Pids, d \in Fds :
        End(fd[o][d]) /\ IsOf(q, e, fd[o][d][2], proc[o].line, Writer(proc[o], d))

\* A step after which every end was there before, or is one of the new pipe k.
LEMMA OwnedFrom ==
  ASSUME Owned, program = "HW5", NEW k, NEW l, NEW s,
         \A q \in Pids, e \in Fds : End(fd[q][e]) => fd[q][e][2] # k,
         \A q \in Pids, e \in Fds : End(fd'[q][e]) =>
           MayHave(q, e) /\ (IsOf(q, e, k, l, s) \/ WasThere(q, e))
  PROVE  Owned'
<1>1. \A q \in Pids, e \in Fds : End(fd'[q][e]) => Staged(q)' /\ (e = 1 => At(q, "run")')
  BY DEF MayHave
<1>2. ASSUME NEW p \in Pids, NEW q \in Pids, NEW d \in Fds, NEW e \in Fds,
             End(fd'[p][d]), End(fd'[q][e]), fd'[p][d][2] = fd'[q][e][2]
      PROVE  proc'[p].line = proc'[q].line /\ Writer(proc'[p], d) = Writer(proc'[q], e)
  <2>1. CASE fd'[p][d][2] = k
    <3>1. ~WasThere(p, d) /\ ~WasThere(q, e)
      BY <1>2, <2>1 DEF WasThere, IsOf
    <3>2. IsOf(p, d, k, l, s) /\ IsOf(q, e, k, l, s)
      BY <1>2, <3>1
    <3> QED BY <3>2 DEF IsOf
  <2>2. CASE fd'[p][d][2] # k
    <3>1. WasThere(p, d) /\ WasThere(q, e)
      BY <1>2, <2>2 DEF IsOf
    <3>2. PICK o \in Pids, x \in Fds :
            End(fd[o][x]) /\ IsOf(p, d, fd[o][x][2], proc[o].line, Writer(proc[o], x))
      BY <3>1 DEF WasThere
    <3>3. PICK u \in Pids, y \in Fds :
            End(fd[u][y]) /\ IsOf(q, e, fd[u][y][2], proc[u].line, Writer(proc[u], y))
      BY <3>1 DEF WasThere
    <3>4. fd[o][x][2] = fd[u][y][2]
      BY <1>2, <3>2, <3>3 DEF IsOf
    <3>5. proc[o].line = proc[u].line /\ Writer(proc[o], x) = Writer(proc[u], y)
      BY <3>2, <3>3, <3>4 DEF Owned
    <3> QED BY <3>2, <3>3, <3>5 DEF IsOf
  <2> QED BY <2>1, <2>2
<1> QED BY <1>1, <1>2 DEF Owned

\* A step that makes no pipe.
LEMMA OwnedStill ==
  ASSUME Kernel, Owned, program = "HW5",
         \A q \in Pids, e \in Fds : End(fd'[q][e]) => MayHave(q, e) /\ WasThere(q, e)
  PROVE  Owned'
<1>1. \A q \in Pids, e \in Fds : End(fd[q][e]) => fd[q][e][2] # 0
  <2> SUFFICES ASSUME NEW q \in Pids, NEW e \in Fds, End(fd[q][e]) PROVE fd[q][e][2] # 0
    OBVIOUS
  <2>1. fd[q][e] \in Ends
    BY DEF Kernel, Descriptors
  <2>2. fd[q][e] \in {"r", "w"} \X Pipes
    BY <2>1 DEF Ends, End, Closed, Tty, InFile, OutFile
  <2>3. 0 \notin Pipes
    BY DEF Pipes
  <2> QED BY <2>2, <2>3
<1> QED BY <1>1, OwnedFrom

\* What such a step leaves as it is.
LEMMA SameEnds ==
  ASSUME Owned, program = "HW5", NEW q \in Pids, fd'[q] = fd[q],
         Staged(q) => Unmoved(q) /\ Staged(q)',
         NEW e \in Fds, End(fd'[q][e])
  PROVE  MayHave(q, e) /\ WasThere(q, e)
<1>1. Staged(q) /\ (e = 1 => At(q, "run"))
  BY DEF Owned
<1>2. /\ Staged(q)' /\ proc'[q].pc = proc[q].pc /\ proc'[q].line = proc[q].line
      /\ proc'[q].stage = proc[q].stage
  BY <1>1 DEF Unmoved
<1>3. IsOf(q, e, fd[q][e][2], proc[q].line, Writer(proc[q], e))
  BY <1>2 DEF IsOf, Writer
<1> QED BY <1>1, <1>2, <1>3 DEF MayHave, WasThere, At

\* The terminal and closed descriptors are no ends.
LEMMA NoEnds == \A e \in Fds : ~End(Terminal[e]) /\ ~End(NoFds[e])
BY DEF Terminal, NoFds, End, Tty, Closed

\* A step after which every process has its descriptors, or none of a pipe.
LEMMA OwnedRest ==
  ASSUME Kernel, Owned, program = "HW5",
         \A q \in Pids : \/ fd'[q] \in {Terminal, NoFds}
                         \/ fd'[q] = fd[q] /\ (Staged(q) => Unmoved(q) /\ Staged(q)')
  PROVE  Owned'
<1>1. ASSUME NEW q \in Pids, NEW e \in Fds, End(fd'[q][e]) PROVE MayHave(q, e) /\ WasThere(q, e)
  <2>1. fd'[q] \notin {Terminal, NoFds}
    BY <1>1, NoEnds
  <2>2. fd'[q] = fd[q] /\ (Staged(q) => Unmoved(q) /\ Staged(q)')
    BY <2>1
  <2> QED BY <1>1, <2>2, SameEnds
<1> QED BY <1>1, OwnedStill

\* A process of a pipeline ends, or the shell.
LEMMA OwnedExits ==
  ASSUME Kernel, Owned, program = "HW5", NEW p \in Pids, Exits(p)
  PROVE  Owned'
<1>1. fd'[p] = NoFds /\ \A q \in Pids \ {p} : Unmoved(q) /\ fd'[q] = fd[q]
  BY ExitsUnmoved, ExitsKeeps
<1>2. ASSUME NEW q \in Pids \ {p}, Staged(q) PROVE Staged(q)'
  <2>1. ~At(q, "zombie")
    BY <1>2 DEF Staged, Stages, At
  <2>2. proc'[q] \in {proc[q], [proc[q] EXCEPT !.parent = 0]}
    BY <2>1, ExitsKeeps
  <2>3. proc'[q].pc = proc[q].pc
    BY <2>2 DEF Kernel, Procs, GoodProc, NoProc
  <2> QED BY <1>2, <2>3 DEF Staged
<1> QED BY <1>1, <1>2, OwnedRest

\* A process of a pipeline goes on, with the ends that it has or some of them.
LEMMA OwnedBecomes ==
  ASSUME Family, Owned, program = "HW5", NEW p \in Pids \ {1}, NEW r, NEW f,
         proc'[p] = r, fd'[p] = f,
         \A q \in Pids \ {p} : proc'[q] = proc[q] /\ fd'[q] = fd[q],
         r.line = proc[p].line, r.pc \in Stages,
         \A e \in Fds : End(f[e]) =>
           /\ e = 1 => r.pc = "run"
           /\ \E d \in Fds : f[e] = fd[p][d] /\ Writer(r, e) = Writer(proc[p], d)
  PROVE  Owned'
<1>1. ASSUME NEW q \in Pids, NEW e \in Fds, End(fd'[q][e]) PROVE MayHave(q, e) /\ WasThere(q, e)
  <2>1. CASE q = p
    <3>1. PICK d \in Fds : f[e] = fd[p][d] /\ Writer(r, e) = Writer(proc[p], d)
      BY <1>1, <2>1
    <3>2. IsOf(q, e, fd[p][d][2], proc[p].line, Writer(proc[p], d)) /\ End(fd[p][d])
      BY <1>1, <2>1, <3>1 DEF IsOf
    <3>3. MayHave(q, e)
      BY <1>1, <2>1 DEF MayHave, Staged, At
    <3> QED BY <3>2, <3>3 DEF WasThere
  <2>2. CASE q # p
    <3>1. fd'[q] = fd[q] /\ (Staged(q) => Unmoved(q) /\ Staged(q)')
      BY <2>2, SameUnmoved DEF Staged
    <3> QED BY <1>1, <3>1, SameEnds
  <2> QED BY <2>1, <2>2
<1> QED BY <1>1, OwnedStill DEF Family

\* A process becomes its command, or ends.
LEMMA OwnedExecs ==
  ASSUME Family, Owned, program = "HW5", NEW p \in Pids \ {1},
         NEW words, NEW f \in [Fds -> Ends], Execs(p, words, f),
         \A e \in Fds \ {0, 1} : f[e] = Closed,
         f[0] = fd[p][0], proc[p].pc \in {"pipe_and_exec", "left"},
         f[1] = IF proc[p].pc = "left" THEN fd[p][4] ELSE fd[p][1]
  PROVE  Owned'
<1>1. CASE Exits(p)
  BY <1>1, OwnedExits DEF Family
<1>2. CASE ~Exits(p)
  <2> DEFINE h == Output(words[1])
             r == [proc[p] EXCEPT !.pc = "run", !.argv = words, !.does = words[1], !.held = h]
  <2>1. words[1] \in Commands /\ Becomes(p, r, f)
    BY <1>2 DEF Execs
  <2>2. IsSeq(h)
    BY <2>1, CommandOutput
  <2> HIDE DEF h
  <2>3. GoodProc(r) /\ r.pc = "run" /\ r.line = proc[p].line /\ r.stage = proc[p].stage
    BY <2>2, ProcTypes DEF GoodProc, NoProc
  <2> HIDE DEF r
  <2>4. /\ proc'[p] = r /\ \A q \in Pids \ {p} : proc'[q] = proc[q]
        /\ fd'[p] = f /\ \A q \in Pids \ {p} : fd'[q] = fd[q]
    BY <2>1, <2>3, BecomesKeeps DEF Family
  <2>5. {0, 1, 4} \subseteq Fds
    BY DEF Fds
  <2>6. ASSUME NEW e \in Fds, End(f[e])
        PROVE  \E d \in Fds : f[e] = fd[p][d] /\ Writer(r, e) = Writer(proc[p], d)
    <3>1. e \in {0, 1}
      BY <2>6 DEF End, Closed
    <3>2. CASE e = 0
      BY <2>3, <2>5, <3>2 DEF Writer
    <3>3. CASE e = 1
      BY <2>3, <2>5, <3>3 DEF Writer
    <3> QED BY <3>1, <3>2, <3>3
  <2> QED BY <2>3, <2>4, <2>6, OwnedBecomes DEF Stages
<1> QED BY <1>1, <1>2

\* The first process of a line redirects itself: files are no pipes.
LEMMA OwnedRedirects ==
  ASSUME Family, Wired, Owned, NEW p \in Pids \ {1}, Redirect(p)
  PROVE  Owned'
<1>1. program = "HW5" /\ proc[p].pc = "redirect"
  BY DEF Redirect, At
<1>2. GoodProc(proc[p]) /\ fd[p] \in [Fds -> Ends] /\ fd[p] = Terminal
  BY <1>1, ProcTypes DEF Wired, Staged, Stages, StageRight
<1> DEFINE v == Before("<", proc[p].argv)
           a == Before(">", v)
           f == RedirectOut(v, RedirectIn(proc[p].argv, fd[p]))
           r == [proc[p] EXCEPT !.pc = "pipe_and_exec", !.argv = a]
<1>3. CASE Exits(p)
  BY <1>1, <1>3, OwnedExits DEF Family
<1>4. CASE Becomes(p, r, f)
  <2>1. InFile \in Ends /\ OutFile \in Ends /\ {0, 1} \subseteq Fds
    BY DEF Ends, Fds
  <2>2. RedirectIn(proc[p].argv, fd[p]) \in {fd[p], [fd[p] EXCEPT ![0] = InFile]}
    BY DEF RedirectIn
  <2>3. PICK g : /\ g \in {fd[p], [fd[p] EXCEPT ![0] = InFile]}
                 /\ f \in {g, [g EXCEPT ![1] = OutFile]}
    BY <2>2 DEF RedirectOut
  <2> HIDE DEF a, f
  <2>4. f \in [Fds -> Ends] /\ \A e \in Fds : f[e] \in {InFile, OutFile, fd[p][e]}
    BY <1>2, <2>1, <2>3
  <2>5. \A e \in Fds : ~End(f[e])
    BY <1>2, <2>4, NoEnds DEF End, InFile, OutFile
  <2>6. GoodProc(r) /\ r.pc = "pipe_and_exec" /\ r.line = proc[p].line
    BY <1>2 DEF GoodProc, NoProc
  <2> HIDE DEF r
  <2>7. /\ proc'[p] = r /\ \A q \in Pids \ {p} : proc'[q] = proc[q]
        /\ fd'[p] = f /\ \A q \in Pids \ {p} : fd'[q] = fd[q]
    BY <1>4, <2>4, <2>6, BecomesKeeps DEF Family
  <2> QED BY <1>1, <2>5, <2>6, <2>7, OwnedBecomes DEF Stages
<1> QED BY <1>3, <1>4 DEF Redirect

\* The child takes the pipe for its input.
LEMMA OwnedRightRedirects ==
  ASSUME Family, Wired, Owned, NEW p \in Pids \ {1}, RightRedirect(p)
  PROVE  Owned'
<1>1. program = "HW5" /\ proc[p].pc = "right" /\ Staged(p)
  BY DEF RightRedirect, At, Staged, Stages
<1>2. StageRight(proc[p], fd[p]) /\ fd[p] \in [Fds -> Ends] /\ GoodProc(proc[p])
  BY <1>1, ProcTypes DEF Wired
<1> DEFINE c == SubSeq(proc[p].argv, pipe_present(proc[p].argv) + 1, Len(proc[p].argv))
           f == Close(Dup2(fd[p], 3, 0), {3, 4})
           r == [proc[p] EXCEPT !.pc = "pipe_and_exec", !.argv = c]
<1>3. f \in [Fds -> Ends] /\ {0, 1, 3} \subseteq Fds
  BY <1>2, FdOperators
<1>4. /\ f[0] = fd[p][3] /\ f[1] = fd[p][1] /\ \A e \in Fds \ {0, 1} : f[e] = Closed
  BY <1>1, <1>2 DEF Close, Dup2, Fds, StageRight
<1>5. Becomes(p, r, f)
  BY <1>2 DEF RightRedirect, GoodProc, NoProc
<1> HIDE DEF f, c
<1>6. GoodProc(r) /\ r.pc = "pipe_and_exec" /\ r.line = proc[p].line /\ r.stage = proc[p].stage
  BY <1>2 DEF GoodProc, NoProc
<1> HIDE DEF r
<1>7. /\ proc'[p] = r /\ \A q \in Pids \ {p} : proc'[q] = proc[q]
      /\ fd'[p] = f /\ \A q \in Pids \ {p} : fd'[q] = fd[q]
  BY <1>3, <1>5, <1>6, BecomesKeeps DEF Family
<1>8. ~End(fd[p][1])
  BY <1>1, <1>3 DEF Owned, At
<1>9. Writer(r, 0) = Writer(proc[p], 3)
  BY <1>1, <1>2, <1>6 DEF Writer, StageRight
<1>10. ASSUME NEW e \in Fds, End(f[e])
       PROVE  e = 0
  <2>1. ~End(Closed)
    BY DEF End, Closed
  <2> QED BY <1>4, <1>8, <1>10, <2>1
<1> QED BY <1>1, <1>3, <1>4, <1>6, <1>7, <1>9, <1>10, OwnedBecomes DEF Stages

\* A command reads or writes, or ends.
LEMMA OwnedRuns ==
  ASSUME Family, Owned, program = "HW5", NEW p \in Pids, CommandStep(p)
  PROVE  Owned'
<1>1. CASE Exits(p)
  BY <1>1, OwnedExits DEF Family
<1>2. CASE ~Exits(p)
  <2>1. GoodProc(proc[p]) /\ proc[p].pc = "run"
    BY ProcTypes DEF CommandStep, RunWrite, RunRead, At
  <2>2. /\ fd' = fd
        /\ \/ \E h : proc' = [proc EXCEPT ![p] = [proc[p] EXCEPT !.held = h]]
           \/ \E h : proc' = [proc EXCEPT ![p] = [proc[p] EXCEPT
                                !.held = h, !.does = IF @ = "head" THEN "ls" ELSE @]]
    BY <1>2 DEF CommandStep, RunWrite, RunRead, Puts, Takes
  <2>3. /\ proc'[p].pc = proc[p].pc /\ proc'[p].argv = proc[p].argv
        /\ proc'[p].line = proc[p].line
        /\ proc'[p].words = proc[p].words /\ proc'[p].stage = proc[p].stage
        /\ \A q \in Pids \ {p} : proc'[q] = proc[q]
    <3>1. CASE \E h : proc' = [proc EXCEPT ![p] = [proc[p] EXCEPT !.held = h]]
      BY <2>1, <3>1 DEF Family, Kernel, Procs, GoodProc, NoProc
    <3>2. CASE \E h : proc' = [proc EXCEPT ![p] = [proc[p] EXCEPT
                                !.held = h, !.does = IF @ = "head" THEN "ls" ELSE @]]
      BY <2>1, <3>2 DEF Family, Kernel, Procs, GoodProc, NoProc
    <3> QED BY <2>2, <3>1, <3>2
  <2>4. ASSUME NEW q \in Pids, Staged(q) PROVE Unmoved(q) /\ Staged(q)'
    <3>1. CASE q = p
      BY <2>2, <2>3, <2>4, <3>1 DEF Unmoved, Staged
    <3>2. CASE q # p
      BY <2>2, <2>3, <2>4, <3>2, SameUnmoved DEF Staged
    <3> QED BY <3>1, <3>2
  <2> QED BY <2>2, <2>4, OwnedRest DEF Family
<1> QED BY <1>1, <1>2

\* A stage makes the next: both ends of the pipe are with the two, and of this line's
\* pipes the next has an end only of the one that this stage reads.
LEMMA OwnedSplits ==
  ASSUME Family, Wired, Owned, NEW p \in Pids \ {1}, SplitPipe(p)
  PROVE  Owned'
<1>1. program = "HW5" /\ proc[p].pc = "pipe_and_exec" /\ Staged(p) /\ Alive(p)
  BY DEF SplitPipe, At, Staged, Stages, Alive
<1>2. StageRight(proc[p], fd[p]) /\ fd[p] \in [Fds -> Ends] /\ GoodProc(proc[p])
  BY <1>1, ProcTypes DEF Wired
<1>3. CASE Exits(p)
  BY <1>1, <1>3, OwnedExits DEF Family
<1>4. CASE /\ FreePipes # {}
           /\ Forks(p, [proc[p] EXCEPT !.pc = "left"],
                    [proc[p] EXCEPT !.pc = "right", !.stage = @ + 1],
                    WithPipe(fd[p], 3, 4, Min(FreePipes)))
  <2> DEFINE st == proc[p].stage
             r == [proc[p] EXCEPT !.pc = "left"]
             s == [proc[p] EXCEPT !.pc = "right", !.stage = @ + 1]
             k == Min(FreePipes)
             f == WithPipe(fd[p], 3, 4, k)
  <2>1. k \in FreePipes
    <3>1. FreePipes \in SUBSET Nat
      BY Numbers DEF FreePipes
    <3> QED BY <1>4, <3>1, SmallestOf
  <2>2. k \in Pipes /\ \A q \in Pids, e \in Fds : fd[q][e] \notin {<<"r", k>>, <<"w", k>>}
    BY <2>1 DEF FreePipes, Held
  <2> HIDE DEF k
  <2>3. f \in [Fds -> Ends]
    BY <1>2, <2>2, FdOperators
  <2>4. /\ f[0] = fd[p][0] /\ f[1] = fd[p][1] /\ f[3] = <<"r", k>> /\ f[4] = <<"w", k>>
        /\ f[5] = Closed /\ f[6] = Closed
    <3>1. fd[p][5] = Closed /\ fd[p][6] = Closed
      BY <1>1, <1>2 DEF Fds, StageRight
    <3> QED BY <1>2, <3>1 DEF WithPipe, Fds
  <2>5. Forks(p, r, s, f)
    BY <1>4 DEF k
  <2>6. st \in Nat \ {0}
    BY <1>2 DEF StageRight
  <2>7. GoodProc(r) /\ r.pc = "left" /\ r.line = proc[p].line /\ r.stage = st
    BY <1>2 DEF GoodProc, NoProc
  <2>8. GoodProc(s) /\ s.pc = "right" /\ s.line = proc[p].line /\ s.stage = st + 1
    BY <1>2 DEF GoodProc, NoProc
  <2> HIDE DEF r, s, f
  <2>9. \E c \in Pids \ {1, p} :
              /\ At(c, "none")
              /\ proc'[p] = r /\ proc'[c] = [s EXCEPT !.parent = p]
              /\ \A q \in Pids \ {p, c} : proc'[q] = proc[q]
              /\ fd'[p] = f /\ fd'[c] = f /\ \A q \in Pids \ {p, c} : fd'[q] = fd[q]
    BY <1>1, <2>3, <2>5, <2>7, <2>8, ForksKeeps DEF Family
  <2>10. PICK c \in Pids \ {1, p} :
              /\ At(c, "none")
              /\ proc'[p] = r /\ proc'[c] = [s EXCEPT !.parent = p]
              /\ \A q \in Pids \ {p, c} : proc'[q] = proc[q]
              /\ fd'[p] = f /\ fd'[c] = f /\ \A q \in Pids \ {p, c} : fd'[q] = fd[q]
    BY <2>9
  <2>11. proc'[c].pc = "right" /\ proc'[c].line = proc[p].line /\ proc'[c].stage = st + 1
    BY <2>8, <2>10 DEF GoodProc, NoProc
  <2>12. ASSUME NEW q \in Pids, NEW e \in Fds, End(fd[q][e]) PROVE fd[q][e][2] # k
    <3>1. fd[q][e] \in Ends
      BY DEF Family, Kernel, Descriptors
    <3>2. fd[q][e] \in {"r", "w"} \X Pipes
      BY <2>12, <3>1 DEF Ends, End, Closed, Tty, InFile, OutFile
    <3> QED BY <2>2, <3>2
  <2>13. ~End(fd[p][1]) /\ ~End(Closed) /\ {0, 1} \subseteq Fds
    BY <1>1 DEF Owned, At, End, Closed, Fds
  <2>14. ASSUME NEW q \in {p, c}, NEW e \in Fds, End(fd'[q][e])
         PROVE  /\ MayHave(q, e)
                /\ IsOf(q, e, k, proc[p].line, st) \/ WasThere(q, e)
    <3>1. fd'[q] = f /\ e \in {0, 3, 4}
      BY <2>4, <2>10, <2>13, <2>14 DEF Fds
    <3>2. proc'[q].line = proc[p].line
      BY <2>7, <2>10, <2>11
    <3>3. MayHave(q, e)
      <4>1. proc'[q].pc \in {"left", "right"} /\ q # 1 /\ e # 1
        <5>1. proc'[p].pc = "left" /\ proc'[c].pc = "right"
          BY <2>7, <2>10, <2>11
        <5>2. p # 1 /\ c # 1
          BY <2>10
        <5> QED BY <3>1, <5>1, <5>2
      <4> QED BY <4>1 DEF MayHave, Staged, Stages
    <3>4. CASE e = 0
      <4>1. Writer(proc'[q], 0) = Writer(proc[p], 0)
        <5>1. CASE q = p
          BY <1>1, <2>6, <2>7, <2>10, <5>1 DEF Writer
        <5>2. CASE q = c
          BY <1>1, <2>6, <2>11, <5>2 DEF Writer
        <5> QED BY <5>1, <5>2
      <4>2. IsOf(q, e, fd[p][0][2], proc[p].line, Writer(proc[p], 0)) /\ End(fd[p][0])
        BY <2>4, <2>14, <3>1, <3>2, <3>4, <4>1 DEF IsOf
      <4> QED BY <2>13, <3>3, <4>2 DEF WasThere
    <3>5. CASE e \in {3, 4}
      <4>1. Writer(proc'[q], e) = st
        <5>1. CASE q = p
          BY <2>6, <2>7, <2>10, <3>5, <5>1 DEF Writer
        <5>2. CASE q = c
          BY <2>6, <2>11, <3>5, <5>2 DEF Writer
        <5> QED BY <5>1, <5>2
      <4>2. fd'[q][e][2] = k
        BY <2>4, <3>1, <3>5
      <4> QED BY <3>2, <3>3, <4>1, <4>2 DEF IsOf
    <3> QED BY <3>1, <3>4, <3>5
  <2>15. ASSUME NEW q \in Pids \ {p, c}, NEW e \in Fds, End(fd'[q][e])
         PROVE  MayHave(q, e) /\ WasThere(q, e)
    <3>1. fd'[q] = fd[q] /\ (Staged(q) => Unmoved(q) /\ Staged(q)')
      BY <2>10, SameUnmoved DEF Staged
    <3> QED BY <1>1, <2>15, <3>1, SameEnds
  <2>16. \A q \in Pids, e \in Fds : End(fd'[q][e]) =>
           MayHave(q, e) /\ (IsOf(q, e, k, proc[p].line, st) \/ WasThere(q, e))
    BY <2>14, <2>15
  <2> QED BY <1>1, <2>12, <2>16, OwnedFrom
<1> QED BY <1>3, <1>4 DEF SplitPipe

\* A step of the shell itself.
LEMMA OwnedMain ==
  ASSUME Family, Wired, Owned, PFgets \/ PFgetsEof \/ PDoBuiltin \/ PRunCommand \/ PWaitpid
  PROVE  Owned'
<1>1. program = "HW5" /\ 1 \in Pids /\ DOMAIN proc = Pids /\ DOMAIN fd = Pids
  BY Numbers DEF PFgets, PFgetsEof, PDoBuiltin, PRunCommand, PWaitpid, Family, Kernel, Procs,
                 Descriptors
<1>2. Alive(1) /\ fd[1] = Terminal
  BY <1>1 DEF PFgets, PFgetsEof, PDoBuiltin, PRunCommand, PWaitpid, Alive, At, Wired
<1>3. CASE Exits(1)
  BY <1>1, <1>3, OwnedExits DEF Family
<1>4. ASSUME \A q \in Pids : \/ fd'[q] = Terminal
                             \/ /\ fd'[q] = fd[q] /\ proc'[q] = proc[q]
                             \/ /\ fd'[q] = fd[q] /\ ~Staged(q)
      PROVE  Owned'
  <2>1. ASSUME NEW q \in Pids
        PROVE  \/ fd'[q] \in {Terminal, NoFds}
               \/ fd'[q] = fd[q] /\ (Staged(q) => Unmoved(q) /\ Staged(q)')
    BY <1>4, SameUnmoved DEF Staged
  <2> QED BY <1>1, <2>1, OwnedRest DEF Family
<1>5. ASSUME NEW r, Becomes(1, r, fd[1]) PROVE Owned'
  <2>1. proc' = [proc EXCEPT ![1] = r] /\ fd' = [fd EXCEPT ![1] = fd[1]]
    BY <1>5 DEF Becomes, SetFds
  <2> QED BY <1>1, <1>2, <1>4, <2>1
<1>6. CASE PFgets \/ PDoBuiltin
  <2>1. Exits(1) \/ \E r : Becomes(1, r, fd[1])
    BY <1>6 DEF PFgets, PDoBuiltin, Goes
  <2> QED BY <1>3, <1>5, <2>1
<1>7. CASE PFgetsEof
  BY <1>3, <1>7 DEF PFgetsEof
<1>8. CASE PRunCommand
  <2>1. Exits(1) \/ \E r, s : Forks(1, r, s, fd[1])
    BY <1>8 DEF PRunCommand
  <2>2. ASSUME NEW r, NEW s, Forks(1, r, s, fd[1]) PROVE Owned'
    <3>1. PICK c \in Pids \ {1} : /\ proc' = [proc EXCEPT ![1] = r, ![c] = [s EXCEPT !.parent = 1]]
                                  /\ fd' = [fd EXCEPT ![1] = fd[1], ![c] = fd[1]]
      BY <2>2, NextPid DEF Forks, SetFds
    <3> QED BY <1>1, <1>2, <1>4, <3>1
  <2> QED BY <1>3, <2>1, <2>2
<1>9. CASE PWaitpid
  <2>1. PICK q \in Pids : Reaps(1, q, "start")
    BY <1>9 DEF PWaitpid
  <2>2. fd' = fd /\ ~Staged(q) /\ \A x \in Pids \ {1, q} : proc'[x] = proc[x]
    BY <1>1, <2>1 DEF Reaps, Staged, Stages, At
  <2> QED BY <1>2, <1>4, <2>2
<1> QED BY <1>6, <1>7, <1>8, <1>9

\* Every step keeps Owned.
LEMMA OwnedStep == ProcessInv /\ Wired /\ Owned /\ [ProcessNext]_processVars => Owned'
<1> SUFFICES ASSUME ProcessInv, Wired, Owned, [ProcessNext]_processVars PROVE Owned'
  OBVIOUS
<1>1. program' = program /\ Family /\ Kernel
  BY ProgramKept DEF ProcessInv, Family
<1>2. CASE program # "HW5"
  BY <1>1, <1>2 DEF Owned
<1>3. CASE program = "HW5"
  <2>1. CASE UNCHANGED processVars
    <3>1. \A q \in Pids : proc'[q] = proc[q] /\ fd'[q] = fd[q]
      BY <2>1 DEF processVars
    <3>2. \A q \in Pids : Staged(q) => Unmoved(q) /\ Staged(q)'
      BY <3>1, SameUnmoved DEF Staged
    <3> QED BY <1>1, <1>3, <3>1, <3>2, OwnedRest
  <2>2. ASSUME NEW p \in Pids, PipeShellStep(p) PROVE Owned'
    <3>1. CASE p = 1 /\ (PFgets \/ PFgetsEof \/ PDoBuiltin \/ PRunCommand \/ PWaitpid)
      BY <1>1, <3>1, OwnedMain
    <3>2. CASE Redirect(p) \/ ExecWhole(p) \/ SplitPipe(p) \/ LeftExec(p) \/ RightRedirect(p)
      <4>1. p # 1 /\ Staged(p)
        BY <1>1, <3>2 DEF Family, Main, At, Prompt, MainCalls, Staged, Stages, Redirect,
                          ExecWhole, SplitPipe, LeftExec, RightRedirect
      <4>2. StageRight(proc[p], fd[p]) /\ fd[p] \in [Fds -> Ends]
        BY <1>1, <1>3, <4>1, ProcTypes DEF Wired
      <4>3. CASE ExecWhole(p)
        <5>1. Exits(p) \/ Execs(p, proc[p].argv, fd[p])
          BY <4>3 DEF ExecWhole
        <5>2. proc[p].pc = "pipe_and_exec"
          BY <4>3 DEF ExecWhole, At
        <5>3. \A e \in Fds \ {0, 1} : fd[p][e] = Closed
          BY <4>2, <5>2 DEF StageRight
        <5> QED BY <1>1, <1>3, <4>1, <4>2, <5>1, <5>2, <5>3, OwnedExits, OwnedExecs
      <4>4. CASE LeftExec(p)
        <5> DEFINE f == Close(Dup2(fd[p], 4, 1), {3, 4})
        <5>1. PICK words : Execs(p, words, f)
          BY <4>4 DEF LeftExec
        <5>2. proc[p].pc = "left"
          BY <4>4 DEF LeftExec, At
        <5>3. f \in [Fds -> Ends]
          BY <4>2, FdOperators
        <5>4. /\ f[0] = fd[p][0] /\ f[1] = fd[p][4] /\ \A e \in Fds \ {0, 1} : f[e] = Closed
          <6>1. fd[p][5] = Closed /\ fd[p][6] = Closed
            BY <4>2, <5>2 DEF StageRight
          <6> QED BY <4>2, <6>1 DEF Close, Dup2, Fds
        <5> HIDE DEF f
        <5> QED BY <1>1, <1>3, <4>1, <5>1, <5>2, <5>3, <5>4, OwnedExecs
      <4> QED BY <1>1, <3>2, <4>1, <4>3, <4>4, OwnedRedirects, OwnedSplits, OwnedRightRedirects
    <3> QED BY <2>2, <3>1, <3>2 DEF PipeShellStep
  <2>3. ASSUME NEW p \in Pids, Step(p) PROVE Owned'
    BY <1>1, <1>3, <2>2, <2>3, OnlyItsSteps, OwnedRuns
  <2>4. ASSUME NEW p \in Pids, ChildDies(p) PROVE Owned'
    BY <1>1, <1>3, <2>4, OwnedExits DEF ChildDies
  <2> QED BY <2>1, <2>3, <2>4 DEF ProcessNext
<1> QED BY <1>2, <1>3

\* Nothing has an end of a pipe when the program starts.
LEMMA OwnedInitial == ASSUME ProcessInit PROVE Owned
<1>1. \A p \in Pids : fd[p] \in {Terminal, NoFds}
  <2>1. ASSUME NEW p \in Pids PROVE fd[p] = [e \in Fds |-> IF p = 1 THEN Terminal[e] ELSE Closed]
    BY DEF ProcessInit, KernelInit
  <2> QED BY <2>1 DEF Terminal, NoFds
<1>2. \A p \in Pids, e \in Fds : ~End(fd[p][e])
  BY <1>1, NoEnds
<1> QED BY <1>2 DEF Owned

\* EndsShared, for any number of processes, pipes and lines typed, and any lines: the
\* ends of a pipe stay within a line of HW5, and of the commands in it only the one
\* that writes the pipe and the next one, which reads it, have any.
THEOREM OnlyNeighbours == ProcessSpec => []EndsShared
<1>1. ProcessInit => ProcessInv /\ Wired /\ Owned
  BY ProcessInitial, WiredInitial, OwnedInitial
<1>2. (ProcessInv /\ Wired /\ Owned) /\ [ProcessNext]_processVars => (ProcessInv /\ Wired /\ Owned)'
  BY ProcessStep, WiredStep, OwnedStep
<1>3. ProcessInv /\ Wired /\ Owned => EndsShared
  <2> SUFFICES ASSUME ProcessInv, Wired, Owned, program = "HW5",
                      NEW p \in Pids, NEW q \in Pids, NEW d \in Fds, NEW e \in Fds,
                      End(fd[p][d]), End(fd[q][e]), fd[p][d][2] = fd[q][e][2]
               PROVE  /\ proc[p].line = proc[q].line
                      /\ At(p, "run") /\ At(q, "run") =>
                           \/ p = q /\ d = e
                           \/ d = 1 /\ e = 0 /\ proc[q].stage = proc[p].stage + 1
                           \/ d = 0 /\ e = 1 /\ proc[p].stage = proc[q].stage + 1
    BY DEF EndsShared, End
  <2>1. Staged(p) /\ Staged(q) /\ SameLine(p, q) /\ Writer(proc[p], d) = Writer(proc[q], e)
        /\ proc[p].line = proc[q].line
    BY DEF Owned, SameLine
  <2>2. ASSUME At(p, "run"), At(q, "run")
        PROVE  \/ p = q /\ d = e
               \/ d = 1 /\ e = 0 /\ proc[q].stage = proc[p].stage + 1
               \/ d = 0 /\ e = 1 /\ proc[p].stage = proc[q].stage + 1
    <3>1. StageRight(proc[p], fd[p]) /\ StageRight(proc[q], fd[q])
      BY <2>1 DEF Wired
    <3>2. proc[p].stage \in Nat /\ proc[q].stage \in Nat
      BY <3>1 DEF StageRight
    <3>3. d \in {0, 1} /\ e \in {0, 1}
      BY <2>2, <3>1 DEF StageRight, At, End, Closed
    <3>4. proc[p].stage = proc[q].stage => p = q
      BY <2>1 DEF Wired
    <3>5. /\ Writer(proc[p], d) = IF d = 0 THEN proc[p].stage - 1 ELSE proc[p].stage
          /\ Writer(proc[q], e) = IF e = 0 THEN proc[q].stage - 1 ELSE proc[q].stage
      BY <2>2, <3>2 DEF Writer, At
    <3>6. CASE d = e
      <4>1. proc[p].stage = proc[q].stage
        <5>1. CASE d = 0
          <6>1. Writer(proc[p], d) = proc[p].stage - 1 /\ Writer(proc[q], e) = proc[q].stage - 1
            BY <3>5, <3>6, <5>1
          <6>2. proc[p].stage - 1 = proc[q].stage - 1
            BY <2>1, <6>1
          <6> QED BY <3>2, <6>2
        <5>2. CASE d = 1
          <6>1. Writer(proc[p], d) = proc[p].stage /\ Writer(proc[q], e) = proc[q].stage
            BY <3>5, <3>6, <5>2
          <6> QED BY <2>1, <6>1
        <5> QED BY <3>3, <5>1, <5>2
      <4> QED BY <3>4, <3>6, <4>1
    <3>7. CASE d = 1 /\ e = 0
      <4>1. Writer(proc[p], d) = proc[p].stage /\ Writer(proc[q], e) = proc[q].stage - 1
        BY <3>5, <3>7
      <4>2. proc[p].stage = proc[q].stage - 1
        BY <2>1, <4>1
      <4> QED BY <3>2, <3>7, <4>2
    <3>8. CASE d = 0 /\ e = 1
      <4>1. Writer(proc[p], d) = proc[p].stage - 1 /\ Writer(proc[q], e) = proc[q].stage
        BY <3>5, <3>8
      <4>2. proc[p].stage - 1 = proc[q].stage
        BY <2>1, <4>1
      <4> QED BY <3>2, <3>8, <4>2
    <3> QED BY <3>3, <3>6, <3>7, <3>8
  <2> QED BY <2>1, <2>2
<1> QED BY <1>1, <1>2, <1>3, PTL DEF ProcessSpec

\* WiredAsWritten: what the stages of HW5's pipelines are and are connected to, and that
\* only neighbours are, for any number of processes, pipes and lines typed, in whatever
\* order the processes of the line, of other lines and the shell step.
THEOREM PipelinesWired == ProcessSpec => []WiredAsWritten
BY StagesWired, OnlyNeighbours, PTL DEF WiredAsWritten
=============================================================================
