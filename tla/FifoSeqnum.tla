----------------------------- MODULE FifoSeqnum -----------------------------
(***************************************************************************)
(* HW8/44_6: fifo_seqnum_server.c reads requests from one well-known FIFO   *)
(* and answers each through the FIFO of the client that sent it, which it   *)
(* opens without blocking.  fifo_seqnum_client.c creates its FIFO, sends    *)
(* its request and only then opens the FIFO to read the answer;             *)
(* fifo_seqnum_client_misbehave.c exits instead of opening it.              *)
(*                                                                          *)
(* A FIFO open is modelled as Linux does it: open(O_RDONLY) and             *)
(* open(O_WRONLY) wait for each other, and one that waits already counts as *)
(* a reader or a writer.  What is in a FIFO is kept as long as some process *)
(* has it open: a server that is started again finds requests of the run    *)
(* before.                                                                  *)
(***************************************************************************)
EXTENDS Naturals, Sequences

CONSTANTS Clients,     \* fifo_seqnum_client processes, named by their pids
          Misbehaving, \* those that run fifo_seqnum_client_misbehave instead
          SeqLens,     \* lengths a client may ask for
          NoGrant, NoClient,
          MaxRuns      \* bound: server runs

ASSUME ConstAssumption ==
    /\ Misbehaving \subseteq Clients
    /\ SeqLens \subseteq Nat \ {0}
    /\ NoClient \notin Clients
    /\ NoGrant \notin [run : Nat, first : Nat, len : Nat]
    /\ MaxRuns \in Nat

VARIABLES serverFifo,          \* requests in SERVER_FIFO, oldest first
          run,                 \* number of server runs
          spc, seqNum, req,    \* server: next call, seqNum, request being served
          clientFd,            \* client whose FIFO the server has open
          cpc, clen, cgot,     \* clients: next call, seqLen, number printed
          reply,               \* response in a client's FIFO, NoGrant if empty
          granted, handed,     \* history: responses written, numbers used up
          opener               \* history: the run that has opened a client's FIFO

serverVars == <<run, spc, seqNum, req, clientFd>>
history == <<granted, handed, opener>>
vars == <<serverFifo, serverVars, cpc, clen, cgot, reply, history>>

Request == [pid : Clients, seqLen : SeqLens]
NoRequest == [pid |-> NoClient, seqLen |-> 0]

Init ==
    /\ serverFifo = <<>>
    /\ run = 0 /\ spc = "off" /\ seqNum = 0 /\ req = NoRequest /\ clientFd = NoClient
    /\ cpc = [c \in Clients |-> "mkfifo"]
    /\ clen \in [Clients -> SeqLens]
    /\ cgot = [c \in Clients |-> 0]
    /\ reply = [c \in Clients |-> NoGrant]
    /\ granted = [c \in Clients |-> NoGrant] /\ handed = 0
    /\ opener = [c \in Clients |-> 0]

Off == spc \in {"off", "killed"}

\* Clients keep SERVER_FIFO open for writing until they end; one that still waits
\* in open counts.
Writers(calls) ==
    {c \in Clients : calls[c] \in {"waits", "write", "openOwn", "opening", "read"}}

\* What is left in SERVER_FIFO when the clients' next calls are these.
Kept(requests, calls) == IF Off /\ Writers(calls) = {} THEN <<>> ELSE requests
-----------------------------------------------------------------------------
(* The server *)

\* A run begins: mkfifo, EEXIST tolerated, then open(SERVER_FIFO, O_RDONLY),
\* which waits unless clients have the FIFO open, or wait to, and wakes these.
SMkfifo ==
    /\ Off /\ run < MaxRuns
    /\ run' = run + 1 /\ seqNum' = 0 /\ req' = NoRequest /\ handed' = 0
    /\ spc' = IF Writers(cpc) = {} THEN "openServer" ELSE "openDummy"
    /\ cpc' = [c \in Clients |-> IF cpc[c] = "waits" THEN "write" ELSE cpc[c]]
    /\ UNCHANGED <<serverFifo, clientFd, clen, cgot, reply, granted, opener>>

\* The dummy write descriptor, and SIGPIPE ignored.
SOpenDummy ==
    /\ spc = "openDummy"
    /\ spc' = "read"
    /\ UNCHANGED <<run, serverFifo, seqNum, req, clientFd, cpc, clen, cgot, reply, history>>

\* Mutant of SRead: whatever else is in the FIFO is read and dropped.
SReadAll ==
    /\ spc = "read" /\ serverFifo # <<>>
    /\ req' = Head(serverFifo)
    /\ serverFifo' = <<>>
    /\ spc' = "open"
    /\ UNCHANGED <<run, seqNum, clientFd, cpc, clen, cgot, reply, history>>

SRead ==
    /\ spc = "read" /\ serverFifo # <<>>
    /\ req' = Head(serverFifo)
    /\ serverFifo' = Tail(serverFifo)
    /\ spc' = "open"
    /\ UNCHANGED <<run, seqNum, clientFd, cpc, clen, cgot, reply, history>>

\* Mutant of SOpen: O_NONBLOCK is missing.
SOpenBlocking ==
    /\ spc = "open" /\ cpc[req.pid] = "opening"
    /\ clientFd' = req.pid
    /\ cpc' = [cpc EXCEPT ![req.pid] = "read"]
    /\ opener' = [opener EXCEPT ![req.pid] = run]
    /\ spc' = "write"
    /\ UNCHANGED <<run, serverFifo, seqNum, req, clen, cgot, reply, granted, handed>>

\* open(O_WRONLY | O_NONBLOCK) succeeds only if the client waits in its own
\* open, which it completes; otherwise ENXIO: give up on the client.
SOpen ==
    /\ spc = "open"
    /\ IF cpc[req.pid] = "opening"
       THEN /\ clientFd' = req.pid
            /\ cpc' = [cpc EXCEPT ![req.pid] = "read"]
            /\ opener' = [opener EXCEPT ![req.pid] = run]
            /\ spc' = "write"
       ELSE spc' = "read" /\ UNCHANGED <<clientFd, cpc, opener>>
    /\ UNCHANGED <<run, serverFifo, seqNum, req, clen, cgot, reply, granted, handed>>

\* The write fails (EPIPE) if the client died after the open; either way the
\* server believes that the numbers are used.
SWrite ==
    /\ spc = "write"
    /\ handed' = seqNum + req.seqLen
    /\ granted' = [granted EXCEPT ![req.pid] =
                     [run |-> run, first |-> seqNum, len |-> req.seqLen]]
    /\ reply' = IF cpc[req.pid] = "read"
                THEN [reply EXCEPT ![req.pid] = granted'[req.pid]]
                ELSE reply
    /\ spc' = "close"
    /\ UNCHANGED <<run, serverFifo, seqNum, req, clientFd, cpc, clen, cgot, opener>>

\* Mutant of SClose: seqNum++ in place of seqNum += req.seqLen.
SCloseByOne ==
    /\ spc = "close"
    /\ clientFd' = NoClient
    /\ seqNum' = seqNum + 1
    /\ spc' = "read"
    /\ UNCHANGED <<run, serverFifo, req, cpc, clen, cgot, reply, history>>

\* close(clientFd), then seqNum is updated.
SClose ==
    /\ spc = "close"
    /\ clientFd' = NoClient
    /\ seqNum' = seqNum + req.seqLen
    /\ spc' = "read"
    /\ UNCHANGED <<run, serverFifo, req, cpc, clen, cgot, reply, history>>

\* A signal ends the server; its descriptors are closed.
SKilled ==
    /\ ~Off
    /\ spc' = "killed"
    /\ clientFd' = NoClient
    /\ serverFifo' = IF Writers(cpc) = {} THEN <<>> ELSE serverFifo
    /\ UNCHANGED <<run, seqNum, req, cpc, clen, cgot, reply, history>>
-----------------------------------------------------------------------------
(* The clients *)

CMkfifo(c) ==
    /\ cpc[c] = "mkfifo"
    /\ cpc' = [cpc EXCEPT ![c] = "openServer"]
    /\ UNCHANGED <<serverFifo, serverVars, clen, cgot, reply, history>>

\* open(SERVER_FIFO, O_WRONLY): fails if the server has not made the FIFO yet
\* (the client unlinks its own and exits), waits until the server opens it for
\* reading, and completes that open if the server waits there.
CNoServerFifo(c) ==
    /\ cpc[c] = "openServer" /\ run = 0
    /\ cpc' = [cpc EXCEPT ![c] = "failed"]
    /\ UNCHANGED <<serverFifo, serverVars, clen, cgot, reply, history>>

CWaitServer(c) ==
    /\ cpc[c] = "openServer" /\ run > 0 /\ Off
    /\ cpc' = [cpc EXCEPT ![c] = "waits"]
    /\ UNCHANGED <<serverFifo, serverVars, clen, cgot, reply, history>>

COpenServer(c) ==
    /\ cpc[c] = "openServer" /\ ~Off
    /\ cpc' = [cpc EXCEPT ![c] = "write"]
    /\ spc' = IF spc = "openServer" THEN "openDummy" ELSE spc
    /\ UNCHANGED <<serverFifo, run, seqNum, req, clientFd, clen, cgot, reply, history>>

\* The request is written at once (it is shorter than PIPE_BUF).
CWrite(c) ==
    /\ cpc[c] = "write" /\ ~Off
    /\ serverFifo' = Append(serverFifo, [pid |-> c, seqLen |-> clen[c]])
    /\ cpc' = [cpc EXCEPT ![c] = IF c \in Misbehaving THEN "done" ELSE "openOwn"]
    /\ UNCHANGED <<serverVars, clen, cgot, reply, history>>

\* Nobody reads SERVER_FIFO any more: SIGPIPE, and the client's FIFO stays.
CSigpipe(c) ==
    /\ cpc[c] = "write" /\ Off
    /\ cpc' = [cpc EXCEPT ![c] = "killed"]
    /\ serverFifo' = Kept(serverFifo, cpc')
    /\ UNCHANGED <<serverVars, clen, cgot, reply, history>>

\* Mutant of COpenOwn: O_RDONLY | O_NONBLOCK.
COpenOwnNonblock(c) ==
    /\ cpc[c] = "openOwn"
    /\ cpc' = [cpc EXCEPT ![c] = "read"]
    /\ UNCHANGED <<serverFifo, serverVars, clen, cgot, reply, history>>

\* open(clientFifo, O_RDONLY) starts to wait for the server.
COpenOwn(c) ==
    /\ cpc[c] = "openOwn"
    /\ cpc' = [cpc EXCEPT ![c] = "opening"]
    /\ UNCHANGED <<serverFifo, serverVars, clen, cgot, reply, history>>

CRead(c) ==
    /\ cpc[c] = "read" /\ reply[c] # NoGrant
    /\ cgot' = [cgot EXCEPT ![c] = reply[c].first]
    /\ reply' = [reply EXCEPT ![c] = NoGrant]
    /\ cpc' = [cpc EXCEPT ![c] = "done"]
    /\ serverFifo' = Kept(serverFifo, cpc')
    /\ UNCHANGED <<serverVars, clen, history>>

\* The server closed the FIFO, or died, without writing: end of file.
CEof(c) ==
    /\ cpc[c] = "read" /\ reply[c] = NoGrant /\ clientFd # c
    /\ cpc' = [cpc EXCEPT ![c] = "failed"]
    /\ serverFifo' = Kept(serverFifo, cpc')
    /\ UNCHANGED <<serverVars, clen, cgot, reply, history>>

\* A signal ends a client; atexit does not run, the FIFO stays without a reader.
CKilled(c) ==
    /\ c \in Writers(cpc)
    /\ cpc' = [cpc EXCEPT ![c] = "killed"]
    /\ reply' = [reply EXCEPT ![c] = NoGrant]
    /\ serverFifo' = Kept(serverFifo, cpc')
    /\ UNCHANGED <<serverVars, clen, cgot, history>>
-----------------------------------------------------------------------------
ServerStep == SOpenDummy \/ SRead \/ SOpen \/ SWrite \/ SClose

ClientStep(c) ==
    \/ CMkfifo(c) \/ CNoServerFifo(c) \/ CWaitServer(c) \/ COpenServer(c) \/ CWrite(c)
    \/ CSigpipe(c) \/ COpenOwn(c) \/ CRead(c) \/ CEof(c)

Next == \/ SMkfifo \/ ServerStep \/ SKilled
        \/ \E c \in Clients : ClientStep(c) \/ CKilled(c)

Spec == Init /\ [][Next]_vars

\* Nobody starts or kills a process; once started every process runs on.
FairSpec == /\ Spec
            /\ WF_vars(ServerStep)
            /\ \A c \in Clients : WF_vars(ClientStep(c))
-----------------------------------------------------------------------------
(* Properties *)

Grant == [run : 1..MaxRuns, first : Nat, len : SeqLens]

\* Every variable keeps its type, and the server has a client's FIFO open
\* exactly while it answers that client.
TypeOK ==
    /\ serverFifo \in Seq(Request)
    /\ run \in 0..MaxRuns /\ opener \in [Clients -> 0..run]
    /\ spc \in {"off", "openServer", "openDummy", "read", "open", "write",
                "close", "killed"}
    /\ seqNum \in Nat /\ req \in Request \union {NoRequest}
    /\ spc \in {"open", "write", "close"} => req \in Request
    /\ clientFd = IF spc \in {"write", "close"} THEN req.pid ELSE NoClient
    /\ cpc \in [Clients -> {"mkfifo", "openServer", "waits", "write", "openOwn", "opening",
                            "read", "done", "failed", "killed"}]
    /\ clen \in [Clients -> SeqLens] /\ cgot \in [Clients -> Nat]
    /\ reply \in [Clients -> Grant \union {NoGrant}]
    /\ granted \in [Clients -> Grant \union {NoGrant}] /\ handed \in Nat

\* A client fails on end of file only because a process was killed: while the
\* server run that opened its FIFO goes on, the FIFO is never closed before the
\* answer is in it.
\* (Stated together with the types.)
NoSpuriousEof ==
    /\ TypeOK
    /\ \A c \in Clients \ Misbehaving : cpc[c] = "read" =>
           \/ clientFd = c \/ reply[c] # NoGrant
           \/ opener[c] \in 1..(IF spc = "killed" THEN run ELSE run - 1)

\* A client that fails to open its FIFO, as the misbehaving one does, does not
\* keep the server from any other request: each request sent, to this run or left
\* from the run before, is taken from the FIFO and dealt with, unless the server
\* is killed.
RequestsServed ==
    \A c \in Clients :
        (~Off /\ \E i \in DOMAIN serverFifo : serverFifo[i].pid = c)
            ~> (spc = "killed" \/ (spc = "open" /\ req.pid = c))

\* A client that waits in its open before the server turns to its request gets
\* its number, whatever the other clients do, also from a server that was started
\* after the one it wrote its request for.
AnsweredIfOpening ==
    \A c \in Clients :
        (~Off /\ cpc[c] = "opening" /\ \E i \in DOMAIN serverFifo : serverFifo[i].pid = c)
            ~> (cpc[c] \in {"done", "killed"} \/ spc = "killed")

\* The server implements the service; a client it gives up on gets nothing and
\* uses up nothing.
Service == INSTANCE SeqnumService
             WITH epoch <- run, next <- handed, Lens <- SeqLens
ImplementsService == Service!Spec
=============================================================================
