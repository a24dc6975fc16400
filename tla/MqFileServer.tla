---------------------------- MODULE MqFileServer ----------------------------
(***************************************************************************)
(* HW9/52_3: server.c takes requests for files from the POSIX message queue *)
(* /server_mq and sends each file, chunk by chunk, to the queue that the    *)
(* client made for itself, then a message that begins with NUL.  Both kinds *)
(* of queue hold attr.mq_maxmsg messages and outlive the processes.         *)
(*                                                                          *)
(* All that matters of a chunk is whether it begins with NUL; the client    *)
(* takes such a chunk for the end.  Chunks count as one byte each.  A read  *)
(* that fails, as of a directory, is the "error" in place of the chunk: no  *)
(* place in a file is read twice for one client.  mq_send blocks but cannot *)
(* fail: the queue is open and the message has its size.                    *)
(***************************************************************************)
EXTENDS Naturals, Sequences, FiniteSets, SequencesExt

CONSTANTS Clients,    \* client processes, named by their pids
          Files,      \* contents asked for: sequences of "text", "nul" and "error"
          Missing,    \* a file that the server cannot open
          MAXMSG,     \* attr.mq_maxmsg
          OPEN_MAX,   \* descriptors the server may have open, its queue included
          MaxRuns     \* bound: server runs

ASSUME ConstAssumption ==
    /\ IsFiniteSet(Clients)
    /\ Files \subseteq Seq({"text", "nul", "error"}) /\ Missing \notin Files
    /\ MAXMSG \in Nat \ {0} /\ OPEN_MAX \in Nat \ {0} /\ MaxRuns \in Nat \ {0}

VARIABLES serverMq, exists,   \* requests in /server_mq; has it been created?
          mq,                 \* messages in each client's queue
          file,               \* the file each client asks for
          run, spc, req,      \* server: number of runs, next call, server_req
          pos, fds,           \* chunks read of the file, open descriptors
          zeroed,             \* server_res holds nothing but what is read into it
          cpc, got, bytes     \* clients: next call, chunks taken, receive_byte_num

serverVars == <<run, spc, req, pos, fds, zeroed>>
clientVars == <<cpc, got, bytes>>
vars == <<serverMq, exists, mq, file, run, spc, req, pos, fds, zeroed,
          cpc, got, bytes>>

EndMark == [nul |-> TRUE, chunk |-> 0, zeroed |-> TRUE]

Init ==
    /\ serverMq = <<>> /\ exists = FALSE
    /\ mq = [c \in Clients |-> <<>>]
    /\ file \in [Clients -> Files \union {Missing}]
    /\ run = 0 /\ spc = "off" /\ req \in Clients
    /\ pos = 0 /\ fds = 0 /\ zeroed = FALSE
    /\ cpc = [c \in Clients |-> "off"]
    /\ got = [c \in Clients |-> <<>>]
    /\ bytes = [c \in Clients |-> 0]
-----------------------------------------------------------------------------
(* The server *)

\* mq_open(O_CREAT): the requests of an earlier run are still there.  What the
\* stack holds where server_res will be is anything.
SStart ==
    /\ spc \in {"off", "killed"} /\ run < MaxRuns
    /\ run' = run + 1 /\ exists' = TRUE
    /\ zeroed' \in BOOLEAN /\ fds' = 1
    /\ spc' = "receive"
    /\ UNCHANGED <<serverMq, mq, file, req, pos, clientVars>>

SReceive ==
    /\ spc = "receive" /\ serverMq # <<>>
    /\ req' = Head(serverMq) /\ serverMq' = Tail(serverMq)
    /\ spc' = "openClient"
    /\ UNCHANGED <<exists, mq, file, run, pos, fds, zeroed, clientVars>>

\* The client's queue exists; the call fails only for want of a descriptor.
SOpenClient ==
    /\ spc = "openClient"
    /\ IF fds < OPEN_MAX THEN fds' = fds + 1 /\ spc' = "openFile"
                         ELSE fds' = fds /\ spc' = "receive"
    /\ UNCHANGED <<serverMq, exists, mq, file, run, req, pos, zeroed, clientVars>>

\* Mutant of SOpenFile: exit(1) in place of "continue".
SOpenFileExits ==
    /\ spc = "openFile" /\ pos' = 0
    /\ IF file[req] # Missing /\ fds < OPEN_MAX
       THEN fds' = fds + 1 /\ spc' = "read"
       ELSE fds' = fds /\ spc' = "off"
    /\ UNCHANGED <<serverMq, exists, mq, file, run, req, zeroed, clientVars>>

\* A file that cannot be opened: "continue", with the client's queue open.
SOpenFile ==
    /\ spc = "openFile" /\ pos' = 0
    /\ IF file[req] # Missing /\ fds < OPEN_MAX
       THEN fds' = fds + 1 /\ spc' = "read"
       ELSE fds' = fds /\ spc' = "receive"
    /\ UNCHANGED <<serverMq, exists, mq, file, run, req, zeroed, clientVars>>

\* Nothing is left to be read of this file, or the next read fails.
AtEnd(f, n) == n = Len(f) \/ f[n + 1] = "error"

\* read() of the next chunk; close() at the end of file and when it fails, which
\* the loop (> 0) does not tell apart.
SRead ==
    /\ spc = "read"
    /\ IF ~AtEnd(file[req], pos)
       THEN pos' = pos + 1 /\ fds' = fds /\ spc' = "send"
       ELSE pos' = pos /\ fds' = fds - 1 /\ spc' = "sendEnd"
    /\ UNCHANGED <<serverMq, exists, mq, file, run, req, zeroed, clientVars>>

Chunk == [nul |-> file[req][pos] = "nul", chunk |-> pos, zeroed |-> zeroed]

\* Mutant of SSend: without the memset.
SSendNoMemset ==
    /\ spc = "send" /\ Len(mq[req]) < MAXMSG
    /\ mq' = [mq EXCEPT ![req] = Append(@, Chunk)]
    /\ spc' = "read"
    /\ UNCHANGED <<serverMq, exists, file, run, req, pos, fds, zeroed, clientVars>>

\* Mutant of SSend: O_NONBLOCK, a chunk that finds no room is skipped.
SSendNonblock ==
    /\ spc = "send"
    /\ mq' = IF Len(mq[req]) < MAXMSG
             THEN [mq EXCEPT ![req] = Append(@, Chunk)] ELSE mq
    /\ zeroed' = TRUE /\ spc' = "read"
    /\ UNCHANGED <<serverMq, exists, file, run, req, pos, fds, clientVars>>

\* mq_send of the chunk, then memset of server_res.
SSend ==
    /\ spc = "send" /\ Len(mq[req]) < MAXMSG
    /\ mq' = [mq EXCEPT ![req] = Append(@, Chunk)]
    /\ zeroed' = TRUE /\ spc' = "read"
    /\ UNCHANGED <<serverMq, exists, file, run, req, pos, fds, clientVars>>

\* The end mark, then mq_close(mq_client).
SSendEnd ==
    /\ spc = "sendEnd" /\ Len(mq[req]) < MAXMSG
    /\ mq' = [mq EXCEPT ![req] = Append(@, EndMark)]
    /\ fds' = fds - 1 /\ spc' = "receive"
    /\ UNCHANGED <<serverMq, exists, file, run, req, pos, zeroed, clientVars>>

\* The loop has no end: only a signal stops the server, anywhere in it.
SKilled ==
    /\ spc \notin {"off", "killed"}
    /\ spc' = "killed" /\ fds' = 0
    /\ UNCHANGED <<serverMq, exists, mq, file, run, req, pos, zeroed, clientVars>>
-----------------------------------------------------------------------------
(* The clients *)

CCreate(c) ==
    /\ cpc[c] = "off"
    /\ cpc' = [cpc EXCEPT ![c] = "openServer"]
    /\ UNCHANGED <<serverMq, exists, mq, file, serverVars, got, bytes>>

COpenServer(c) ==
    /\ cpc[c] = "openServer"
    /\ cpc' = [cpc EXCEPT ![c] = IF exists THEN "send" ELSE "failed"]
    /\ UNCHANGED <<serverMq, exists, mq, file, serverVars, got, bytes>>

CSend(c) ==
    /\ cpc[c] = "send" /\ Len(serverMq) < MAXMSG
    /\ serverMq' = Append(serverMq, c)
    /\ cpc' = [cpc EXCEPT ![c] = "receive"]
    /\ UNCHANGED <<exists, mq, file, serverVars, got, bytes>>

\* Mutant of CReceive: one message is taken for the whole answer.
CReceiveOnce(c) ==
    /\ cpc[c] = "receive" /\ mq[c] # <<>>
    /\ mq' = [mq EXCEPT ![c] = Tail(@)]
    /\ cpc' = [cpc EXCEPT ![c] = "unlink"]
    /\ UNCHANGED <<serverMq, exists, file, serverVars, got, bytes>>

\* mq_receive; strlen(data) runs on into what the server's stack held.
CReceive(c) ==
    /\ cpc[c] = "receive" /\ mq[c] # <<>>
    /\ mq' = [mq EXCEPT ![c] = Tail(@)]
    /\ IF Head(mq[c]).nul
       THEN /\ cpc' = [cpc EXCEPT ![c] = "unlink"]
            /\ UNCHANGED <<got, bytes>>
       ELSE /\ got' = [got EXCEPT ![c] = Append(@, Head(mq[c]).chunk)]
            /\ \E n \in IF Head(mq[c]).zeroed THEN {1} ELSE {1, 2} :
                 bytes' = [bytes EXCEPT ![c] = @ + n]
            /\ cpc' = cpc
    /\ UNCHANGED <<serverMq, exists, file, serverVars>>

\* mq_close and mq_unlink; the server may still have the queue open.
CUnlink(c) ==
    /\ cpc[c] = "unlink"
    /\ cpc' = [cpc EXCEPT ![c] = "done"]
    /\ UNCHANGED <<serverMq, exists, mq, file, serverVars, got, bytes>>

\* A signal ends a client; its queue and its request stay.
CKilled(c) ==
    /\ cpc[c] \in {"openServer", "send", "receive", "unlink"}
    /\ cpc' = [cpc EXCEPT ![c] = "killed"]
    /\ UNCHANGED <<serverMq, exists, mq, file, serverVars, got, bytes>>
-----------------------------------------------------------------------------
ServerStep ==
    SReceive \/ SOpenClient \/ SOpenFile \/ SRead \/ SSend \/ SSendEnd

ClientStep(c) == COpenServer(c) \/ CSend(c) \/ CReceive(c) \/ CUnlink(c)

Next ==
    \/ SStart \/ ServerStep \/ SKilled
    \/ \E c \in Clients : CCreate(c) \/ ClientStep(c) \/ CKilled(c)

Spec == Init /\ [][Next]_vars

\* A started process runs on; nobody has to be started or killed.
FairSpec == /\ Spec
            /\ WF_vars(ServerStep)
            /\ \A c \in Clients : WF_vars(ClientStep(c))
-----------------------------------------------------------------------------
(* Properties *)

Message == [nul : BOOLEAN, chunk : Nat, zeroed : BOOLEAN]

\* Every variable keeps its type, no queue holds more than mq_maxmsg messages,
\* and the server never has more descriptors than it may.
TypeOK ==
    /\ serverMq \in Seq(Clients) /\ Len(serverMq) =< MAXMSG /\ exists \in BOOLEAN
    /\ mq \in [Clients -> Seq(Message)] /\ \A c \in Clients : Len(mq[c]) =< MAXMSG
    /\ file \in [Clients -> Files \union {Missing}]
    /\ run \in 0..MaxRuns /\ req \in Clients /\ pos \in Nat
    /\ fds \in 0..OPEN_MAX /\ zeroed \in BOOLEAN
    /\ spc \in {"off", "killed", "receive", "openClient", "openFile", "read",
                "send", "sendEnd"}
    /\ cpc \in [Clients -> {"off", "openServer", "send", "receive", "unlink",
                            "done", "failed", "killed"}]
    /\ got \in [Clients -> Seq(Nat)] /\ bytes \in [Clients -> Nat]

\* The chunks before the first that is of no such kind.
UpTo(f, kinds) ==
    CHOOSE n \in 0..Len(f) :
        /\ \A k \in 1..n : f[k] \in kinds
        /\ n < Len(f) => f[n + 1] \notin kinds

Readable(f) == UpTo(f, {"text", "nul"})
Visible(f) == UpTo(f, {"text"})

\* A client gets the chunks of its own file in order, and when it stops it has
\* all of them up to the first that begins with NUL (client.c 70) or cannot be
\* read (server.c 70, of which it is told nothing), whatever other clients, dead
\* ones and restarts of the server do: no chunk is missing for another reason.
\* (Stated together with the types.)
WholeFile ==
    /\ TypeOK
    /\ \A c \in Clients :
           /\ \A k \in DOMAIN got[c] : got[c][k] = k
           /\ got[c] # <<>> => file[c] # Missing /\ Len(got[c]) =< Visible(file[c])
           /\ cpc[c] \in {"unlink", "done"} =>
                 file[c] # Missing /\ Len(got[c]) = Visible(file[c])

\* server_res is not initialised, yet at most one client per run of the server
\* reports more bytes than its file has: the memset after each chunk (server.c
\* 75) keeps an old chunk, or the stack, out of all later ones.
StaleBytesOnce ==
    /\ \A c \in Clients : bytes[c] - Len(got[c]) \in {0, 1}
    /\ Cardinality({c \in Clients : bytes[c] # Len(got[c])}) =< run

\* Nobody will take from the queue of this client any more, and what the server
\* has for it does not fit.
CanBlock(c) ==
    /\ file[c] # Missing
    /\ \/ cpc[c] = "killed" /\ Readable(file[c]) + 1 > MAXMSG
       \/ cpc[c] \in {"unlink", "done"} /\ Readable(file[c]) - Visible(file[c]) > MAXMSG

\* The server gets back to mq_receive, unless it is killed or a client that was
\* killed or stopped at a NUL leaves it more messages than a queue holds.
ServerReturns ==
    spc # "receive" /\ run > 0
        ~> spc \in {"receive", "killed"} \/ \E c \in Clients : CanBlock(c)

\* The request of this client waits to be sent, or read, or is being served.
Pending(c) ==
    \/ cpc[c] = "send" \/ c \in Range(serverMq)
    \/ req = c /\ spc \in {"openClient", "openFile", "read", "send", "sendEnd"}

\* Each file that cannot be opened costs a descriptor; three are needed.
EnoughDescriptors ==
    Cardinality({c \in Clients : file[c] = Missing}) + 3 =< OPEN_MAX

\* A request for a file that can be opened is answered, also one left by a dead
\* server to the next one, as long as nothing blocks the server and its
\* descriptors have not leaked away.
Answered ==
    \A c \in Clients :
        Pending(c) /\ file[c] # Missing /\ EnoughDescriptors
            ~> \/ cpc[c] \in {"done", "killed"} \/ spc = "killed"
               \/ \E d \in Clients : CanBlock(d)
=============================================================================
