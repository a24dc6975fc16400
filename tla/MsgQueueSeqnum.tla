--------------------------- MODULE MsgQueueSeqnum ---------------------------
(***************************************************************************)
(* HW8/46_2: server.c hands out sequence numbers over one System V message  *)
(* queue that carries the requests (type MSG_TYPE) and the responses (type: *)
(* the pid of the client) alike, so both share its msg_qbytes.              *)
(*                                                                          *)
(* The queue outlives the server; its identity is the number of the server  *)
(* run that created it, 0 for none, and clients keep the one they opened.   *)
(* A client is one process with a pid of its own, other than MSG_TYPE.      *)
(***************************************************************************)
EXTENDS Naturals, Sequences, FiniteSets

CONSTANTS Clients,    \* client processes, named by their pids
          SeqLens,    \* lengths a client may ask for
          REQ_SIZE, RES_SIZE, QBYTES,   \* sizes of the messages and the queue
          NoGrant,
          MaxRuns     \* bound: server runs that create the queue

ASSUME ConstAssumption ==
    /\ SeqLens \subseteq Nat
    /\ REQ_SIZE \in Nat /\ RES_SIZE \in Nat /\ QBYTES \in Nat
    /\ MaxRuns \in Nat \ {0}
    /\ NoGrant \notin [run : Nat, first : Nat, len : Nat]

VARIABLES queue,    \* the queue behind QUEUE_KEY: id, requests in order, responses
          run,      \* number of queues created so far
          spc, seqNum, req,        \* server: next call, seq_num, server_req
          cpc, cid, clen, cgot,    \* clients: next call, msgId, seqLen, seqNum
          granted,  \* history: what the server granted to each client, and when
          handed    \* history: numbers granted so far by the latest run

serverVars == <<run, spc, seqNum, req>>
history == <<granted, handed>>
clientVars == <<cpc, cid, clen, cgot>>
vars == <<queue, run, spc, seqNum, req, cpc, cid, clen, cgot,
          granted, handed>>

NoQueue == [id |-> 0, requests |-> <<>>, responses |-> {}]
NoRequest == [clientId |-> NoGrant, seqLen |-> 0]

\* The kernel lets a message of this size in.
Room(size) ==
    Len(queue.requests) * REQ_SIZE + Cardinality(queue.responses) * RES_SIZE
        + size =< QBYTES

Init ==
    /\ queue = NoQueue /\ run = 0
    /\ spc = "off" /\ seqNum = 0 /\ req = NoRequest
    /\ cpc = [c \in Clients |-> "off"]
    /\ cid = [c \in Clients |-> 0]
    /\ clen = [c \in Clients |-> 0]
    /\ cgot = [c \in Clients |-> 0]
    /\ granted = [c \in Clients |-> NoGrant] /\ handed = 0
-----------------------------------------------------------------------------
(* The server *)

\* msgget(IPC_CREAT | IPC_EXCL): seq_num starts from 0 in each process.
ServerStart ==
    /\ spc \in {"off", "failed", "killed"} /\ run < MaxRuns
    /\ IF queue.id = 0
       THEN /\ run' = run + 1
            /\ queue' = [NoQueue EXCEPT !.id = run + 1]
            /\ spc' = "sigaction" /\ handed' = 0
       ELSE spc' = "failed" /\ UNCHANGED <<run, queue, handed>>
    /\ seqNum' = 0 /\ req' = NoRequest
    /\ UNCHANGED <<clientVars, granted>>

Sigaction ==
    /\ spc = "sigaction"
    /\ spc' = "msgrcv"
    /\ UNCHANGED <<queue, run, seqNum, req, clientVars, history>>

\* msgrcv of the first message of type MSG_TYPE.
SMsgRcv ==
    /\ spc = "msgrcv" /\ queue.requests # <<>>
    /\ req' = Head(queue.requests)
    /\ queue' = [queue EXCEPT !.requests = Tail(@)]
    /\ spc' = "msgsnd"
    /\ UNCHANGED <<run, seqNum, clientVars, history>>

\* Mutant of SMsgSnd: room for a whole request is demanded.
SMsgSndPadded ==
    /\ spc = "msgsnd" /\ Room(REQ_SIZE)
    /\ queue' = [queue EXCEPT !.responses =
                   @ \union {[mtype |-> req.clientId, seqNum |-> seqNum]}]
    /\ granted' = [granted EXCEPT ![req.clientId] =
                     [run |-> run, first |-> seqNum, len |-> req.seqLen]]
    /\ handed' = seqNum + req.seqLen
    /\ spc' = "advance"
    /\ UNCHANGED <<run, seqNum, req, clientVars>>

\* The client may have the number before the server has counted it.
SMsgSnd ==
    /\ spc = "msgsnd" /\ Room(RES_SIZE)
    /\ queue' = [queue EXCEPT !.responses =
                   @ \union {[mtype |-> req.clientId, seqNum |-> seqNum]}]
    /\ granted' = [granted EXCEPT ![req.clientId] =
                     [run |-> run, first |-> seqNum, len |-> req.seqLen]]
    /\ handed' = seqNum + req.seqLen
    /\ spc' = "advance"
    /\ UNCHANGED <<run, seqNum, req, clientVars>>

\* Mutant of Advance: every request counts as one number.
AdvanceByOne ==
    /\ spc = "advance"
    /\ seqNum' = seqNum + 1
    /\ spc' = "msgrcv"
    /\ UNCHANGED <<queue, run, req, clientVars, history>>

Advance ==
    /\ spc = "advance"
    /\ seqNum' = seqNum + req.seqLen
    /\ spc' = "msgrcv"
    /\ UNCHANGED <<queue, run, req, clientVars, history>>

\* SIGINT once the handler is installed: IPC_RMID and exit, wherever it strikes.
Handler ==
    /\ spc \in {"msgrcv", "msgsnd", "advance"}
    /\ queue' = NoQueue
    /\ spc' = "off"
    /\ UNCHANGED <<run, seqNum, req, clientVars, history>>

\* SIGINT before that: the default action leaves the queue behind.
KilledEarly ==
    /\ spc = "sigaction"
    /\ spc' = "killed"
    /\ UNCHANGED <<queue, run, seqNum, req, clientVars, history>>
-----------------------------------------------------------------------------
(* The clients *)

CMsgGet(c) ==
    /\ cpc[c] = "off"
    /\ \E n \in SeqLens : clen' = [clen EXCEPT ![c] = n]
    /\ cid' = [cid EXCEPT ![c] = queue.id]
    /\ cpc' = [cpc EXCEPT ![c] = IF queue.id = 0 THEN "failed" ELSE "msgsnd"]
    /\ UNCHANGED <<queue, serverVars, cgot, history>>

CMsgSnd(c) ==
    /\ cpc[c] = "msgsnd"
    /\ queue.id = cid[c] /\ Room(REQ_SIZE)
    /\ queue' = [queue EXCEPT !.requests =
                   Append(@, [clientId |-> c, seqLen |-> clen[c]])]
    /\ cpc' = [cpc EXCEPT ![c] = "msgrcv"]
    /\ UNCHANGED <<serverVars, cid, clen, cgot, history>>

\* Mutant of CMsgRcv: msgtyp 0, the first response of anyone.
CMsgRcvAny(c) ==
    /\ cpc[c] = "msgrcv" /\ queue.id = cid[c]
    /\ \E res \in queue.responses :
         /\ cgot' = [cgot EXCEPT ![c] = res.seqNum]
         /\ queue' = [queue EXCEPT !.responses = @ \ {res}]
    /\ cpc' = [cpc EXCEPT ![c] = "done"]
    /\ UNCHANGED <<serverVars, cid, clen, history>>

\* msgrcv of the message whose type is the client's pid.
CMsgRcv(c) ==
    /\ cpc[c] = "msgrcv" /\ queue.id = cid[c]
    /\ \E res \in queue.responses :
         /\ res.mtype = c
         /\ cgot' = [cgot EXCEPT ![c] = res.seqNum]
         /\ queue' = [queue EXCEPT !.responses = @ \ {res}]
    /\ cpc' = [cpc EXCEPT ![c] = "done"]
    /\ UNCHANGED <<serverVars, cid, clen, history>>

\* The queue was removed: the call, waiting or new, fails and the client exits.
CQueueGone(c) ==
    /\ cpc[c] \in {"msgsnd", "msgrcv"} /\ queue.id # cid[c]
    /\ cpc' = [cpc EXCEPT ![c] = "failed"]
    /\ UNCHANGED <<queue, serverVars, cid, clen, cgot, history>>

\* A signal kills a client; what it sent, or was sent, stays in the queue.
CKilled(c) ==
    /\ cpc[c] \in {"msgsnd", "msgrcv"}
    /\ cpc' = [cpc EXCEPT ![c] = "killed"]
    /\ UNCHANGED <<queue, serverVars, cid, clen, cgot, history>>
-----------------------------------------------------------------------------
ServerStep == Sigaction \/ SMsgRcv \/ SMsgSnd \/ Advance
ClientStep(c) == CMsgSnd(c) \/ CMsgRcv(c) \/ CQueueGone(c)

Next ==
    \/ ServerStart \/ ServerStep \/ Handler \/ KilledEarly
    \/ \E c \in Clients : CMsgGet(c) \/ ClientStep(c) \/ CKilled(c)

Spec == Init /\ [][Next]_vars

\* Started processes keep running; no signal and no start has to come.
FairSpec == /\ Spec
            /\ WF_vars(ServerStep)
            /\ \A c \in Clients : WF_vars(ClientStep(c))
-----------------------------------------------------------------------------
(* Properties *)

Request == [clientId : Clients, seqLen : SeqLens]

\* Every variable keeps its type; only a request that was really read is served.
TypeOK ==
    /\ queue \in [id : 0..MaxRuns, requests : Seq(Request),
                  responses : SUBSET [mtype : Clients, seqNum : Nat]]
    /\ run \in 0..MaxRuns
    /\ spc \in {"off", "failed", "killed", "sigaction", "msgrcv", "msgsnd", "advance"}
    /\ seqNum \in Nat /\ req \in Request \union {NoRequest}
    /\ spc \in {"msgsnd", "advance"} => req \in Request
    /\ cpc \in [Clients -> {"off", "failed", "killed", "msgsnd", "msgrcv", "done"}]
    /\ cid \in [Clients -> 0..MaxRuns]
    /\ clen \in [Clients -> SeqLens \union {0}]
    /\ cgot \in [Clients -> Nat]
    /\ handed \in Nat
    /\ granted \in [Clients -> [run : 1..MaxRuns, first : Nat, len : SeqLens]
                               \union {NoGrant}]

\* A client prints what the server granted to it, for its own length and in the
\* run whose queue it opened: no response of another client (client.c 44) or
\* of an earlier queue reaches it.
\* (Stated together with the types.)
OwnReply ==
    /\ TypeOK
    /\ \A c \in Clients :
           cpc[c] = "done" =>
               granted[c] = [run |-> cid[c], first |-> cgot[c], len |-> clen[c]]

\* Every client has at most one message, its request or its response, in the
\* queue, and the one the server works for has none: the server can always
\* answer when the queue has this much room.
EnoughRoom ==
    (Cardinality(Clients) - 1) * REQ_SIZE + RES_SIZE =< QBYTES
    /\ REQ_SIZE =< QBYTES

\* With that much room nobody waits for ever: a client that asks is answered
\* or told that the queue is gone, although the server and the clients fill the
\* same queue and responses to dead clients stay in it.  The exceptions: it is
\* killed, or the server dies before it installs its handler.
Answered ==
    EnoughRoom =>
        \A c \in Clients :
            cpc[c] = "msgsnd" ~> (cpc[c] \in {"done", "failed", "killed"}
                                  \/ (queue.id = cid[c] /\ spc \in {"killed", "failed"}))

\* The two programs implement the service.
Service == INSTANCE SeqnumService
             WITH epoch <- run, next <- handed, Lens <- SeqLens
ImplementsService == Service!Spec
=============================================================================
