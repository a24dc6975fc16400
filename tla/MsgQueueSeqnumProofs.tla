------------------------ MODULE MsgQueueSeqnumProofs ------------------------
(***************************************************************************)
(* For any number of clients, any lengths, sizes of messages and queue, and *)
(* any number of server runs: a client gets its own reply, and the two      *)
(* programs implement SeqnumService.  No proof looks at the room that the   *)
(* queue has: that matters for progress only.                               *)
(***************************************************************************)
EXTENDS MsgQueueSeqnum, TLAPS

\* The client has sent its request and was not answered yet, or was killed.
Waiting(c) == cpc[c] \in {"msgrcv", "killed"}

\* A client whose request is in the queue or with the server: it asked this
\* queue for this length, and has been granted nothing.
Asked(r) ==
    /\ Waiting(r.clientId) /\ cid[r.clientId] = queue.id /\ clen[r.clientId] = r.seqLen
    /\ granted[r.clientId] = NoGrant

\* The queue is the one of the latest run, or there is none.
QueueId ==
    /\ queue.id \in {0, run}
    /\ queue.id = 0 => queue.requests = <<>> /\ queue.responses = {}
    /\ spc \in {"sigaction", "msgrcv", "msgsnd", "advance"} => queue.id = run /\ run # 0
    /\ \A c \in Clients : /\ cid[c] =< run
                          /\ cpc[c] \in {"msgsnd", "msgrcv", "done"} => cid[c] # 0

\* Every client has at most one message, its request or its response.
Messages ==
    /\ \A i \in DOMAIN queue.requests : Asked(queue.requests[i])
    /\ \A i, j \in DOMAIN queue.requests :
         queue.requests[i].clientId = queue.requests[j].clientId => i = j
    /\ spc = "msgsnd" =>
         /\ Asked(req)
         /\ \A i \in DOMAIN queue.requests : queue.requests[i].clientId # req.clientId
    /\ \A res \in queue.responses :
         /\ Waiting(res.mtype) /\ cid[res.mtype] = queue.id
         /\ granted[res.mtype] =
              [run |-> cid[res.mtype], first |-> res.seqNum, len |-> clen[res.mtype]]

\* A client that has not asked has no grant; one that is done has printed its own.
Replies ==
    \A c \in Clients :
        /\ cpc[c] \in {"off", "msgsnd"} => granted[c] = NoGrant
        /\ cpc[c] = "done" =>
             granted[c] = [run |-> cid[c], first |-> cgot[c], len |-> clen[c]]

\* The server has counted what it handed out, except just after it answered.
Counted ==
    /\ spc \in {"sigaction", "msgrcv", "msgsnd"} => handed = seqNum
    /\ spc = "advance" => handed = seqNum + req.seqLen

\* The length is chosen before the queue is used.
Lengths == \A c \in Clients : cpc[c] # "off" => clen[c] \in SeqLens

IInv == TypeOK /\ QueueId /\ Messages /\ Replies /\ Counted /\ Lengths
-----------------------------------------------------------------------------

QueueType == [id : 0..MaxRuns, requests : Seq(Request),
              responses : SUBSET [mtype : Clients, seqNum : Nat]]

\* A queue is its three fields, and keeps its type when one is replaced.
LEMMA QueueFields ==
    ASSUME NEW q \in QueueType
    PROVE  /\ q.id \in 0..MaxRuns /\ q.requests \in Seq(Request)
           /\ q.responses \in SUBSET [mtype : Clients, seqNum : Nat]
           /\ \A x : [q EXCEPT !.requests = x] =
                      [id |-> q.id, requests |-> x, responses |-> q.responses]
           /\ \A x : [q EXCEPT !.responses = x] =
                      [id |-> q.id, requests |-> q.requests, responses |-> x]
  BY DEF QueueType

\* The type of the queue as one record set.
LEMMA QueueTyped ==
    ASSUME NEW i \in 0..MaxRuns, NEW requests \in Seq(Request),
           NEW responses \in SUBSET [mtype : Clients, seqNum : Nat]
    PROVE  [id |-> i, requests |-> requests, responses |-> responses] \in QueueType
  BY DEF QueueType

\* Every step keeps the types.
LEMMA TypeStep ==
    ASSUME IInv, [Next]_vars
    PROVE  TypeOK'
<1>1. CASE ServerStart
  <2>0. TypeOK
    BY DEF IInv
  <2>1. run + 1 \in 0..MaxRuns
    BY <1>1, <2>0, ConstAssumption DEF ServerStart, TypeOK
  <2>2. queue' = queue \/ queue' = [id |-> run + 1, requests |-> <<>>, responses |-> {}]
    BY <1>1 DEF ServerStart, NoQueue
  <2>3. queue' \in QueueType
    <3>1. run + 1 \in 0..MaxRuns => [id |-> run + 1, requests |-> <<>>, responses |-> {}] \in QueueType
      BY DEF QueueType
    <3> QED
      BY <2>0, <2>1, <2>2, <3>1 DEF TypeOK, QueueType
  <2>4. run' \in 0..MaxRuns
    BY <1>1, <2>0, <2>1, ConstAssumption DEF ServerStart, TypeOK
  <2> QED
    BY <1>1, <2>0, <2>3, <2>4 DEF ServerStart, TypeOK, QueueType, clientVars
<1>2. CASE Sigaction
  BY <1>2 DEF IInv, TypeOK, clientVars, history, Sigaction
<1>3. CASE SMsgRcv
  <2>0. TypeOK
    BY DEF IInv
  <2>1. Head(queue.requests) \in Request /\ Tail(queue.requests) \in Seq(Request)
    BY <1>3, <2>0 DEF SMsgRcv, TypeOK
  <2>2. queue' \in QueueType
    BY <1>3, <2>0, <2>1, QueueTyped, QueueFields DEF SMsgRcv, TypeOK, QueueType
  <2> QED
    BY <1>3, <2>0, <2>1, <2>2 DEF SMsgRcv, TypeOK, QueueType, clientVars, history
<1>4. CASE SMsgSnd
  <2>0. TypeOK
    BY DEF IInv
  <2>1. req.clientId \in Clients /\ req.seqLen \in SeqLens /\ req.seqLen \in Nat
    BY <1>4, <2>0, ConstAssumption DEF SMsgSnd, TypeOK, Request
  <2>2. run \in 1..MaxRuns
    BY <1>4, <2>0 DEF SMsgSnd, TypeOK, IInv, QueueId
  <2>3. queue' \in QueueType
    <3>1. [mtype |-> req.clientId, seqNum |-> seqNum] \in [mtype : Clients, seqNum : Nat]
      BY <2>0, <2>1 DEF TypeOK
    <3> QED
      BY <1>4, <2>0, <3>1, QueueTyped, QueueFields DEF SMsgSnd, TypeOK, QueueType
  <2>4. granted' \in [Clients -> [run : 1..MaxRuns, first : Nat, len : SeqLens] \union {NoGrant}]
    BY <1>4, <2>0, <2>1, <2>2 DEF SMsgSnd, TypeOK
  <2>5. handed' \in Nat
    BY <1>4, <2>0, <2>1 DEF SMsgSnd, TypeOK
  <2> QED
    BY <1>4, <2>0, <2>3, <2>4, <2>5 DEF SMsgSnd, TypeOK, QueueType, clientVars
<1>5. CASE Advance
  <2>0. TypeOK
    BY DEF IInv
  <2>1. req.seqLen \in Nat
    BY <1>5, <2>0, ConstAssumption DEF Advance, TypeOK, Request
  <2> QED
    BY <1>5, <2>0, <2>1 DEF Advance, TypeOK, clientVars, history
<1>6. CASE Handler
  BY <1>6, ConstAssumption DEF IInv, TypeOK, Request, NoQueue, clientVars, history, Handler
<1>7. CASE KilledEarly
  BY <1>7 DEF IInv, TypeOK, clientVars, history, KilledEarly
<1>8. ASSUME NEW c \in Clients, CMsgGet(c) PROVE TypeOK'
  BY <1>8 DEF IInv, TypeOK, serverVars, history, CMsgGet
<1>9. ASSUME NEW c \in Clients, CMsgSnd(c) PROVE TypeOK'
  <2>0. TypeOK
    BY DEF IInv
  <2>1. clen[c] \in SeqLens
    BY <1>9, <2>0 DEF CMsgSnd, TypeOK, IInv, Lengths
  <2>2. [clientId |-> c, seqLen |-> clen[c]] \in Request
    BY <2>1 DEF Request
  <2>3. queue' \in QueueType
    <3>1. Append(queue.requests, [clientId |-> c, seqLen |-> clen[c]]) \in Seq(Request)
      BY <2>0, <2>2 DEF TypeOK
    <3> QED
      BY <1>9, <2>0, <3>1, QueueTyped, QueueFields DEF CMsgSnd, TypeOK, QueueType
  <2> QED
    BY <1>9, <2>0, <2>3 DEF CMsgSnd, TypeOK, QueueType, serverVars, history
<1>10. ASSUME NEW c \in Clients, CMsgRcv(c) PROVE TypeOK'
  <2>0. TypeOK
    BY DEF IInv
  <2>1. PICK res \in queue.responses :
           /\ cgot' = [cgot EXCEPT ![c] = res.seqNum]
           /\ queue' = [queue EXCEPT !.responses = @ \ {res}]
    BY <1>10 DEF CMsgRcv
  <2>2. res.seqNum \in Nat
    BY <2>0 DEF TypeOK
  <2>3. queue' \in QueueType
    BY <2>0, <2>1, QueueTyped, QueueFields DEF TypeOK, QueueType
  <2> QED
    BY <1>10, <2>0, <2>1, <2>2, <2>3 DEF CMsgRcv, TypeOK, QueueType, serverVars, history
<1>11. ASSUME NEW c \in Clients, CQueueGone(c) PROVE TypeOK'
  BY <1>11 DEF IInv, TypeOK, serverVars, history, CQueueGone
<1>12. ASSUME NEW c \in Clients, CKilled(c) PROVE TypeOK'
  BY <1>12 DEF IInv, TypeOK, serverVars, history, CKilled
<1>13. CASE UNCHANGED vars
  BY <1>13 DEF IInv, TypeOK, vars
<1> QED
  BY <1>1, <1>2, <1>3, <1>4, <1>5, <1>6, <1>7, <1>8, <1>9, <1>10, <1>11, <1>12, <1>13 DEF Next, ServerStep, ClientStep

\* A queue belongs to the run that made it.
LEMMA QueueIdStep ==
    ASSUME IInv, [Next]_vars
    PROVE  QueueId'
<1>1. CASE ServerStart
  BY <1>1 DEF IInv, QueueId, TypeOK, NoQueue, NoRequest, clientVars, ServerStart
<1>2. CASE Sigaction
  BY <1>2 DEF IInv, QueueId, TypeOK, clientVars, history, Sigaction
<1>3. CASE SMsgRcv
  BY <1>3 DEF IInv, QueueId, TypeOK, clientVars, history, SMsgRcv
<1>4. CASE SMsgSnd
  BY <1>4 DEF IInv, QueueId, TypeOK, clientVars, SMsgSnd
<1>5. CASE Advance
  BY <1>5 DEF IInv, QueueId, TypeOK, clientVars, history, Advance
<1>6. CASE Handler
  BY <1>6 DEF IInv, QueueId, TypeOK, NoQueue, clientVars, history, Handler
<1>7. CASE KilledEarly
  BY <1>7 DEF IInv, QueueId, TypeOK, clientVars, history, KilledEarly
<1>8. ASSUME NEW c \in Clients, CMsgGet(c) PROVE QueueId'
  BY <1>8 DEF IInv, QueueId, TypeOK, serverVars, history, CMsgGet
<1>9. ASSUME NEW c \in Clients, CMsgSnd(c) PROVE QueueId'
  BY <1>9 DEF IInv, QueueId, TypeOK, serverVars, history, CMsgSnd
<1>10. ASSUME NEW c \in Clients, CMsgRcv(c) PROVE QueueId'
  BY <1>10 DEF IInv, QueueId, TypeOK, serverVars, history, CMsgRcv
<1>11. ASSUME NEW c \in Clients, CQueueGone(c) PROVE QueueId'
  BY <1>11 DEF IInv, QueueId, TypeOK, serverVars, history, CQueueGone
<1>12. ASSUME NEW c \in Clients, CKilled(c) PROVE QueueId'
  BY <1>12 DEF IInv, QueueId, TypeOK, serverVars, history, CKilled
<1>13. CASE UNCHANGED vars
  BY <1>13 DEF IInv, QueueId, TypeOK, vars
<1> QED
  BY <1>1, <1>2, <1>3, <1>4, <1>5, <1>6, <1>7, <1>8, <1>9, <1>10, <1>11, <1>12, <1>13 DEF Next, ServerStep, ClientStep

\* No client gets a second message, and a response is the one it was granted.
LEMMA MessagesStep ==
    ASSUME IInv, [Next]_vars
    PROVE  Messages'
<1>1. CASE ServerStart
  <2>1. CASE queue' = queue /\ spc' = "failed"
    BY <1>1, <2>1 DEF ServerStart, IInv, Messages, Asked, Waiting, clientVars
  <2>2. CASE queue' = [id |-> run + 1, requests |-> <<>>, responses |-> {}] /\ spc' = "sigaction"
    BY <2>2 DEF Messages
  <2> QED
    BY <1>1, <2>1, <2>2 DEF ServerStart, NoQueue
<1>2. CASE Sigaction
  BY <1>2 DEF IInv, Messages, QueueId, Asked, Waiting, Replies, TypeOK, clientVars, history, Sigaction
<1>3. CASE SMsgRcv
  <2>1. queue.requests \in Seq(Request) /\ queue.requests # <<>>
    BY <1>3 DEF SMsgRcv, IInv, TypeOK
  <2>2. /\ queue'.id = queue.id /\ queue'.requests = Tail(queue.requests)
        /\ queue'.responses = queue.responses /\ req' = queue.requests[1]
    BY <1>3 DEF SMsgRcv, IInv, TypeOK
  <2>3. \A i \in DOMAIN Tail(queue.requests) :
           /\ i \in Nat /\ i + 1 \in DOMAIN queue.requests /\ i + 1 # 1
           /\ Tail(queue.requests)[i] = queue.requests[i + 1]
    BY <2>1
  <2>4. 1 \in DOMAIN queue.requests
    BY <2>1
  <2>5. UNCHANGED <<cpc, cid, clen, granted>>
    BY <1>3 DEF SMsgRcv, clientVars, history
  <2>6. \A i \in DOMAIN queue'.requests : Asked(queue.requests[i])'
    BY <2>2, <2>3, <2>5 DEF IInv, Messages, Asked, Waiting
  <2>7. \A i, j \in DOMAIN queue'.requests :
           queue'.requests[i].clientId = queue'.requests[j].clientId => i = j
    <3> SUFFICES ASSUME NEW i \in DOMAIN queue'.requests, NEW j \in DOMAIN queue'.requests,
                        queue'.requests[i].clientId = queue'.requests[j].clientId
                 PROVE  i = j
      OBVIOUS
    <3>1. i + 1 = j + 1
      BY <2>2, <2>3 DEF IInv, Messages
    <3> QED
      BY <3>1, <2>2, <2>3
  <2>8. Asked(req)' /\ \A i \in DOMAIN queue'.requests : queue'.requests[i].clientId # req'.clientId
    BY <2>2, <2>3, <2>4, <2>5 DEF IInv, Messages, Asked, Waiting
  <2>9. \A res \in queue'.responses :
         /\ Waiting(res.mtype)' /\ cid'[res.mtype] = queue'.id
         /\ granted'[res.mtype] =
              [run |-> cid'[res.mtype], first |-> res.seqNum, len |-> clen'[res.mtype]]
    BY <2>2, <2>5 DEF IInv, Messages, Waiting
  <2> QED
    BY <2>6, <2>7, <2>8, <2>9 DEF Messages
<1>4. CASE SMsgSnd
  <2> DEFINE new == [mtype |-> req.clientId, seqNum |-> seqNum]
  <2>1. /\ queue'.id = queue.id /\ queue'.requests = queue.requests
        /\ queue'.responses = queue.responses \union {new}
        /\ granted' = [granted EXCEPT ![req.clientId] =
                         [run |-> run, first |-> seqNum, len |-> req.seqLen]]
        /\ spc = "msgsnd" /\ spc' = "advance" /\ UNCHANGED <<cpc, cid, clen>>
    BY <1>4 DEF SMsgSnd, IInv, TypeOK, clientVars
  <2>2. Asked(req) /\ \A i \in DOMAIN queue.requests : queue.requests[i].clientId # req.clientId
    BY <2>1 DEF IInv, Messages
  <2>3. req.clientId \in Clients /\ granted \in [Clients -> [run : 1..MaxRuns, first : Nat, len : SeqLens] \union {NoGrant}]
    BY <2>1 DEF IInv, TypeOK, Request
  <2>4. \A i \in DOMAIN queue'.requests : Asked(queue.requests[i])'
    BY <2>1, <2>2, <2>3 DEF IInv, Messages, Asked, Waiting
  <2>5. \A i, j \in DOMAIN queue'.requests :
           queue'.requests[i].clientId = queue'.requests[j].clientId => i = j
    BY <2>1 DEF IInv, Messages
  <2>6. \A res \in queue.responses : res.mtype # req.clientId
    <3>1. ASSUME NEW res \in queue.responses PROVE granted[res.mtype] # NoGrant
      <4>1. res.mtype \in Clients /\ res.seqNum \in Nat
        BY DEF IInv, TypeOK
      <4>2. cid[res.mtype] \in Nat /\ clen[res.mtype] \in Nat
        <5>1. clen[res.mtype] \in SeqLens \union {0} /\ cid[res.mtype] \in 0..MaxRuns
          BY <4>1 DEF IInv, TypeOK
        <5>2. clen[res.mtype] \in Nat
          <6>1. clen[res.mtype] \in SeqLens \/ clen[res.mtype] = 0
            BY <5>1
          <6>2. \A n \in SeqLens : n \in Nat
            BY ConstAssumption
          <6> QED
            BY <6>1, <6>2
        <5> QED
          BY <5>1, <5>2
      <4>3. granted[res.mtype] =
              [run |-> cid[res.mtype], first |-> res.seqNum, len |-> clen[res.mtype]]
        BY DEF IInv, Messages
      <4> QED
        BY <4>1, <4>2, <4>3, ConstAssumption
    <3> QED
      BY <2>2, <3>1 DEF Asked
  <2>7. ASSUME NEW res \in queue'.responses
        PROVE  /\ Waiting(res.mtype)' /\ cid'[res.mtype] = queue'.id
               /\ granted'[res.mtype] =
                    [run |-> cid'[res.mtype], first |-> res.seqNum, len |-> clen'[res.mtype]]
    <3>1. CASE res = new
      <4>1. granted'[req.clientId] = [run |-> run, first |-> seqNum, len |-> req.seqLen]
        BY <2>1, <2>3
      <4>2. queue.id = run
        BY <2>1 DEF IInv, QueueId
      <4> QED
        BY <3>1, <4>1, <4>2, <2>1, <2>2 DEF Asked, Waiting
    <3>2. CASE res \in queue.responses
      <4>1. granted'[res.mtype] = granted[res.mtype]
        BY <3>2, <2>1, <2>3, <2>6 DEF IInv, TypeOK
      <4> QED
        BY <3>2, <4>1, <2>1 DEF IInv, Messages, Waiting
    <3> QED
      BY <2>1, <3>1, <3>2
  <2> QED
    BY <2>1, <2>4, <2>5, <2>7 DEF Messages
<1>5. CASE Advance
  BY <1>5 DEF IInv, Messages, QueueId, Asked, Waiting, Replies, TypeOK, clientVars, history, Advance
<1>6. CASE Handler
  BY <1>6 DEF IInv, Messages, QueueId, Asked, Waiting, Replies, TypeOK, NoQueue, clientVars, history, Handler
<1>7. CASE KilledEarly
  BY <1>7 DEF IInv, Messages, QueueId, Asked, Waiting, Replies, TypeOK, clientVars, history, KilledEarly
<1>8. ASSUME NEW c \in Clients, CMsgGet(c) PROVE Messages'
  <2>1. /\ cpc[c] = "off" /\ UNCHANGED <<queue, spc, req, granted>>
        /\ \A d \in Clients \ {c} : cpc'[d] = cpc[d] /\ cid'[d] = cid[d] /\ clen'[d] = clen[d]
    BY <1>8 DEF CMsgGet, IInv, TypeOK, serverVars, history
  <2>2. \A r \in Request : Asked(r) => Asked(r)'
    BY <2>1 DEF Asked, Waiting, Request
  <2>3. \A res \in queue.responses : res.mtype \in Clients \ {c}
    BY <2>1 DEF IInv, TypeOK, Messages, Waiting
  <2>4. \A i \in DOMAIN queue.requests : queue.requests[i] \in Request
    BY DEF IInv, TypeOK
  <2> QED
    BY <2>1, <2>2, <2>3, <2>4 DEF IInv, TypeOK, Messages, Waiting
<1>9. ASSUME NEW c \in Clients, CMsgSnd(c) PROVE Messages'
  <2> DEFINE new == [clientId |-> c, seqLen |-> clen[c]]
  <2>1. /\ cpc[c] = "msgsnd" /\ queue.id = cid[c]
        /\ queue'.id = queue.id /\ queue'.requests = Append(queue.requests, new)
        /\ queue'.responses = queue.responses
        /\ cpc' = [cpc EXCEPT ![c] = "msgrcv"] /\ UNCHANGED <<cid, clen, granted, spc, req>>
    BY <1>9 DEF CMsgSnd, IInv, TypeOK, serverVars, history
  <2>2. \A r \in Request : Asked(r) => Asked(r)' /\ r.clientId # c
    BY <2>1 DEF IInv, TypeOK, Asked, Waiting, Request
  <2>3. Asked(new)'
    BY <2>1 DEF IInv, TypeOK, Replies, Asked, Waiting
  <2>4. queue.requests \in Seq(Request) /\ Len(queue.requests) \in Nat
    BY DEF IInv, TypeOK
  <2>5. \A i \in DOMAIN queue'.requests :
           \/ i \in DOMAIN queue.requests /\ queue'.requests[i] = queue.requests[i]
           \/ i = Len(queue.requests) + 1 /\ queue'.requests[i] = new
    BY <2>1, <2>4
  <2>6. \A i \in DOMAIN queue.requests :
           queue.requests[i] \in Request /\ queue.requests[i].clientId # c
    BY <2>2, <2>4 DEF IInv, Messages
  <2>7. \A i \in DOMAIN queue'.requests : Asked(queue.requests[i])'
    <3> SUFFICES ASSUME NEW i \in DOMAIN queue'.requests PROVE Asked(queue.requests[i])'
      OBVIOUS
    <3>1. CASE queue'.requests[i] = new
      BY <2>1, <2>3, <3>1 DEF Asked, Waiting
    <3>2. CASE i \in DOMAIN queue.requests /\ queue'.requests[i] = queue.requests[i]
      <4>1. Asked(queue.requests[i]) /\ queue.requests[i] \in Request
        BY <2>6, <3>2 DEF IInv, Messages
      <4>2. queue.requests[i].clientId \in Clients \ {c}
        BY <4>1, <2>6, <3>2 DEF Request
      <4> QED
        BY <2>1, <3>2, <4>1, <4>2 DEF IInv, TypeOK, Asked, Waiting
    <3> QED
      BY <2>5, <3>1, <3>2
  <2>8. \A i, j \in DOMAIN queue'.requests :
           queue'.requests[i].clientId = queue'.requests[j].clientId => i = j
    BY <2>5, <2>6 DEF IInv, Messages
  <2>9. spc' = "msgsnd" =>
         /\ Asked(req)'
         /\ \A i \in DOMAIN queue'.requests : queue'.requests[i].clientId # req'.clientId
    BY <2>1, <2>2, <2>5 DEF IInv, Messages, TypeOK
  <2>10. \A res \in queue'.responses :
         /\ Waiting(res.mtype)' /\ cid'[res.mtype] = queue'.id
         /\ granted'[res.mtype] =
              [run |-> cid'[res.mtype], first |-> res.seqNum, len |-> clen'[res.mtype]]
    BY <2>1 DEF IInv, TypeOK, Messages, Waiting
  <2> QED
    BY <2>7, <2>8, <2>9, <2>10 DEF Messages
<1>10. ASSUME NEW c \in Clients, CMsgRcv(c) PROVE Messages'
  <2>1. PICK res \in queue.responses :
           res.mtype = c /\ queue' = [queue EXCEPT !.responses = @ \ {res}]
    BY <1>10 DEF CMsgRcv
  <2>2. /\ queue'.id = queue.id /\ queue'.requests = queue.requests
        /\ queue'.responses = queue.responses \ {res}
        /\ cpc' = [cpc EXCEPT ![c] = "done"] /\ UNCHANGED <<cid, clen, granted, spc, req>>
    BY <1>10, <2>1 DEF CMsgRcv, IInv, TypeOK, serverVars, history
  <2>3. granted[c] = [run |-> cid[c], first |-> res.seqNum, len |-> clen[c]]
    BY <2>1 DEF IInv, Messages
  <2>4. granted[c] # NoGrant
    BY <2>1, <2>3, ConstAssumption DEF IInv, TypeOK
  <2>5. \A r \in Request : Asked(r) => Asked(r)'
    BY <2>2, <2>4 DEF IInv, TypeOK, Asked, Waiting, Request
  <2>6. \A other \in queue'.responses : other.mtype \in Clients \ {c}
    <3> SUFFICES ASSUME NEW other \in queue'.responses, other.mtype = c PROVE FALSE
      BY <2>2 DEF IInv, TypeOK
    <3>1. other.seqNum = granted[c].first /\ res.seqNum = granted[c].first
      <4>1. granted[other.mtype] =
              [run |-> cid[other.mtype], first |-> other.seqNum, len |-> clen[other.mtype]]
        BY <2>2 DEF IInv, Messages
      <4>2. granted[c].first = other.seqNum
        BY <4>1
      <4> QED
        BY <2>3, <4>2
    <3>2. other \in [mtype : Clients, seqNum : Nat] /\ res \in [mtype : Clients, seqNum : Nat]
      BY <2>2 DEF IInv, TypeOK
    <3>3. other = [mtype |-> c, seqNum |-> other.seqNum] /\ res = [mtype |-> c, seqNum |-> res.seqNum]
      BY <3>2, <2>1
    <3> QED
      BY <3>1, <3>3, <2>2
  <2>7. \A i \in DOMAIN queue.requests : queue.requests[i] \in Request
    BY DEF IInv, TypeOK
  <2>8. \A d \in Clients \ {c} : cpc'[d] = cpc[d]
    BY <2>2 DEF IInv, TypeOK
  <2> QED
    BY <2>2, <2>5, <2>6, <2>7, <2>8 DEF IInv, TypeOK, Messages, Waiting
<1>11. ASSUME NEW c \in Clients, CQueueGone(c) PROVE Messages'
  BY <1>11 DEF IInv, Messages, QueueId, Asked, Waiting, Replies, TypeOK, serverVars, history, CQueueGone
<1>12. ASSUME NEW c \in Clients, CKilled(c) PROVE Messages'
  BY <1>12 DEF IInv, Messages, QueueId, Asked, Waiting, Replies, TypeOK, serverVars, history, CKilled
<1>13. CASE UNCHANGED vars
  BY <1>13 DEF IInv, Messages, QueueId, Asked, Waiting, Replies, TypeOK, vars
<1> QED
  BY <1>1, <1>2, <1>3, <1>4, <1>5, <1>6, <1>7, <1>8, <1>9, <1>10, <1>11, <1>12, <1>13 DEF Next, ServerStep, ClientStep

\* A client takes the response it was granted.
LEMMA RepliesStep ==
    ASSUME IInv, [Next]_vars
    PROVE  Replies'
<1>1. CASE ServerStart
  BY <1>1 DEF IInv, Messages, QueueId, Asked, Waiting, Replies, TypeOK, NoQueue, NoRequest, clientVars, ServerStart
<1>2. CASE Sigaction
  BY <1>2 DEF IInv, Messages, QueueId, Asked, Waiting, Replies, TypeOK, clientVars, history, Sigaction
<1>3. CASE SMsgRcv
  BY <1>3 DEF IInv, Messages, QueueId, Asked, Waiting, Replies, TypeOK, clientVars, history, SMsgRcv
<1>4. CASE SMsgSnd
  BY <1>4 DEF IInv, Messages, QueueId, Asked, Waiting, Replies, TypeOK, clientVars, SMsgSnd
<1>5. CASE Advance
  BY <1>5 DEF IInv, Messages, QueueId, Asked, Waiting, Replies, TypeOK, clientVars, history, Advance
<1>6. CASE Handler
  BY <1>6 DEF IInv, Messages, QueueId, Asked, Waiting, Replies, TypeOK, NoQueue, clientVars, history, Handler
<1>7. CASE KilledEarly
  BY <1>7 DEF IInv, Messages, QueueId, Asked, Waiting, Replies, TypeOK, clientVars, history, KilledEarly
<1>8. ASSUME NEW c \in Clients, CMsgGet(c) PROVE Replies'
  BY <1>8 DEF IInv, Messages, QueueId, Asked, Waiting, Replies, TypeOK, serverVars, history, CMsgGet
<1>9. ASSUME NEW c \in Clients, CMsgSnd(c) PROVE Replies'
  BY <1>9 DEF IInv, Messages, QueueId, Asked, Waiting, Replies, TypeOK, serverVars, history, CMsgSnd
<1>10. ASSUME NEW c \in Clients, CMsgRcv(c) PROVE Replies'
  <2>1. PICK res \in queue.responses : res.mtype = c /\ cgot' = [cgot EXCEPT ![c] = res.seqNum]
    BY <1>10 DEF CMsgRcv
  <2>2. granted[c] = [run |-> cid[c], first |-> res.seqNum, len |-> clen[c]]
    BY <2>1 DEF IInv, Messages
  <2>3. /\ cpc' = [cpc EXCEPT ![c] = "done"] /\ UNCHANGED <<cid, clen, granted>>
    BY <1>10 DEF CMsgRcv, history
  <2> QED
    BY <2>1, <2>2, <2>3 DEF IInv, TypeOK, Replies
<1>11. ASSUME NEW c \in Clients, CQueueGone(c) PROVE Replies'
  BY <1>11 DEF IInv, Messages, QueueId, Asked, Waiting, Replies, TypeOK, serverVars, history, CQueueGone
<1>12. ASSUME NEW c \in Clients, CKilled(c) PROVE Replies'
  BY <1>12 DEF IInv, Messages, QueueId, Asked, Waiting, Replies, TypeOK, serverVars, history, CKilled
<1>13. CASE UNCHANGED vars
  BY <1>13 DEF IInv, Messages, QueueId, Asked, Waiting, Replies, TypeOK, vars
<1> QED
  BY <1>1, <1>2, <1>3, <1>4, <1>5, <1>6, <1>7, <1>8, <1>9, <1>10, <1>11, <1>12, <1>13 DEF Next, ServerStep, ClientStep

\* Each answer is counted before the next.
LEMMA CountedStep ==
    ASSUME IInv, [Next]_vars
    PROVE  Counted'
<1>1. CASE ServerStart
  BY <1>1 DEF IInv, Counted, TypeOK, NoQueue, NoRequest, clientVars, ServerStart
<1>2. CASE Sigaction
  BY <1>2 DEF IInv, Counted, TypeOK, clientVars, history, Sigaction
<1>3. CASE SMsgRcv
  BY <1>3 DEF IInv, Counted, TypeOK, clientVars, history, SMsgRcv
<1>4. CASE SMsgSnd
  BY <1>4 DEF IInv, Counted, TypeOK, clientVars, SMsgSnd
<1>5. CASE Advance
  BY <1>5 DEF IInv, Counted, TypeOK, clientVars, history, Advance
<1>6. CASE Handler
  BY <1>6 DEF IInv, Counted, TypeOK, NoQueue, clientVars, history, Handler
<1>7. CASE KilledEarly
  BY <1>7 DEF IInv, Counted, TypeOK, clientVars, history, KilledEarly
<1>8. ASSUME NEW c \in Clients, CMsgGet(c) PROVE Counted'
  BY <1>8 DEF IInv, Counted, TypeOK, serverVars, history, CMsgGet
<1>9. ASSUME NEW c \in Clients, CMsgSnd(c) PROVE Counted'
  BY <1>9 DEF IInv, Counted, TypeOK, serverVars, history, CMsgSnd
<1>10. ASSUME NEW c \in Clients, CMsgRcv(c) PROVE Counted'
  BY <1>10 DEF IInv, Counted, TypeOK, serverVars, history, CMsgRcv
<1>11. ASSUME NEW c \in Clients, CQueueGone(c) PROVE Counted'
  BY <1>11 DEF IInv, Counted, TypeOK, serverVars, history, CQueueGone
<1>12. ASSUME NEW c \in Clients, CKilled(c) PROVE Counted'
  BY <1>12 DEF IInv, Counted, TypeOK, serverVars, history, CKilled
<1>13. CASE UNCHANGED vars
  BY <1>13 DEF IInv, Counted, TypeOK, vars
<1> QED
  BY <1>1, <1>2, <1>3, <1>4, <1>5, <1>6, <1>7, <1>8, <1>9, <1>10, <1>11, <1>12, <1>13 DEF Next, ServerStep, ClientStep

\* A length is kept once it is chosen.
LEMMA LengthsStep ==
    ASSUME IInv, [Next]_vars
    PROVE  Lengths'
<1>1. CASE ServerStart
  BY <1>1 DEF IInv, Lengths, TypeOK, NoQueue, NoRequest, clientVars, ServerStart
<1>2. CASE Sigaction
  BY <1>2 DEF IInv, Lengths, TypeOK, clientVars, history, Sigaction
<1>3. CASE SMsgRcv
  BY <1>3 DEF IInv, Lengths, TypeOK, clientVars, history, SMsgRcv
<1>4. CASE SMsgSnd
  BY <1>4 DEF IInv, Lengths, TypeOK, clientVars, SMsgSnd
<1>5. CASE Advance
  BY <1>5 DEF IInv, Lengths, TypeOK, clientVars, history, Advance
<1>6. CASE Handler
  BY <1>6 DEF IInv, Lengths, TypeOK, NoQueue, clientVars, history, Handler
<1>7. CASE KilledEarly
  BY <1>7 DEF IInv, Lengths, TypeOK, clientVars, history, KilledEarly
<1>8. ASSUME NEW c \in Clients, CMsgGet(c) PROVE Lengths'
  BY <1>8 DEF IInv, Lengths, TypeOK, serverVars, history, CMsgGet
<1>9. ASSUME NEW c \in Clients, CMsgSnd(c) PROVE Lengths'
  BY <1>9 DEF IInv, Lengths, TypeOK, serverVars, history, CMsgSnd
<1>10. ASSUME NEW c \in Clients, CMsgRcv(c) PROVE Lengths'
  BY <1>10 DEF IInv, Lengths, TypeOK, serverVars, history, CMsgRcv
<1>11. ASSUME NEW c \in Clients, CQueueGone(c) PROVE Lengths'
  BY <1>11 DEF IInv, Lengths, TypeOK, serverVars, history, CQueueGone
<1>12. ASSUME NEW c \in Clients, CKilled(c) PROVE Lengths'
  BY <1>12 DEF IInv, Lengths, TypeOK, serverVars, history, CKilled
<1>13. CASE UNCHANGED vars
  BY <1>13 DEF IInv, Lengths, TypeOK, vars
<1> QED
  BY <1>1, <1>2, <1>3, <1>4, <1>5, <1>6, <1>7, <1>8, <1>9, <1>10, <1>11, <1>12, <1>13 DEF Next, ServerStep, ClientStep

\* The programs start with IInv.
LEMMA InitInv == Init => IInv
  BY ConstAssumption DEF Init, IInv, TypeOK, QueueId, Messages, Replies, Counted, Lengths, NoQueue, NoRequest, Request

\* No step leaves IInv.
LEMMA StepInv == IInv /\ [Next]_vars => IInv'
  BY TypeStep, QueueIdStep, MessagesStep, RepliesStep, CountedStep, LengthsStep DEF IInv

\* IInv is an invariant of the specification.
LEMMA Invariance == Spec => []IInv
  BY InitInv, StepInv, PTL DEF Spec

\* A client prints what the server granted to it, for its own length and in the
\* run whose queue it opened, and all types are kept.
THEOREM OwnReplies == Spec => []OwnReply
<1>1. IInv => OwnReply
  BY DEF IInv, OwnReply, Replies
<1> QED
  BY <1>1, Invariance, PTL

\* Every step hands out the next interval to a client that has none, starts a
\* run, or does nothing that the service shows.
LEMMA StepRefines == IInv /\ [Next]_vars => [Service!Next]_<<run, handed, granted>>
<1> SUFFICES ASSUME IInv, [Next]_vars
             PROVE  [Service!Next]_<<run, handed, granted>>
  OBVIOUS
<1>1. CASE ServerStart
  BY <1>1 DEF ServerStart, Service!Next, Service!Restart, clientVars
<1>2. CASE SMsgSnd
  <2>1. req.clientId \in Clients /\ req.seqLen \in SeqLens /\ granted[req.clientId] = NoGrant
    BY <1>2 DEF SMsgSnd, IInv, TypeOK, Request, Messages, Asked
  <2>2. handed = seqNum
    BY <1>2 DEF SMsgSnd, IInv, Counted
  <2>3. Service!Grant(req.clientId, req.seqLen)
    BY <1>2, <2>1, <2>2 DEF SMsgSnd, Service!Grant
  <2> QED
    BY <2>1, <2>3 DEF Service!Next
<1>3. CASE Sigaction \/ SMsgRcv \/ Advance \/ Handler \/ KilledEarly
  BY <1>3 DEF Sigaction, SMsgRcv, Advance, Handler, KilledEarly, history
<1>4. ASSUME NEW c \in Clients,
             CMsgGet(c) \/ CMsgSnd(c) \/ CMsgRcv(c) \/ CQueueGone(c) \/ CKilled(c)
      PROVE  UNCHANGED <<run, handed, granted>>
  BY <1>4 DEF CMsgGet, CMsgSnd, CMsgRcv, CQueueGone, CKilled, serverVars, history
<1>5. CASE UNCHANGED vars
  BY <1>5 DEF vars
<1> QED
  BY <1>1, <1>2, <1>3, <1>4, <1>5 DEF Next, ServerStep, ClientStep

\* The two programs implement the service: numbers are handed out in consecutive
\* intervals from 0 in each run, and no client gets two.
THEOREM Refinement == Spec => ImplementsService
<1>1. Init => Service!Init
  BY DEF Init, Service!Init
<1> QED
  BY <1>1, StepRefines, Invariance, PTL DEF Spec, ImplementsService, Service!Spec
=============================================================================
