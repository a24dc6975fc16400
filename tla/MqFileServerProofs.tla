------------------------- MODULE MqFileServerProofs -------------------------
(***************************************************************************)
(* For any clients, files, queue length, descriptors and server runs: what  *)
(* a client gets is its own file up to the first chunk that begins with     *)
(* NUL or cannot be read, and at most one client per server run is told     *)
(* what the server's stack held.  The key to both is that a request is in   *)
(* one place only (Requests), so that all messages of a client come from    *)
(* one run, and that queue and client together hold a beginning of the file *)
(* (Streams).                                                               *)
(***************************************************************************)
EXTENDS MqFileServer, FiniteSetTheorems, WellFoundedInduction, TLAPS

\* The server has sent this client nothing yet.
Quiet(c) == mq[c] = <<>> /\ got[c] = <<>>

Waiting(c) == \E k \in DOMAIN serverMq : serverMq[k] = c
Serves(c) == req = c /\ spc \in {"openClient", "openFile", "read", "send", "sendEnd"}

\* A client asks once, and has one request in the queue or in the server.
Requests ==
    /\ \A j, k \in DOMAIN serverMq : serverMq[j] = serverMq[k] => j = k
    /\ \A c \in Clients : cpc[c] \in {"off", "openServer", "send"} => ~Waiting(c) /\ ~Serves(c)
    /\ \A c \in Clients : Waiting(c) => ~Serves(c)
    /\ \A c \in Clients : cpc[c] \in {"off", "openServer", "send"} \/ Waiting(c) => Quiet(c)
    /\ spc \in {"openClient", "openFile"} => Quiet(req)

\* The n-th message about a file.
MessageAt(f, n, m) ==
    \/ /\ n \in DOMAIN f /\ f[n] # "error"
       /\ m.chunk = n /\ m.nul = (f[n] = "nul") /\ (~m.zeroed => n = 1)
    \/ n =< Len(f) + 1 /\ AtEnd(f, n - 1) /\ m = EndMark

\* A client that still reads has got the first chunks, and the next messages are
\* in its queue; one that has stopped has met the end, or a chunk that begins
\* with NUL.
Stream(c) ==
    /\ got[c] # <<>> \/ (cpc[c] = "receive" /\ mq[c] # <<>>) => file[c] # Missing
    /\ \A k \in DOMAIN got[c] : got[c][k] = k /\ k \in DOMAIN file[c] /\ file[c][k] = "text"
    /\ cpc[c] = "receive" =>
         \A k \in DOMAIN mq[c] : MessageAt(file[c], Len(got[c]) + k, mq[c][k])
    /\ cpc[c] \in {"unlink", "done"} =>
         /\ file[c] # Missing
         /\ \/ Len(got[c]) = Len(file[c])
            \/ Len(got[c]) + 1 \in DOMAIN file[c] /\ file[c][Len(got[c]) + 1] # "text"

Streams == \A c \in Clients : Stream(c)

\* How far the server is with a file.
Serving ==
    /\ spc \in {"read", "send", "sendEnd"} =>
         /\ file[req] # Missing /\ pos =< Len(file[req])
         /\ cpc[req] = "receive" =>
              Len(got[req]) + Len(mq[req]) = IF spc = "send" THEN pos - 1 ELSE pos
    /\ spc = "send" => pos >= 1 /\ file[req][pos] # "error"
    /\ spc = "sendEnd" => AtEnd(file[req], pos)
    /\ ~zeroed => (spc = "read" => pos = 0) /\ (spc = "send" => pos = 1)

\* The descriptors that the rest of the loop will close are open.
Descriptors ==
    /\ spc \in {"receive", "openClient"} => fds >= 1
    /\ spc \in {"openFile", "sendEnd"} => fds >= 2
    /\ spc \in {"read", "send"} => fds >= 3

\* One byte too many, for a message that has something old behind its chunk.
Bytes ==
    \A c \in Clients : bytes[c] - Len(got[c]) \in {0, 1} /\ (got[c] = <<>> => bytes[c] = 0)

\* The clients that have been told, or will be, what the stack held.
Told == {c \in Clients : bytes[c] # Len(got[c]) \/ \E k \in DOMAIN mq[c] : ~mq[c][k].zeroed}
Fresh == ~zeroed /\ spc \notin {"off", "killed"}
ToldOnce == Cardinality(Told) =< IF Fresh THEN run - 1 ELSE run

IInv == TypeOK /\ Requests /\ Streams /\ Serving /\ Descriptors /\ Bytes /\ ToldOnce
-----------------------------------------------------------------------------
\* The messages that the server sends are messages.
LEMMA MessageTypes ==
    ASSUME TypeOK
    PROVE  Chunk \in Message /\ EndMark \in Message
  BY DEF TypeOK, Chunk, EndMark, Message

\* Every step keeps the types.
LEMMA TypeStep == IInv /\ [Next]_vars => TypeOK'
<1> SUFFICES ASSUME IInv, [Next]_vars PROVE TypeOK'
  OBVIOUS
<1>0. TypeOK /\ Descriptors
  BY DEF IInv
<1>1. CASE SStart
  BY <1>0, <1>1, ConstAssumption DEF SStart, TypeOK, clientVars
<1>2. CASE SReceive
  <2>1. Head(serverMq) \in Clients /\ Tail(serverMq) \in Seq(Clients) /\ Len(Tail(serverMq)) =< MAXMSG
    BY <1>0, <1>2, ConstAssumption DEF SReceive, TypeOK
  <2> QED BY <1>0, <1>2, <2>1 DEF SReceive, TypeOK, clientVars
<1>3. CASE SOpenClient
  BY <1>0, <1>3, ConstAssumption DEF SOpenClient, TypeOK, clientVars
<1>4. CASE SOpenFile
  BY <1>0, <1>4, ConstAssumption DEF SOpenFile, TypeOK, clientVars
<1>5. CASE SRead
  BY <1>0, <1>5, ConstAssumption DEF SRead, TypeOK, clientVars, Descriptors
<1>6. CASE SSend \/ SSendEnd
  <2>1. PICK m \in Message : mq' = [mq EXCEPT ![req] = Append(@, m)]
    BY <1>0, <1>6, MessageTypes DEF SSend, SSendEnd
  <2>2. /\ Len(mq[req]) < MAXMSG /\ req \in Clients /\ mq[req] \in Seq(Message)
    BY <1>0, <1>6 DEF SSend, SSendEnd, TypeOK
  <2>3. Append(mq[req], m) \in Seq(Message) /\ Len(Append(mq[req], m)) =< MAXMSG
    BY <2>2, ConstAssumption
  <2>4. mq' \in [Clients -> Seq(Message)] /\ \A c \in Clients : Len(mq'[c]) =< MAXMSG
    BY <1>0, <2>1, <2>2, <2>3 DEF TypeOK
  <2>5. /\ UNCHANGED <<serverMq, exists, file, run, req, pos, clientVars>>
        /\ fds' \in 0..OPEN_MAX /\ spc' \in {"read", "receive"}
    BY <1>0, <1>6, ConstAssumption DEF SSend, SSendEnd, TypeOK, Descriptors
  <2>6. zeroed' \in BOOLEAN
    BY <1>0, <1>6 DEF SSend, SSendEnd, TypeOK
  <2> QED BY <1>0, <2>4, <2>5, <2>6 DEF TypeOK, clientVars
<1>7. CASE SKilled
  BY <1>0, <1>7, ConstAssumption DEF SKilled, TypeOK, clientVars
<1>8. ASSUME NEW c \in Clients, CCreate(c) \/ COpenServer(c) \/ CUnlink(c) \/ CKilled(c) PROVE TypeOK'
  BY <1>0, <1>8 DEF CCreate, COpenServer, CUnlink, CKilled, TypeOK, serverVars
<1>9. ASSUME NEW c \in Clients, CSend(c) PROVE TypeOK'
  <2>1. Append(serverMq, c) \in Seq(Clients) /\ Len(Append(serverMq, c)) =< MAXMSG
    BY <1>0, <1>9, ConstAssumption DEF CSend, TypeOK
  <2> QED BY <1>0, <1>9, <2>1 DEF CSend, TypeOK, serverVars
<1>10. ASSUME NEW c \in Clients, CReceive(c) PROVE TypeOK'
  <2>1. mq[c] \in Seq(Message) /\ mq[c] # <<>> /\ Len(mq[c]) =< MAXMSG
    BY <1>0, <1>10 DEF CReceive, TypeOK
  <2>2. /\ Tail(mq[c]) \in Seq(Message) /\ Len(Tail(mq[c])) =< MAXMSG
        /\ Head(mq[c]).chunk \in Nat
    <3>1. Head(mq[c]) \in Message /\ Tail(mq[c]) \in Seq(Message) /\ Len(Tail(mq[c])) =< MAXMSG
      BY <2>1, ConstAssumption
    <3> QED BY <3>1 DEF Message
  <2>3. mq' \in [Clients -> Seq(Message)] /\ \A d \in Clients : Len(mq'[d]) =< MAXMSG
    BY <1>0, <1>10, <2>2 DEF CReceive, TypeOK
  <2>4. CASE Head(mq[c]).nul
    BY <1>0, <1>10, <2>3, <2>4 DEF CReceive, TypeOK, serverVars
  <2>5. CASE ~Head(mq[c]).nul
    <3>1. Append(got[c], Head(mq[c]).chunk) \in Seq(Nat)
      BY <1>0, <2>2 DEF TypeOK
    <3>2. got' \in [Clients -> Seq(Nat)]
      BY <1>0, <1>10, <2>5, <3>1 DEF CReceive, TypeOK
    <3>3. PICK n \in {1, 2} : bytes' = [bytes EXCEPT ![c] = @ + n]
      BY <1>10, <2>5 DEF CReceive
    <3>4. bytes' \in [Clients -> Nat]
      BY <1>0, <3>3 DEF TypeOK
    <3> QED BY <1>0, <1>10, <2>3, <2>5, <3>2, <3>4 DEF CReceive, TypeOK, serverVars
  <2> QED BY <2>4, <2>5
<1>11. CASE UNCHANGED vars
  BY <1>0, <1>11 DEF vars, TypeOK
<1> QED
  BY <1>1, <1>2, <1>3, <1>4, <1>5, <1>6, <1>7, <1>8, <1>9, <1>10, <1>11 DEF Next, ServerStep, ClientStep

\* A step that leaves the requests and the messages where they are.
LEMMA RequestsKept ==
    ASSUME Requests, UNCHANGED <<serverMq, mq, got>>,
           \A c \in Clients : Serves(c)' => Serves(c),
           \A c \in Clients : cpc'[c] \in {"off", "openServer", "send"}
                                => cpc[c] \in {"off", "openServer", "send"},
           spc' \in {"openClient", "openFile"} => Quiet(req')
    PROVE  Requests'
  BY DEF Requests, Waiting, Quiet

\* A client asks once.
LEMMA RequestsStep == IInv /\ [Next]_vars => Requests'
<1> SUFFICES ASSUME IInv, [Next]_vars PROVE Requests'
  OBVIOUS
<1>0. TypeOK /\ Requests
  BY DEF IInv
<1>1. CASE SStart \/ SOpenClient \/ SOpenFile \/ SRead \/ SKilled \/ UNCHANGED vars
  <2>1. /\ UNCHANGED <<serverMq, mq, got, cpc>>
        /\ \A c \in Clients : Serves(c)' => Serves(c)
        /\ spc' \in {"openClient", "openFile"} => spc \in {"openClient", "openFile"} /\ req' = req
    BY <1>1 DEF SStart, SOpenClient, SOpenFile, SRead, SKilled, vars, clientVars, Serves
  <2> QED BY <1>0, <2>1, RequestsKept DEF Requests
<1>2. CASE SReceive
  <2>1. /\ serverMq \in Seq(Clients) /\ serverMq # <<>> /\ serverMq' = Tail(serverMq)
        /\ req' = Head(serverMq) /\ spc' = "openClient" /\ spc = "receive"
        /\ UNCHANGED <<mq, got, cpc>>
    BY <1>0, <1>2 DEF SReceive, TypeOK, clientVars
  <2>2. /\ \A k \in DOMAIN serverMq' : k + 1 \in DOMAIN serverMq /\ serverMq'[k] = serverMq[k + 1] /\ k + 1 # 1
        /\ 1 \in DOMAIN serverMq /\ req' = serverMq[1] /\ req' \in Clients
        /\ \A k \in DOMAIN serverMq' : k \in Nat
    BY <2>1
  <2>3. \A c \in Clients : Waiting(c)' => Waiting(c) /\ c # req'
    <3>1. ASSUME NEW c \in Clients, NEW k \in DOMAIN serverMq', serverMq'[k] = c
          PROVE  Waiting(c) /\ c # req'
      BY <1>0, <2>2, <3>1 DEF Requests, Waiting
    <3> QED BY <3>1 DEF Waiting
  <2>4. Waiting(req') /\ \A c \in Clients : Serves(c)' => c = req'
    BY <2>2 DEF Waiting, Serves
  <2>5. \A j, k \in DOMAIN serverMq' : serverMq'[j] = serverMq'[k] => j = k
    <3>1. ASSUME NEW j \in DOMAIN serverMq', NEW k \in DOMAIN serverMq', serverMq'[j] = serverMq'[k]
          PROVE  j = k
      <4>1. j + 1 = k + 1
        BY <1>0, <2>2, <3>1 DEF Requests
      <4> QED BY <2>2, <4>1
    <3> QED BY <3>1
  <2>6. \A c \in Clients : Quiet(c)' <=> Quiet(c)
    BY <2>1 DEF Quiet
  <2>7. Quiet(req')
    BY <1>0, <2>2, <2>4 DEF Requests
  <2>8. Quiet(req)'
    BY <2>1, <2>7 DEF Quiet
  <2>9. \A c \in Clients : cpc[c] \in {"off", "openServer", "send"} => ~Waiting(c) /\ Quiet(c)
    BY <1>0 DEF Requests
  <2>10. \A c \in Clients : Waiting(c) => Quiet(c)
    BY <1>0 DEF Requests
  <2>11. /\ \A c \in Clients : cpc'[c] \in {"off", "openServer", "send"} => ~Waiting(c)' /\ ~Serves(c)'
         /\ \A c \in Clients : Waiting(c)' => ~Serves(c)'
         /\ \A c \in Clients : cpc'[c] \in {"off", "openServer", "send"} \/ Waiting(c)' => Quiet(c)'
    BY <2>1, <2>3, <2>4, <2>6, <2>9, <2>10
  <2> QED BY <2>5, <2>8, <2>11 DEF Requests
<1>3. CASE SSend \/ SSendEnd
  <2>1. /\ Serves(req) /\ spc' \notin {"openClient", "openFile"} /\ req' = req /\ req \in Clients
        /\ UNCHANGED <<serverMq, got, cpc>> /\ \A c \in Clients : c # req => mq'[c] = mq[c]
    BY <1>0, <1>3 DEF SSend, SSendEnd, TypeOK, Serves, clientVars
  <2>2. \A c \in Clients : Serves(c)' => Serves(c)
    BY <2>1 DEF Serves
  <2>3. \A c \in Clients : (cpc[c] \in {"off", "openServer", "send"} \/ Waiting(c)) => c # req
    BY <1>0, <2>1 DEF Requests
  <2> QED BY <1>0, <2>1, <2>2, <2>3 DEF Requests, Waiting, Quiet
<1>4. ASSUME NEW c \in Clients, CCreate(c) \/ COpenServer(c) \/ CUnlink(c) \/ CKilled(c) PROVE Requests'
  <2>1. /\ UNCHANGED <<serverMq, mq, got, spc, req>>
        /\ \A d \in Clients : d # c => cpc'[d] = cpc[d]
        /\ cpc'[c] \in {"off", "openServer", "send"} => cpc[c] \in {"off", "openServer", "send"}
    BY <1>0, <1>4 DEF CCreate, COpenServer, CUnlink, CKilled, TypeOK, serverVars
  <2>2. \A d \in Clients : Serves(d)' => Serves(d)
    BY <2>1 DEF Serves
  <2> QED BY <1>0, <2>1, <2>2, RequestsKept DEF Requests
<1>5. ASSUME NEW c \in Clients, CSend(c) PROVE Requests'
  <2>1. /\ serverMq \in Seq(Clients) /\ serverMq' = Append(serverMq, c)
        /\ UNCHANGED <<mq, got, spc, req>> /\ cpc[c] = "send"
        /\ \A d \in Clients : d # c => cpc'[d] = cpc[d]
        /\ cpc'[c] = "receive"
    BY <1>0, <1>5 DEF CSend, TypeOK, serverVars
  <2>2. ~Waiting(c) /\ ~Serves(c) /\ Quiet(c)
    BY <1>0, <2>1 DEF Requests
  <2>3. /\ DOMAIN serverMq' = 1..(Len(serverMq) + 1) /\ DOMAIN serverMq = 1..Len(serverMq) /\ Len(serverMq) \in Nat
        /\ \A k \in DOMAIN serverMq : serverMq'[k] = serverMq[k]
        /\ serverMq'[Len(serverMq) + 1] = c
    BY <2>1
  <2>4. \A d \in Clients : Waiting(d)' => Waiting(d) \/ d = c
    BY <2>3 DEF Waiting
  <2>5. \A j, k \in DOMAIN serverMq' : serverMq'[j] = serverMq'[k] => j = k
    BY <1>0, <2>2, <2>3 DEF Waiting, Requests
  <2>6. \A d \in Clients : (Quiet(d)' <=> Quiet(d)) /\ (Serves(d)' <=> Serves(d))
    BY <2>1 DEF Quiet, Serves
  <2>7. spc' \in {"openClient", "openFile"} => Quiet(req)'
    BY <1>0, <2>1, <2>6 DEF Requests, TypeOK
  <2> QED BY <1>0, <2>1, <2>2, <2>4, <2>5, <2>6, <2>7 DEF Requests
<1>6. ASSUME NEW c \in Clients, CReceive(c) PROVE Requests'
  <2>1. /\ cpc[c] = "receive" /\ ~Quiet(c) /\ UNCHANGED <<serverMq, spc, req>>
        /\ cpc'[c] \in {"receive", "unlink"}
        /\ \A d \in Clients : d # c => mq'[d] = mq[d] /\ got'[d] = got[d] /\ cpc'[d] = cpc[d]
    BY <1>0, <1>6 DEF CReceive, TypeOK, Quiet, serverVars
  <2>2. ~Waiting(c) /\ (spc \in {"openClient", "openFile"} => req # c)
    BY <1>0, <2>1 DEF Requests
  <2>3. \A d \in Clients : (Waiting(d)' <=> Waiting(d)) /\ (Serves(d)' <=> Serves(d)) /\ (d # c => (Quiet(d)' <=> Quiet(d)))
    BY <2>1 DEF Quiet, Serves, Waiting
  <2>4. spc' \in {"openClient", "openFile"} => Quiet(req)'
    BY <1>0, <2>1, <2>2, <2>3 DEF Requests, TypeOK
  <2>5. \A j, k \in DOMAIN serverMq' : serverMq'[j] = serverMq'[k] => j = k
    BY <1>0, <2>1 DEF Requests
  <2> QED BY <1>0, <2>1, <2>2, <2>3, <2>4, <2>5 DEF Requests
<1> QED
  BY <1>1, <1>2, <1>3, <1>4, <1>5, <1>6 DEF Next, ServerStep, ClientStep
-----------------------------------------------------------------------------
\* A file that can be opened is a sequence of chunks.
LEMMA FileType ==
    ASSUME TypeOK, NEW c \in Clients, file[c] # Missing
    PROVE  /\ file[c] \in Seq({"text", "nul", "error"}) /\ Len(file[c]) \in Nat
           /\ DOMAIN file[c] = 1..Len(file[c])
<1>1. file[c] \in Seq({"text", "nul", "error"})
  BY ConstAssumption DEF TypeOK
<1> QED BY <1>1

\* A step that leaves a client's messages alone.
LEMMA StreamKept ==
    ASSUME NEW c \in Clients, Stream(c), file' = file, mq'[c] = mq[c], got'[c] = got[c],
           cpc'[c] = "receive" => cpc[c] = "receive",
           cpc'[c] \in {"unlink", "done"} => cpc[c] \in {"unlink", "done"}
    PROVE  Stream(c)'
  BY DEF Stream, MessageAt

\* What the server sends is the next message about the file.
LEMMA StreamSend ==
    ASSUME IInv, NEW c \in Clients, SSend \/ SSendEnd
    PROVE  Stream(c)'
<1>0. TypeOK /\ Stream(c) /\ Serving
  BY DEF IInv, Streams
<1>1. CASE c # req
  <2>1. file' = file /\ mq'[c] = mq[c] /\ got'[c] = got[c] /\ cpc'[c] = cpc[c]
    BY <1>1 DEF SSend, SSendEnd, clientVars, IInv, TypeOK
  <2> QED BY <1>0, <2>1, StreamKept
<1>2. CASE c = req
  <2> DEFINE f == file[c]
             n == Len(got[c])
  <2>1. /\ UNCHANGED <<file, got, cpc>> /\ mq[c] \in Seq(Message) /\ Len(mq[c]) \in Nat
        /\ got[c] \in Seq(Nat) /\ n \in Nat
    BY <1>0, <1>2 DEF SSend, SSendEnd, clientVars, TypeOK
  <2>2. f # Missing /\ pos =< Len(f) /\ pos \in Nat /\ Len(f) \in Nat /\ DOMAIN f = 1..Len(f)
    <3>1. spc \in {"send", "sendEnd"}
      BY DEF SSend, SSendEnd
    <3>2. f # Missing /\ pos =< Len(f) /\ pos \in Nat
      BY <1>0, <1>2, <3>1 DEF Serving, TypeOK
    <3> QED BY <1>0, <3>2, FileType
  <2>3. ASSUME cpc[c] = "receive"
        PROVE  \E m \in Message : mq'[c] = Append(mq[c], m) /\ MessageAt(f, n + Len(mq[c]) + 1, m)
    <3>1. CASE SSend
      <4>1. mq'[c] = Append(mq[c], Chunk) /\ Chunk \in Message
        BY <1>0, <1>2, <3>1, MessageTypes DEF SSend, TypeOK
      <4>2. n + Len(mq[c]) = pos - 1 /\ pos >= 1 /\ (~zeroed => pos = 1) /\ f[pos] # "error"
        BY <1>0, <1>2, <2>3, <3>1 DEF SSend, Serving
      <4>3. n + Len(mq[c]) + 1 = pos /\ pos \in DOMAIN f
        <5> HIDE DEF f, n
        <5> QED BY <2>1, <2>2, <4>2
      <4>4. Chunk.chunk = pos /\ Chunk.nul = (f[pos] = "nul") /\ Chunk.zeroed = zeroed
        BY <1>2 DEF Chunk
      <4>5. MessageAt(f, pos, Chunk)
        BY <4>2, <4>3, <4>4 DEF MessageAt
      <4> QED BY <4>1, <4>3, <4>5
    <3>2. CASE SSendEnd
      <4>1. mq'[c] = Append(mq[c], EndMark) /\ EndMark \in Message
        BY <1>0, <1>2, <3>2, MessageTypes DEF SSendEnd, TypeOK
      <4>2. n + Len(mq[c]) = pos /\ AtEnd(f, pos)
        BY <1>0, <1>2, <2>3, <3>2 DEF SSendEnd, Serving
      <4>3. pos + 1 =< Len(f) + 1 /\ (pos + 1) - 1 = pos
        <5> HIDE DEF f
        <5> QED BY <2>2
      <4>4. MessageAt(f, pos + 1, EndMark)
        BY <4>2, <4>3 DEF MessageAt
      <4>5. n + Len(mq[c]) + 1 = pos + 1
        BY <4>2
      <4> QED BY <4>1, <4>4, <4>5
    <3> QED BY <3>1, <3>2
  <2>4. cpc[c] = "receive" => \A k \in DOMAIN mq'[c] : MessageAt(f, n + k, mq'[c][k])
    <3>1. SUFFICES ASSUME cpc[c] = "receive", NEW k \in DOMAIN mq'[c]
                   PROVE  MessageAt(f, n + k, mq'[c][k])
      OBVIOUS
    <3>2. PICK m \in Message : mq'[c] = Append(mq[c], m) /\ MessageAt(f, n + Len(mq[c]) + 1, m)
      BY <2>3, <3>1
    <3>3. CASE k = Len(mq[c]) + 1
      <4>1. mq'[c][k] = m /\ n + k = n + Len(mq[c]) + 1
        <5> HIDE DEF n
        <5> QED BY <2>1, <3>2, <3>3
      <4> QED BY <3>2, <4>1
    <3>4. CASE k # Len(mq[c]) + 1
      <4>1. k \in DOMAIN mq[c] /\ mq'[c][k] = mq[c][k]
        BY <2>1, <3>2, <3>4
      <4> QED BY <1>0, <3>1, <4>1 DEF Stream
    <3> QED BY <3>3, <3>4
  <2>5. (f[n + 1])' = f[n + 1] /\ f' = f /\ got'[c] = got[c] /\ cpc'[c] = cpc[c]
    BY <2>1
  <2> QED BY <1>0, <2>1, <2>2, <2>4, <2>5 DEF Stream
<1> QED BY <1>1, <1>2

\* The client takes the next message, and stops at one that begins with NUL.
LEMMA StreamReceive ==
    ASSUME IInv, NEW c \in Clients, CReceive(c)
    PROVE  Stream(c)'
<1> DEFINE f == file[c]
           n == Len(got[c])
<1>0. TypeOK /\ Stream(c)
  BY DEF IInv, Streams
<1>1. /\ cpc[c] = "receive" /\ mq[c] # <<>> /\ file' = file /\ mq'[c] = Tail(mq[c])
      /\ mq[c] \in Seq(Message) /\ got[c] \in Seq(Nat) /\ n \in Nat
  BY <1>0 DEF CReceive, TypeOK, serverVars
<1>2. f # Missing /\ Len(f) \in Nat /\ DOMAIN f = 1..Len(f) /\ f \in Seq({"text", "nul", "error"})
  BY <1>0, <1>1, FileType DEF Stream
<1>3. Head(mq[c]) = mq[c][1] /\ 1 \in DOMAIN mq[c] /\ MessageAt(f, n + 1, mq[c][1])
  <2>1. Head(mq[c]) = mq[c][1] /\ 1 \in DOMAIN mq[c]
    BY <1>1
  <2> QED BY <1>0, <1>1, <2>1 DEF Stream
<1>4. CASE Head(mq[c]).nul
  <2>1. cpc'[c] = "unlink" /\ got' = got
    BY <1>0, <1>4 DEF CReceive, TypeOK
  <2>2. n = Len(f) \/ (n + 1 \in DOMAIN f /\ f[n + 1] # "text")
    <3>1. \/ n + 1 \in DOMAIN f /\ f[n + 1] = "nul"
          \/ n + 1 =< Len(f) + 1 /\ AtEnd(f, (n + 1) - 1)
      BY <1>3, <1>4 DEF MessageAt
    <3>2. n \in Nat /\ Len(f) \in Nat /\ DOMAIN f = 1..Len(f)
      BY <1>1, <1>2
    <3> HIDE DEF f, n
    <3>3. (n + 1) - 1 = n
      BY <3>2
    <3>4. n # Len(f) /\ n + 1 =< Len(f) + 1 => n + 1 \in DOMAIN f
      <4> DEFINE l == Len(f)
      <4>1. l \in Nat /\ DOMAIN f = 1..l
        BY <3>2
      <4> HIDE DEF l
      <4>2. n # l /\ n + 1 =< l + 1 => n + 1 \in 1..l
        BY <3>2, <4>1
      <4> QED BY <4>1, <4>2 DEF l
    <3> QED BY <3>1, <3>3, <3>4 DEF AtEnd
  <2> QED BY <1>0, <1>1, <1>2, <2>1, <2>2 DEF Stream
<1>5. CASE ~Head(mq[c]).nul
  <2>1. n + 1 \in DOMAIN f /\ Head(mq[c]).chunk = n + 1 /\ f[n + 1] = "text"
    <3>1. mq[c][1] # EndMark
      BY <1>3, <1>5 DEF EndMark
    <3>2. n + 1 \in DOMAIN f /\ Head(mq[c]).chunk = n + 1 /\ f[n + 1] \notin {"nul", "error"}
      BY <1>3, <1>5, <3>1 DEF MessageAt
    <3> QED BY <1>2, <3>2
  <2>2. got'[c] = Append(got[c], n + 1) /\ cpc'[c] = "receive"
    BY <1>0, <1>1, <1>5, <2>1 DEF CReceive, TypeOK
  <2>3. \A k \in DOMAIN got'[c] : got'[c][k] = k /\ k \in DOMAIN f /\ f[k] = "text"
    BY <1>0, <1>1, <2>1, <2>2 DEF Stream
  <2>4. \A k \in DOMAIN mq'[c] : MessageAt(f, Len(got'[c]) + k, mq'[c][k])
    <3>1. SUFFICES ASSUME NEW k \in DOMAIN mq'[c]
                   PROVE  MessageAt(f, Len(got'[c]) + k, mq'[c][k])
      OBVIOUS
    <3>2. k + 1 \in DOMAIN mq[c] /\ mq'[c][k] = mq[c][k + 1] /\ k \in Nat
      BY <1>1
    <3>3. Len(got'[c]) + k = n + (k + 1)
      <4>1. Len(got'[c]) = n + 1
        BY <1>1, <2>2
      <4> HIDE DEF n
      <4> QED BY <1>1, <3>2, <4>1
    <3>4. MessageAt(f, n + (k + 1), mq[c][k + 1])
      BY <1>0, <1>1, <3>2 DEF Stream
    <3> QED BY <3>2, <3>3, <3>4
  <2> QED BY <1>1, <1>2, <2>2, <2>3, <2>4 DEF Stream
<1> QED BY <1>4, <1>5

\* A client gets a beginning of its file, message by message.
LEMMA StreamsStep == IInv /\ [Next]_vars => Streams'
<1> SUFFICES ASSUME IInv, [Next]_vars, NEW c \in Clients PROVE Stream(c)'
  BY DEF Streams
<1>0. TypeOK /\ Stream(c)
  BY DEF IInv, Streams
<1>1. CASE SStart \/ SReceive \/ SOpenClient \/ SOpenFile \/ SRead \/ SKilled \/ UNCHANGED vars
  <2>1. UNCHANGED <<mq, file, got, cpc>>
    BY <1>1 DEF SStart, SReceive, SOpenClient, SOpenFile, SRead, SKilled, vars, clientVars
  <2> QED BY <1>0, <2>1, StreamKept
<1>2. CASE SSend \/ SSendEnd
  BY <1>2, StreamSend
<1>3. ASSUME NEW d \in Clients, CCreate(d) \/ COpenServer(d) \/ CUnlink(d) \/ CKilled(d) PROVE Stream(c)'
  <2>1. /\ UNCHANGED <<mq, file, got>>
        /\ cpc'[c] = "receive" => cpc[c] = "receive"
        /\ cpc'[c] \in {"unlink", "done"} => cpc[c] \in {"unlink", "done"}
    BY <1>0, <1>3 DEF CCreate, COpenServer, CUnlink, CKilled, TypeOK
  <2> QED BY <1>0, <2>1, StreamKept
<1>4. ASSUME NEW d \in Clients, CSend(d) PROVE Stream(c)'
  <2>1. UNCHANGED <<mq, file, got>> /\ (c # d => cpc'[c] = cpc[c]) /\ cpc[d] = "send"
    BY <1>0, <1>4 DEF CSend, TypeOK, serverVars
  <2>2. CASE c # d
    BY <1>0, <2>1, <2>2, StreamKept
  <2>3. CASE c = d
    <3>1. Quiet(c) /\ cpc'[c] = "receive"
      BY <1>0, <1>4, <2>1, <2>3 DEF CSend, TypeOK, IInv, Requests
    <3>2. mq'[c] = <<>> /\ got'[c] = <<>> /\ DOMAIN mq'[c] = {} /\ DOMAIN got'[c] = {}
      BY <2>1, <3>1 DEF Quiet
    <3> QED BY <3>1, <3>2 DEF Stream
  <2> QED BY <2>2, <2>3
<1>5. ASSUME NEW d \in Clients, CReceive(d) PROVE Stream(c)'
  <2>1. CASE c = d
    BY <1>5, <2>1, StreamReceive
  <2>2. CASE c # d
    <3>1. file' = file /\ mq'[c] = mq[c] /\ got'[c] = got[c] /\ cpc'[c] = cpc[c]
      BY <1>0, <1>5, <2>2 DEF CReceive, TypeOK
    <3> QED BY <1>0, <3>1, StreamKept
  <2> QED BY <2>1, <2>2
<1> QED
  BY <1>1, <1>2, <1>3, <1>4, <1>5 DEF Next, ServerStep, ClientStep
-----------------------------------------------------------------------------
\* The server's position in the file is that of the messages it has sent.
LEMMA ServingStep == IInv /\ [Next]_vars => Serving'
<1> SUFFICES ASSUME IInv, [Next]_vars PROVE Serving'
  OBVIOUS
<1>0. TypeOK /\ Serving /\ Requests /\ req \in Clients /\ pos \in Nat
  BY DEF IInv, TypeOK
<1>1. CASE SStart \/ SReceive \/ SOpenClient \/ SKilled \/ SSendEnd
  <2>1. spc' \notin {"read", "send", "sendEnd"}
    BY <1>1 DEF SStart, SReceive, SOpenClient, SKilled, SSendEnd
  <2> QED BY <2>1 DEF Serving
<1>2. CASE SOpenFile
  <2>1. pos' = 0 /\ UNCHANGED <<mq, file, got, cpc, req>> /\ spc' \in {"read", "receive"}
        /\ (spc' = "read" => file[req] # Missing) /\ spc = "openFile"
    BY <1>2 DEF SOpenFile, clientVars
  <2>2. Len(got[req]) + Len(mq[req]) = 0
    <3>1. got[req] = <<>> /\ mq[req] = <<>>
      BY <1>0, <2>1 DEF Requests, Quiet
    <3>2. Len(got[req]) = 0 /\ Len(mq[req]) = 0
      BY <3>1
    <3> QED BY <3>2
  <2>3. spc' = "read" => Len(file[req]) \in Nat
    BY <1>0, <2>1, FileType
  <2>4. spc' = "read" => 0 =< Len(file[req])
    BY <2>3
  <2>5. Len(got'[req']) + Len(mq'[req']) = 0
    BY <2>1, <2>2
  <2> QED BY <2>1, <2>4, <2>5 DEF Serving
<1>3. CASE SRead
  <2>1. spc = "read" /\ UNCHANGED <<mq, file, got, cpc, req, zeroed>>
    BY <1>3 DEF SRead, clientVars
  <2>2. file[req] # Missing /\ pos =< Len(file[req]) /\ Len(file[req]) \in Nat /\ (~zeroed => pos = 0)
    <3>1. file[req] # Missing /\ pos =< Len(file[req]) /\ (~zeroed => pos = 0)
      BY <1>0, <2>1 DEF Serving
    <3> QED BY <1>0, <3>1, FileType
  <2>3. \/ /\ pos < Len(file[req]) /\ file[req][pos + 1] # "error"
           /\ pos' = pos + 1 /\ spc' = "send"
        \/ AtEnd(file[req], pos) /\ pos' = pos /\ spc' = "sendEnd"
    <3>1. CASE AtEnd(file[req], pos)
      BY <1>3, <3>1 DEF SRead
    <3>2. CASE ~AtEnd(file[req], pos)
      <4>1. pos # Len(file[req]) /\ file[req][pos + 1] # "error"
        BY <3>2 DEF AtEnd
      <4>2. pos < Len(file[req])
        <5> DEFINE l == Len(file[req])
        <5>1. l \in Nat /\ pos =< l /\ pos # l
          BY <2>2, <4>1
        <5> HIDE DEF l
        <5> QED BY <1>0, <5>1 DEF l
      <4> QED BY <1>3, <3>2, <4>1, <4>2 DEF SRead
    <3> QED BY <3>1, <3>2
  <2>4. cpc[req] = "receive" => Len(got[req]) + Len(mq[req]) = pos
    BY <1>0, <2>1 DEF Serving
  <2> DEFINE sum == Len(got[req]) + Len(mq[req])
  <2>5. Len(got'[req']) + Len(mq'[req']) = sum
    BY <2>1
  <2>6. cpc'[req'] = "receive" => sum = IF spc' = "send" THEN pos' - 1 ELSE pos'
    <3> HIDE DEF sum
    <3>1. cpc[req] = "receive" => sum = pos
      BY <2>4 DEF sum
    <3> QED BY <1>0, <2>1, <2>3, <3>1
  <2>7. /\ pos' =< Len(file'[req'])
        /\ spc' = "send" => pos' >= 1 /\ file'[req'][pos'] # "error"
        /\ spc' = "sendEnd" => AtEnd(file'[req'], pos')
    <3> DEFINE f == file[req]
               l == Len(file[req])
    <3>1. l \in Nat /\ pos =< l /\ (\/ pos < l /\ f[pos + 1] # "error" /\ pos' = pos + 1 /\ spc' = "send"
                                    \/ AtEnd(f, pos) /\ pos' = pos /\ spc' = "sendEnd")
      BY <2>2, <2>3
    <3>2. file'[req'] = f /\ Len(file'[req']) = l
      BY <2>1
    <3> HIDE DEF l, f
    <3> QED BY <1>0, <3>1, <3>2
  <2>8. ~zeroed' => (spc' = "send" => pos' = 1) /\ spc' # "read"
    BY <2>1, <2>2, <2>3
  <2> HIDE DEF sum
  <2> QED BY <2>1, <2>2, <2>5, <2>6, <2>7, <2>8 DEF Serving
<1>4. CASE SSend
  <2>1. /\ spc = "send" /\ spc' = "read" /\ UNCHANGED <<file, got, cpc, req, pos>> /\ zeroed' = TRUE
        /\ mq'[req] = Append(mq[req], Chunk) /\ mq[req] \in Seq(Message) /\ got[req] \in Seq(Nat)
    BY <1>0, <1>4 DEF SSend, clientVars, TypeOK
  <2>2. Len(mq'[req]) = Len(mq[req]) + 1 /\ Len(mq[req]) \in Nat /\ Len(got[req]) \in Nat
    BY <2>1
  <2>3. file[req] # Missing /\ pos =< Len(file[req])
    BY <1>0, <2>1 DEF Serving
  <2>4. cpc[req] = "receive" => Len(got[req]) + Len(mq[req]) = pos - 1
    BY <1>0, <2>1 DEF Serving
  <2>5. cpc[req] = "receive" => Len(got[req]) + Len(mq'[req]) = pos
    <3> DEFINE g == Len(got[req])
               q == Len(mq[req])
    <3>1. g \in Nat /\ q \in Nat /\ Len(mq'[req]) = q + 1 /\ (cpc[req] = "receive" => g + q = pos - 1)
      BY <2>2, <2>4
    <3> HIDE DEF g, q
    <3>2. cpc[req] = "receive" => g + (q + 1) = pos
      BY <1>0, <3>1
    <3> QED BY <3>1, <3>2 DEF g
  <2> QED BY <2>1, <2>3, <2>5 DEF Serving
<1>5. ASSUME NEW c \in Clients, CCreate(c) \/ COpenServer(c) \/ CUnlink(c) \/ CKilled(c) PROVE Serving'
  <2>1. /\ UNCHANGED <<mq, file, got, spc, req, pos, zeroed>>
        /\ cpc'[req] = "receive" => cpc[req] = "receive"
    BY <1>0, <1>5 DEF CCreate, COpenServer, CUnlink, CKilled, TypeOK, serverVars
  <2> QED BY <1>0, <2>1 DEF Serving
<1>6. ASSUME NEW c \in Clients, CSend(c) PROVE Serving'
  <2>1. /\ UNCHANGED <<mq, file, got, spc, req, pos, zeroed>> /\ cpc[c] = "send"
        /\ \A d \in Clients : d # c => cpc'[d] = cpc[d]
    BY <1>0, <1>6 DEF CSend, TypeOK, serverVars
  <2>2. spc \in {"read", "send", "sendEnd"} => req # c
    BY <1>0, <2>1 DEF Requests, Serves
  <2> QED BY <1>0, <2>1, <2>2 DEF Serving
<1>7. ASSUME NEW c \in Clients, CReceive(c) PROVE Serving'
  <2>1. /\ UNCHANGED <<file, spc, req, pos, zeroed>>
        /\ \A d \in Clients : d # c => cpc'[d] = cpc[d] /\ mq'[d] = mq[d] /\ got'[d] = got[d]
    BY <1>0, <1>7 DEF CReceive, TypeOK, serverVars
  <2>2. CASE req # c
    BY <1>0, <2>1, <2>2 DEF Serving
  <2>3. CASE req = c
    <3>1. /\ mq[c] \in Seq(Message) /\ mq[c] # <<>> /\ mq'[c] = Tail(mq[c]) /\ cpc[c] = "receive"
          /\ got[c] \in Seq(Nat)
      BY <1>0, <1>7 DEF CReceive, TypeOK
    <3>2. Len(mq'[c]) = Len(mq[c]) - 1 /\ Len(mq[c]) \in Nat /\ Len(got[c]) \in Nat
      BY <3>1
    <3>3. cpc'[c] = "receive" => Len(got'[c]) = Len(got[c]) + 1
      <4>1. CASE Head(mq[c]).nul
        BY <1>0, <1>7, <4>1 DEF CReceive, TypeOK
      <4>2. CASE ~Head(mq[c]).nul
        <5>1. got'[c] = Append(got[c], Head(mq[c]).chunk)
          BY <1>0, <1>7, <4>2 DEF CReceive, TypeOK
        <5> QED BY <3>1, <5>1
      <4> QED BY <4>1, <4>2
    <3>4. cpc'[c] = "receive" => Len(got'[c]) + Len(mq'[c]) = Len(got[c]) + Len(mq[c])
      <4> DEFINE g == Len(got[c])
                 q == Len(mq[c])
      <4>1. g \in Nat /\ q \in Nat /\ Len(mq'[c]) = q - 1
            /\ (cpc'[c] = "receive" => Len(got'[c]) = g + 1)
        BY <3>2, <3>3
      <4>2. (g + 1) + (q - 1) = g + q
        <5> HIDE DEF g, q
        <5> QED BY <4>1
      <4> QED BY <4>1, <4>2
    <3> QED BY <1>0, <2>1, <2>3, <3>1, <3>4 DEF Serving
  <2> QED BY <2>2, <2>3
<1>8. CASE UNCHANGED vars
  BY <1>0, <1>8 DEF vars, Serving
<1> QED
  BY <1>1, <1>2, <1>3, <1>4, <1>5, <1>6, <1>7, <1>8 DEF Next, ServerStep, ClientStep

\* The server closes what it has open.
LEMMA DescriptorsStep == IInv /\ [Next]_vars => Descriptors'
<1> SUFFICES ASSUME IInv, [Next]_vars PROVE Descriptors'
  OBVIOUS
<1>1. fds \in Nat /\ Descriptors
  BY ConstAssumption DEF IInv, TypeOK
<1>2. CASE SStart \/ SReceive \/ SOpenClient \/ SOpenFile \/ SRead \/ SSend \/ SSendEnd \/ SKilled
  BY <1>1, <1>2 DEF SStart, SReceive, SOpenClient, SOpenFile, SRead, SSend, SSendEnd, SKilled, Descriptors
<1>3. CASE UNCHANGED <<spc, fds>>
  BY <1>1, <1>3 DEF Descriptors
<1> QED
  BY <1>2, <1>3 DEF Next, ServerStep, ClientStep, vars, serverVars,
     CCreate, COpenServer, CSend, CReceive, CUnlink, CKilled

\* What the stack held is counted with the first chunk, if at all.
LEMMA BytesStep == IInv /\ [Next]_vars => Bytes'
<1> SUFFICES ASSUME IInv, [Next]_vars PROVE Bytes'
  OBVIOUS
<1>0. TypeOK /\ Bytes /\ Streams
  BY DEF IInv
<1>1. CASE UNCHANGED <<got, bytes>>
  BY <1>0, <1>1 DEF Bytes
<1>2. ASSUME NEW c \in Clients, CReceive(c), ~Head(mq[c]).nul PROVE Bytes'
  <2>1. /\ mq[c] \in Seq(Message) /\ mq[c] # <<>> /\ got[c] \in Seq(Nat) /\ cpc[c] = "receive"
        /\ got' = [got EXCEPT ![c] = Append(@, Head(mq[c]).chunk)]
        /\ bytes[c] \in Nat
    BY <1>0, <1>2 DEF CReceive, TypeOK
  <2>2. Len(got[c]) \in Nat /\ Len(got'[c]) = Len(got[c]) + 1 /\ got'[c] # <<>>
    <3>1. got'[c] = Append(got[c], Head(mq[c]).chunk)
      BY <1>0, <2>1 DEF TypeOK
    <3>2. got[c] \in Seq(Nat) /\ Head(mq[c]).chunk \in Nat
      <4>1. Head(mq[c]) \in Message
        BY <2>1
      <4> QED BY <2>1, <4>1 DEF Message
    <3> QED BY <3>1, <3>2, SMTT(30)
  <2>3. Head(mq[c]) = mq[c][1] /\ 1 \in DOMAIN mq[c]
    BY <2>1
  <2>4. ~Head(mq[c]).zeroed => Len(got[c]) = 0
    <3>1. MessageAt(file[c], Len(got[c]) + 1, mq[c][1])
      BY <1>0, <2>1, <2>3 DEF Streams, Stream
    <3>2. ~Head(mq[c]).zeroed => Len(got[c]) + 1 = 1
      BY <2>3, <3>1 DEF MessageAt, EndMark
    <3> QED BY <2>2, <3>2
  <2>5. PICK n \in IF Head(mq[c]).zeroed THEN {1} ELSE {1, 2} : bytes' = [bytes EXCEPT ![c] = @ + n]
    BY <1>2 DEF CReceive
  <2>6. bytes'[c] = bytes[c] + n /\ n \in {1, 2} /\ (Head(mq[c]).zeroed => n = 1)
    BY <1>0, <2>5 DEF TypeOK
  <2>7. bytes[c] - Len(got[c]) \in {0, 1} /\ (Len(got[c]) = 0 => bytes[c] = 0)
    <3>1. Len(got[c]) = 0 => got[c] = <<>>
      BY <2>1
    <3> QED BY <1>0, <3>1 DEF Bytes
  <2>8. bytes'[c] - Len(got'[c]) \in {0, 1}
    <3>1. CASE Head(mq[c]).zeroed
      BY <2>1, <2>2, <2>6, <2>7, <3>1, SMTT(30)
    <3>2. CASE ~Head(mq[c]).zeroed
      BY <2>1, <2>2, <2>4, <2>6, <2>7, <3>2
    <3> QED BY <3>1, <3>2
  <2>9. \A d \in Clients : d # c => got'[d] = got[d] /\ bytes'[d] = bytes[d]
    BY <1>0, <2>1, <2>5 DEF TypeOK
  <2> QED BY <1>0, <2>2, <2>8, <2>9 DEF Bytes
<1>3. ASSUME NEW c \in Clients, CReceive(c), Head(mq[c]).nul PROVE UNCHANGED <<got, bytes>>
  BY <1>3 DEF CReceive
<1> QED
  BY <1>1, <1>2, <1>3 DEF Next, ServerStep, ClientStep, vars, clientVars, SStart, SReceive, SOpenClient,
     SOpenFile, SRead, SSend, SSendEnd, SKilled, CCreate, COpenServer, CSend, CUnlink, CKilled
-----------------------------------------------------------------------------
\* The clients that have been told are finitely many, and fewer when they are
\* among those of before.
LEMMA ToldFinite ==
    /\ IsFiniteSet(Told) /\ Cardinality(Told) \in Nat
    /\ IsFiniteSet(Told') /\ Cardinality(Told)' \in Nat
    /\ Told' \subseteq Told => Cardinality(Told)' =< Cardinality(Told)
    /\ \A c \in Clients : Told' \subseteq Told \union {c} => Cardinality(Told)' =< Cardinality(Told) + 1
<1>1. Told \in SUBSET Clients /\ Told' \in SUBSET Clients
  BY DEF Told
<1>2. IsFiniteSet(Told) /\ IsFiniteSet(Told')
  BY <1>1, FS_Subset, ConstAssumption
<1>3. Cardinality(Told) \in Nat /\ Cardinality(Told') \in Nat
  BY <1>2, FS_CardinalityType
<1>4. Told' \subseteq Told => Cardinality(Told') =< Cardinality(Told)
  BY <1>2, FS_Subset
<1>5. ASSUME NEW c \in Clients, Told' \subseteq Told \union {c}
      PROVE  Cardinality(Told') =< Cardinality(Told) + 1
  <2>1. IsFiniteSet(Told \union {c}) /\ Cardinality(Told \union {c}) \in {Cardinality(Told), Cardinality(Told) + 1}
    BY <1>2, FS_AddElement
  <2>2. Cardinality(Told') =< Cardinality(Told \union {c})
    BY <1>5, <2>1, FS_Subset
  <2> QED BY <1>3, <2>1, <2>2
<1> QED BY <1>2, <1>3, <1>4, <1>5

\* A message tells a client something, or has told it.
LEMMA ToldSend ==
    ASSUME IInv, SSend \/ SSendEnd
    PROVE  Told' \subseteq Told \union (IF SSend /\ ~zeroed THEN {req} ELSE {})
<1> SUFFICES ASSUME NEW c \in Told', c \notin Told
             PROVE  SSend /\ ~zeroed /\ c = req
  OBVIOUS
<1>1. c \in Clients /\ UNCHANGED <<got, bytes>>
  BY DEF Told, SSend, SSendEnd, clientVars
<1>2. PICK k \in DOMAIN mq'[c] : ~mq'[c][k].zeroed
  BY <1>1 DEF Told
<1>3. \A j \in DOMAIN mq[c] : mq[c][j].zeroed
  BY <1>1 DEF Told
<1>4. PICK m : /\ mq' = [mq EXCEPT ![req] = Append(@, m)]
               /\ m = EndMark \/ (SSend /\ m = Chunk)
  BY DEF SSend, SSendEnd
<1>5. mq \in [Clients -> Seq(Message)] /\ req \in Clients
  BY DEF IInv, TypeOK
<1>6. c = req
  BY <1>1, <1>2, <1>3, <1>4, <1>5
<1>7. mq'[c] = Append(mq[c], m) /\ mq[c] \in Seq(Message)
  BY <1>4, <1>5, <1>6
<1>8. mq'[c][k] = m
  <2>1. k = Len(mq[c]) + 1 \/ (k \in DOMAIN mq[c] /\ mq'[c][k] = mq[c][k])
    BY <1>2, <1>7
  <2>2. mq'[c][Len(mq[c]) + 1] = m
    BY <1>7
  <2> QED BY <1>2, <1>3, <2>1, <2>2
<1>9. ~m.zeroed
  BY <1>2, <1>8
<1>10. m # EndMark /\ (m = Chunk => m.zeroed = zeroed)
  BY <1>9 DEF EndMark, Chunk
<1> QED BY <1>4, <1>6, <1>9, <1>10

\* A client that counts too much had the message in its queue.
LEMMA ToldReceive ==
    ASSUME IInv, NEW d \in Clients, CReceive(d)
    PROVE  Told' \subseteq Told
<1> SUFFICES ASSUME NEW c \in Told', c \notin Told
             PROVE  FALSE
  OBVIOUS
<1>0. TypeOK /\ c \in Clients
  BY DEF Told, IInv
<1>1. bytes[c] = Len(got[c]) /\ \A j \in DOMAIN mq[c] : mq[c][j].zeroed
  BY <1>0 DEF Told
<1>2. c = d
  <2>1. c # d => got'[c] = got[c] /\ bytes'[c] = bytes[c] /\ mq'[c] = mq[c]
    BY <1>0 DEF CReceive, TypeOK
  <2> QED BY <1>0, <1>1, <2>1 DEF Told
<1>3. mq[c] \in Seq(Message) /\ mq[c] # <<>> /\ mq'[c] = Tail(mq[c]) /\ got[c] \in Seq(Nat)
  BY <1>0, <1>2 DEF CReceive, TypeOK
<1>4. \A k \in DOMAIN mq'[c] : mq'[c][k].zeroed
  <2>1. ASSUME NEW k \in DOMAIN mq'[c] PROVE mq'[c][k].zeroed
    <3>1. k + 1 \in DOMAIN mq[c] /\ mq'[c][k] = mq[c][k + 1]
      BY <1>3
    <3> QED BY <1>1, <3>1
  <2> QED BY <2>1
<1>5. Head(mq[c]).zeroed
  <2>1. 1 \in DOMAIN mq[c] /\ Head(mq[c]) = mq[c][1]
    BY <1>3
  <2> QED BY <1>1, <2>1
<1>6. bytes'[c] = Len(got'[c])
  <2>1. CASE Head(mq[c]).nul
    BY <1>1, <1>2, <2>1 DEF CReceive
  <2>2. CASE ~Head(mq[c]).nul
    <3>1. bytes' = [bytes EXCEPT ![c] = @ + 1]
      BY <1>2, <1>5, <2>2 DEF CReceive
    <3>2. bytes'[c] = bytes[c] + 1
      BY <1>0, <3>1 DEF TypeOK
    <3>3. got'[c] = Append(got[c], Head(mq[c]).chunk)
      BY <1>0, <1>2, <2>2 DEF CReceive, TypeOK
    <3>4. Len(got'[c]) = Len(got[c]) + 1
      BY <1>3, <3>3
    <3> QED BY <1>1, <3>2, <3>4
  <2> QED BY <2>1, <2>2
<1> QED BY <1>0, <1>4, <1>6 DEF Told

\* The server tells one client per run.
LEMMA ToldStep == IInv /\ [Next]_vars => ToldOnce'
<1> SUFFICES ASSUME IInv, [Next]_vars PROVE ToldOnce'
  OBVIOUS
<1> DEFINE t == Cardinality(Told)
           u == Cardinality(Told)'
<1>0. /\ t \in Nat /\ u \in Nat /\ run \in Nat /\ zeroed \in BOOLEAN /\ req \in Clients
      /\ t =< IF Fresh THEN run - 1 ELSE run
  BY ToldFinite, ConstAssumption DEF IInv, TypeOK, ToldOnce
<1>1. t =< run /\ (Fresh => t + 1 =< run)
  <2> HIDE DEF t
  <2> QED BY <1>0
<1>2. ASSUME u =< t, UNCHANGED <<run, zeroed>>, spc' \in {"off", "killed"} \/ spc \notin {"off", "killed"} \/ spc' = spc
      PROVE  ToldOnce'
  <2>1. Fresh' => Fresh
    BY <1>2 DEF Fresh
  <2>2. u =< IF Fresh' THEN run - 1 ELSE run
    <3> HIDE DEF t, u
    <3> QED BY <1>0, <1>1, <1>2, <2>1
  <2> QED BY <1>2, <2>2 DEF ToldOnce
<1>3. ASSUME UNCHANGED <<mq, got, bytes>> PROVE u = t
  BY <1>3 DEF Told
<1>4. CASE SStart
  <2>1. run' = run + 1 /\ u = t
    BY <1>3, <1>4 DEF SStart, clientVars
  <2>2. u =< IF Fresh' THEN run' - 1 ELSE run'
    <3> HIDE DEF t, u
    <3> QED BY <1>0, <1>1, <2>1
  <2> QED BY <2>2 DEF ToldOnce
<1>5. CASE SReceive \/ SOpenClient \/ SOpenFile \/ SRead \/ SKilled \/ UNCHANGED vars
  <2>1. /\ UNCHANGED <<mq, got, bytes, run, zeroed>>
        /\ spc' \in {"off", "killed"} \/ spc \notin {"off", "killed"} \/ spc' = spc
    BY <1>5 DEF SReceive, SOpenClient, SOpenFile, SRead, SKilled, vars, clientVars
  <2>2. u =< t
    <3>1. u = t
      BY <1>3, <2>1
    <3> HIDE DEF t, u
    <3> QED BY <1>0, <3>1
  <2> QED BY <1>2, <2>1, <2>2
<1>6. CASE SSend
  <2>1. spc = "send" /\ zeroed' = TRUE /\ run' = run
    BY <1>6 DEF SSend
  <2>2. CASE zeroed
    <3>1. u =< t
      BY <1>6, <2>2, ToldSend, ToldFinite
    <3>2. u =< run'
      <4> HIDE DEF t, u
      <4> QED BY <1>0, <1>1, <2>1, <3>1
    <3> QED BY <2>1, <3>2 DEF ToldOnce, Fresh
  <2>3. CASE ~zeroed
    <3>1. u =< t + 1
      BY <1>0, <1>6, <2>3, ToldSend, ToldFinite
    <3>2. Fresh
      BY <2>1, <2>3 DEF Fresh
    <3>3. u =< run'
      <4> HIDE DEF t, u
      <4> QED BY <1>0, <1>1, <2>1, <3>1, <3>2
    <3> QED BY <2>1, <3>3 DEF ToldOnce, Fresh
  <2> QED BY <2>2, <2>3
<1>7. CASE SSendEnd
  <2>1. /\ UNCHANGED <<run, zeroed>> /\ spc \notin {"off", "killed"} /\ spc # "send"
    BY <1>7 DEF SSendEnd
  <2>2. ~SSend
    BY <2>1 DEF SSend
  <2>3. u =< t
    BY <1>7, <2>2, ToldSend, ToldFinite
  <2> QED BY <1>2, <2>1, <2>3
<1>8. ASSUME NEW c \in Clients, CCreate(c) \/ COpenServer(c) \/ CSend(c) \/ CUnlink(c) \/ CKilled(c)
      PROVE  ToldOnce'
  <2>1. UNCHANGED <<mq, got, bytes, run, zeroed, spc>>
    BY <1>8 DEF CCreate, COpenServer, CSend, CUnlink, CKilled, serverVars
  <2>2. u =< t
    <3>1. u = t
      BY <1>3, <2>1
    <3> HIDE DEF t, u
    <3> QED BY <1>0, <3>1
  <2> QED BY <1>2, <2>1, <2>2
<1>9. ASSUME NEW c \in Clients, CReceive(c)
      PROVE  ToldOnce'
  <2>1. UNCHANGED <<run, zeroed, spc>>
    BY <1>9 DEF CReceive, serverVars
  <2>2. u =< t
    BY <1>9, ToldReceive, ToldFinite
  <2> QED BY <1>2, <2>1, <2>2
<1> QED
  BY <1>4, <1>5, <1>6, <1>7, <1>8, <1>9 DEF Next, ServerStep, ClientStep
-----------------------------------------------------------------------------
\* At the start nothing is sent or asked for.
LEMMA InitIInv == Init => IInv
<1> SUFFICES ASSUME Init PROVE IInv
  OBVIOUS
<1>1. TypeOK
  <2>1. <<>> \in Seq(Clients) /\ <<>> \in Seq(Message) /\ <<>> \in Seq(Nat) /\ Len(<<>>) = 0
    OBVIOUS
  <2>2. /\ mq \in [Clients -> Seq(Message)] /\ got \in [Clients -> Seq(Nat)]
        /\ bytes \in [Clients -> Nat]
    BY <2>1 DEF Init
  <2>3. \A c \in Clients : Len(mq[c]) =< MAXMSG
    BY <2>1, ConstAssumption DEF Init
  <2>4. serverMq \in Seq(Clients) /\ Len(serverMq) =< MAXMSG
    BY <2>1, ConstAssumption DEF Init
  <2>5. run \in 0..MaxRuns /\ pos \in Nat /\ fds \in 0..OPEN_MAX
    BY ConstAssumption DEF Init
  <2> QED BY <2>2, <2>3, <2>4, <2>5 DEF Init, TypeOK
<1>2. Requests
  BY DEF Init, Requests, Waiting, Serves, Quiet
<1>3. Streams /\ Serving /\ Descriptors /\ Bytes
  BY DEF Init, Streams, Stream, Serving, Descriptors, Bytes
<1>4. ToldOnce
  <2>1. Told = {}
    BY DEF Init, Told
  <2>2. Cardinality(Told) = 0
    BY <2>1, FS_EmptySet
  <2> QED BY <2>2 DEF Init, ToldOnce, Fresh
<1> QED BY <1>1, <1>2, <1>3, <1>4 DEF IInv

\* The invariant holds in every state.
LEMMA Invariance == Spec => []IInv
<1>1. IInv /\ [Next]_vars => IInv'
  BY TypeStep, RequestsStep, StreamsStep, ServingStep, DescriptorsStep, BytesStep,
     ToldStep DEF IInv
<1> QED BY InitIInv, <1>1, PTL DEF Spec

\* Types, and the limits of the queues and of the descriptors, hold at any size.
THEOREM TypeCorrect == Spec => []TypeOK
<1>1. IInv => TypeOK
  BY DEF IInv
<1> QED BY Invariance, <1>1, PTL
-----------------------------------------------------------------------------
(* What a client has when it stops *)

\* A set of numbers has a least one.
LEMMA LeastNumber ==
    ASSUME NEW T \in SUBSET Nat, T # {}
    PROVE  \E n \in T : \A m \in T : n =< m
<1> DEFINE R == {ss \in Nat \X Nat : ss[1] < ss[2]}
<1>1. IsWellFoundedOn(R, Nat)
  BY NatLessThanWellFounded DEF OpToRel
<1> HIDE DEF R
<1>2. PICK n \in T : \A m \in T : <<m, n>> \notin R
  BY <1>1, WFMin
<1>3. n \in Nat /\ \A m \in T : m \in Nat
  OBVIOUS
<1>4. \A m \in T : ~(m < n)
  BY <1>2, <1>3 DEF R
<1> QED BY <1>3, <1>4

\* The first n chunks of f are text, and the next, if there is one, is not.
Ends(f, n) == (\A k \in 1..n : f[k] = "text") /\ (n < Len(f) => f[n + 1] # "text")

\* Every file has text up to a first chunk with NUL or that cannot be read, or to its
\* end: Visible is that place, whatever the file.
LEMMA VisibleEnds ==
    ASSUME NEW f \in Seq({"text", "nul", "error"})
    PROVE  Visible(f) \in 0..Len(f) /\ Ends(f, Visible(f))
<1> DEFINE T == {n \in 0..Len(f) : n = Len(f) \/ f[n + 1] # "text"}
<1>0. Len(f) \in Nat /\ \A k \in 1..Len(f) : f[k] \in {"text", "nul", "error"}
  OBVIOUS
<1>1. T \in SUBSET Nat /\ Len(f) \in T
  BY <1>0
<1>2. PICK n \in T : \A m \in T : n =< m
  BY <1>1, LeastNumber
<1>3. n \in 0..Len(f) /\ (n < Len(f) => f[n + 1] # "text")
  BY <1>0
<1>4. ASSUME NEW k \in 1..n PROVE f[k] = "text"
  <2>1. k \in 1..Len(f) /\ k - 1 \in 0..Len(f) /\ k - 1 < n /\ (k - 1) + 1 = k /\ n \in Nat
    BY <1>0, <1>3
  <2>2. k - 1 \notin T
    <3> HIDE DEF T
    <3>1. k - 1 \in T => n =< k - 1
      BY <1>2
    <3> QED BY <2>1, <3>1
  <2> QED BY <2>1, <2>2
<1>5. \E i \in 0..Len(f) : Ends(f, i)
  BY <1>3, <1>4 DEF Ends
<1>6. Visible(f) = CHOOSE i \in 0..Len(f) : Ends(f, i)
  <2>1. \A i \in 0..Len(f) : Ends(f, i) <=> /\ \A k \in 1..i : f[k] \in {"text"}
                                            /\ i < Len(f) => f[i + 1] \notin {"text"}
    BY DEF Ends
  <2> QED BY <2>1 DEF Visible, UpTo
<1> QED BY <1>5, <1>6

\* There is no other such place, and text never goes beyond it.
LEMMA VisibleUnique ==
    ASSUME NEW f \in Seq({"text", "nul", "error"}), NEW n \in 0..Len(f), \A k \in 1..n : f[k] = "text"
    PROVE  n =< Visible(f) /\ (Ends(f, n) => n = Visible(f))
<1> DEFINE v == Visible(f)
<1>1. v \in 0..Len(f) /\ Ends(f, v)
  BY VisibleEnds
<1> HIDE DEF v
<1>2. Len(f) \in Nat /\ v \in Nat /\ n \in Nat /\ v =< Len(f) /\ n =< Len(f)
  BY <1>1
<1>3. n =< v
  <2> SUFFICES ASSUME v < n PROVE FALSE
    BY <1>2
  <2>1. v + 1 \in 1..n /\ v < Len(f)
    BY <1>2
  <2> QED BY <1>1, <2>1 DEF Ends
<1>4. Ends(f, n) => n = v
  <2> SUFFICES ASSUME Ends(f, n), n < v PROVE FALSE
    BY <1>2, <1>3
  <2>1. n + 1 \in 1..v /\ n < Len(f)
    BY <1>2
  <2> QED BY <1>1, <2>1 DEF Ends
<1> QED BY <1>3, <1>4 DEF v

\* HW9/52_3: whatever files, clients, signals and restarts of the server, a
\* client gets the chunks of its own file in order, and when it stops it has all
\* of them up to the first that begins with NUL (client.c 70) or cannot be read.
THEOREM FilesRight == Spec => []WholeFile
<1>1. IInv => WholeFile
  <2> SUFFICES ASSUME IInv, NEW c \in Clients
               PROVE  /\ \A k \in DOMAIN got[c] : got[c][k] = k
                      /\ got[c] # <<>> => file[c] # Missing /\ Len(got[c]) =< Visible(file[c])
                      /\ cpc[c] \in {"unlink", "done"} =>
                            file[c] # Missing /\ Len(got[c]) = Visible(file[c])
    BY DEF WholeFile, IInv
  <2> DEFINE f == file[c]
             n == Len(got[c])
  <2>1. Stream(c) /\ TypeOK
    BY DEF IInv, Streams
  <2>2. \A k \in DOMAIN got[c] : got[c][k] = k
    BY <2>1 DEF Stream
  <2>3. n \in Nat /\ DOMAIN got[c] = 1..n /\ (got[c] # <<>> => n > 0)
    BY <2>1 DEF TypeOK
  <2>4. ASSUME f # Missing PROVE f \in Seq({"text", "nul", "error"})
    BY <2>1, <2>4, FileType
  <2>5. ASSUME f # Missing
        PROVE  n \in 0..Len(f) /\ \A k \in 1..n : f[k] = "text"
    <3>1. Len(f) \in Nat /\ DOMAIN f = 1..Len(f)
      BY <2>4, <2>5
    <3>2. \A k \in 1..n : k \in DOMAIN f /\ f[k] = "text"
      BY <2>1, <2>3 DEF Stream
    <3> HIDE DEF f, n
    <3>3. n > 0 => n \in 1..n
      BY <2>3
    <3>4. n =< Len(f)
      BY <2>3, <3>1, <3>2, <3>3
    <3> QED BY <2>3, <3>1, <3>2, <3>4
  <2>6. ASSUME got[c] # <<>> PROVE f # Missing /\ n =< Visible(f)
    <3>1. f # Missing
      BY <2>1, <2>6 DEF Stream
    <3> QED BY <3>1, <2>4, <2>5, VisibleUnique
  <2>7. ASSUME cpc[c] \in {"unlink", "done"} PROVE f # Missing /\ n = Visible(f)
    <3>1. f # Missing /\ (n = Len(f) \/ (n + 1 \in DOMAIN f /\ f[n + 1] # "text"))
      BY <2>1, <2>7 DEF Stream
    <3>2. n \in 0..Len(f) /\ (\A k \in 1..n : f[k] = "text") /\ f \in Seq({"text", "nul", "error"})
      BY <3>1, <2>4, <2>5
    <3>3. Len(f) \in Nat
      BY <3>2
    <3> HIDE DEF f, n
    <3>4. Ends(f, n)
      BY <3>1, <3>2, <3>3 DEF Ends
    <3> QED BY <3>1, <3>2, <3>4, VisibleUnique
  <2> QED BY <2>2, <2>6, <2>7
<1> QED BY Invariance, <1>1, PTL

\* HW9/52_3: however many clients ask and however often the server is killed
\* and started, at most one client per run reports more bytes than it got, and
\* that by what stood behind one chunk (server.c 75).
THEOREM StaleOnce == Spec => []StaleBytesOnce
<1>1. IInv => StaleBytesOnce
  <2> SUFFICES ASSUME IInv PROVE StaleBytesOnce
    OBVIOUS
  <2> DEFINE S == {c \in Clients : bytes[c] # Len(got[c])}
  <2>1. S \subseteq Told /\ IsFiniteSet(Told)
    BY ToldFinite DEF Told
  <2>2. Cardinality(S) =< Cardinality(Told) /\ Cardinality(S) \in Nat /\ Cardinality(Told) \in Nat
    BY <2>1, FS_Subset, FS_CardinalityType
  <2>3. run \in Nat /\ Cardinality(Told) =< IF Fresh THEN run - 1 ELSE run
    BY DEF IInv, TypeOK, ToldOnce
  <2> HIDE DEF S
  <2>4. Cardinality(S) =< run
    BY <2>2, <2>3
  <2>5. \A c \in Clients : bytes[c] - Len(got[c]) \in {0, 1}
    BY DEF IInv, Bytes
  <2> QED BY <2>4, <2>5 DEF StaleBytesOnce, S
<1> QED BY Invariance, <1>1, PTL
=============================================================================
