-------------------------- MODULE DictStreamProofs --------------------------
(***************************************************************************)
(* For any number of clients, any words and table, any backlog and limit of *)
(* processes, in both address families: a client prints a wrong answer only *)
(* when its child has died before sending the right one, and then with the  *)
(* text that it has printed before.                                         *)
(***************************************************************************)
EXTENDS DictStream, FiniteSetTheorems, TLAPS

\* Connections that wait are open, have no child yet, and wait once.
Waits ==
    /\ \A k \in DOMAIN backlog : conn[backlog[k]] = "open" /\ kid[backlog[k]] = "none"
    /\ \A k, l \in DOMAIN backlog : backlog[k] = backlog[l] => k = l

\* Where the one record of a client is: with the client, on its way to the child,
\* with the child, or on its way back; of a client that has gone, some of it is
\* left where it was.
Record(c) ==
    /\ toServer[c] # <<>> => /\ toServer[c] = <<word[c]>> /\ word[c] \in Words
                             /\ toClient[c] = <<>> /\ kid[c] \in {"none", "recv", "exit"}
    /\ toClient[c] # <<>> => /\ toClient[c] = <<Answer(word[c])>> /\ word[c] \in Words
                             /\ conn[c] \in {"open", "fin"} /\ kid[c] \in {"recv", "exit"}
    /\ kid[c] \in {"lookup", "send"} => /\ kidWord[c] = word[c] /\ word[c] \in Words
                                        /\ toServer[c] = <<>> /\ toClient[c] = <<>>
    /\ cpc[c] \in {"ask", "connect", "send"} =>
         toServer[c] = <<>> /\ toClient[c] = <<>> /\ kid[c] \in {"none", "recv", "exit"}
    /\ cpc[c] \in {"connect", "send", "recv"} => word[c] \in Words

\* A child has an open connection, which stays as it is when the client has gone.
Connection(c) ==
    /\ kid[c] \in {"recv", "lookup", "send"} => conn[c] = "open"
    /\ kid[c] = "exit" /\ conn[c] = "open" => Gone(c)
    /\ conn[c] \in {"fin", "rst"} => toServer[c] = <<>>
    /\ conn[c] = "none" => kid[c] = "none" /\ cpc[c] \notin {"send", "recv"}
    /\ cpc[c] = "connect" => conn[c] = "none"

\* A client that was told a wrong answer has no connection any more, and in the
\* Unix domain it does not get to recv() again.
WrongOnce(c) ==
    Wrong(c) # {} => /\ kid[c] \in {"none", "exit"} /\ conn[c] \notin {"none", "open"}
                     /\ toClient[c] = <<>>
                     /\ ~inet => cpc[c] # "recv" /\ \E n \in DOMAIN answers[c] : Wrong(c) = {n}

Sound(c) == Record(c) /\ Connection(c) /\ WrongOnce(c)

IInv == TypeOK /\ Waits /\ \A c \in Clients : Sound(c)

\* The record keeps the text printed last, and that is what a wrong answer says.
Told(c) == /\ text[c] = TextBefore(c, Len(answers[c]) + 1)
           /\ \A k \in Wrong(c) : answers[c][k].text = TextBefore(c, k)
-----------------------------------------------------------------------------
\* A step that is not about client c.
Same(c) ==
    /\ inet' = inet /\ kid'[c] = kid[c] /\ kidWord'[c] = kidWord[c] /\ conn'[c] = conn[c]
    /\ toServer'[c] = toServer[c] /\ toClient'[c] = toClient[c]
    /\ cpc'[c] = cpc[c] /\ word'[c] = word[c] /\ answers'[c] = answers[c]

\* What a client has been told wrongly depends on what it has printed alone.
LEMMA WrongSame ==
    ASSUME NEW c \in Clients, answers'[c] = answers[c]
    PROVE  Wrong(c)' = Wrong(c)
  BY DEF Wrong, Right

\* A right answer adds nothing to it, a wrong one adds one.
LEMMA WrongNext ==
    ASSUME NEW c \in Clients, NEW S, answers[c] \in Seq(S), NEW a \in S,
           answers'[c] = Append(answers[c], a)
    PROVE  /\ Wrong(c)' = Wrong(c) \union (IF Right(a) THEN {} ELSE {Len(answers[c]) + 1})
           /\ Len(answers[c]) + 1 \in DOMAIN answers'[c]
<1>1. /\ Len(answers[c]) \in Nat /\ DOMAIN answers[c] = 1..Len(answers[c])
      /\ DOMAIN answers'[c] = 1..(Len(answers[c]) + 1)
      /\ answers'[c][Len(answers[c]) + 1] = a
      /\ \A n \in DOMAIN answers[c] : answers'[c][n] = answers[c][n]
  OBVIOUS
<1>2. Wrong(c) = {n \in DOMAIN answers[c] : ~Right(answers[c][n])}
  BY DEF Wrong
<1>3. Wrong(c)' = {n \in DOMAIN answers'[c] : ~Right(answers'[c][n])}
  BY DEF Wrong, Right
<1>4. ASSUME NEW n PROVE n \in DOMAIN answers'[c] <=>
        n \in DOMAIN answers[c] \/ n = Len(answers[c]) + 1
  BY <1>1
<1>5. ASSUME NEW n
      PROVE  n \in Wrong(c)' <=> n \in Wrong(c) \/ (~Right(a) /\ n = Len(answers[c]) + 1)
  BY <1>1, <1>2, <1>3, <1>4
<1> QED
  BY <1>1, <1>5

\* A record that travels alone.
LEMMA OneRecord ==
    ASSUME NEW S, NEW x \in S
    PROVE  /\ Append(<<>>, x) = <<x>> /\ <<x>> # <<>> /\ <<x>> \in Seq(S)
           /\ Head(<<x>>) = x /\ Tail(<<x>>) = <<>> /\ Len(<<x>>) = 1
  OBVIOUS

\* Another answer is printed.
LEMMA AppendTyped ==
    ASSUME NEW S, NEW s \in Seq(S), NEW x \in S
    PROVE  Append(s, x) \in Seq(S)
  OBVIOUS

\* The lengths of a connection with at most one record in it.
LEMMA Carried ==
    ASSUME TypeOK, NEW c \in Clients, NEW S, NEW x \in S
    PROVE  /\ Len(<<>>) = 0 /\ Len(<<x>>) = 1 /\ Len(toServer[c]) \in Nat /\ Len(toClient[c]) \in Nat
           /\ toServer[c] = <<>> => Len(toServer[c]) = 0
           /\ toClient[c] = <<>> => Len(toClient[c]) = 0
<1>1. toServer[c] \in Seq(Words) /\ toClient[c] \in Seq(Texts)
  BY DEF TypeOK
<1> QED
  BY <1>1

\* A step that is not about a client leaves what is known of it.
LEMMA Others ==
    ASSUME NEW c \in Clients, Sound(c), Same(c)
    PROVE  Sound(c)'
<1>1. Wrong(c)' = Wrong(c)
  BY WrongSame DEF Same
<1>2. Record(c)'
  BY DEF Sound, Same, Record, Answer
<1>3. Connection(c)'
  BY DEF Sound, Same, Connection, Gone
<1>4. WrongOnce(c)'
  BY <1>1 DEF Sound, Same, WrongOnce
<1> QED
  BY <1>2, <1>3, <1>4 DEF Sound

\* Where the first connection that waits stands.
LEMMA First ==
    ASSUME TypeOK, Waits, backlog # <<>>
    PROVE  /\ Head(backlog) \in Clients /\ Head(backlog) = backlog[1] /\ 1 \in DOMAIN backlog
           /\ conn[Head(backlog)] = "open" /\ kid[Head(backlog)] = "none"
           /\ Tail(backlog) \in Seq(Clients) /\ Len(Tail(backlog)) = Len(backlog) - 1
           /\ Len(backlog) \in Nat
           /\ \A k \in DOMAIN Tail(backlog) :
                k \in Nat /\ k + 1 \in DOMAIN backlog /\ Tail(backlog)[k] = backlog[k + 1] /\ k + 1 # 1
<1>1. backlog \in Seq(Clients)
  BY DEF TypeOK
<1>2. /\ Head(backlog) \in Clients /\ Head(backlog) = backlog[1] /\ 1 \in DOMAIN backlog
      /\ Tail(backlog) \in Seq(Clients) /\ Len(Tail(backlog)) = Len(backlog) - 1
      /\ Len(backlog) \in Nat
  BY <1>1
<1>3. \A k \in DOMAIN Tail(backlog) :
        k \in Nat /\ k + 1 \in DOMAIN backlog /\ Tail(backlog)[k] = backlog[k + 1] /\ k + 1 # 1
  BY <1>1, <1>2
<1> QED
  BY <1>2, <1>3 DEF Waits

\* accept() and fork(): the first connection that waits gets a child.
LEMMA AcceptStep == ASSUME IInv, PAccept PROVE IInv'
<1>0. TypeOK /\ Waits /\ \A c \in Clients : Sound(c)
  BY DEF IInv
<1>h. PICK h \in Clients : h = Head(backlog)
  BY <1>0, First DEF PAccept
<1>1. /\ h = backlog[1] /\ 1 \in DOMAIN backlog /\ conn[h] = "open" /\ kid[h] = "none"
      /\ \A k \in DOMAIN Tail(backlog) :
           k \in Nat /\ k + 1 \in DOMAIN backlog /\ Tail(backlog)[k] = backlog[k + 1] /\ k + 1 # 1
      /\ Tail(backlog) \in Seq(Clients) /\ Len(Tail(backlog)) = Len(backlog) - 1 /\ Len(backlog) \in Nat
  BY <1>0, <1>h, First DEF PAccept
<1>2. kid'[h] = "recv" /\ \A c \in Clients : c # h => kid'[c] = kid[c]
  BY <1>0, <1>h DEF PAccept, TypeOK
<1>3. backlog' = Tail(backlog)
  BY DEF PAccept
<1>4. TypeOK'
  <2>1. kid' \in [Clients -> {"none", "recv", "lookup", "send", "exit"}]
    BY <1>0 DEF PAccept, TypeOK
  <2>2. Len(backlog') =< BACKLOG + 1
    BY <1>0, <1>1, <1>3, ConstAssumption DEF TypeOK
  <2> QED
    BY <1>0, <1>1, <1>3, <2>1, <2>2 DEF PAccept, TypeOK, clientVars
<1>5. Waits'
  <2>1. ASSUME NEW k \in DOMAIN backlog' PROVE conn'[backlog'[k]] = "open" /\ kid'[backlog'[k]] = "none"
    <3>1. k + 1 \in DOMAIN backlog /\ backlog'[k] = backlog[k + 1] /\ k + 1 # 1
      BY <1>1, <1>3, <2>1
    <3>2. backlog[k + 1] # backlog[1]
      BY <3>1, <1>0, <1>1 DEF Waits
    <3>3. backlog[k + 1] \in Clients
      BY <3>1, <1>0 DEF TypeOK
    <3> QED
      BY <3>1, <3>2, <3>3, <1>0, <1>1, <1>2 DEF Waits, PAccept
  <2>2. ASSUME NEW k \in DOMAIN backlog', NEW l \in DOMAIN backlog', backlog'[k] = backlog'[l]
        PROVE  k = l
    <3>1. k \in Nat /\ l \in Nat /\ backlog[k + 1] = backlog[l + 1]
          /\ k + 1 \in DOMAIN backlog /\ l + 1 \in DOMAIN backlog
      BY <1>1, <1>3, <2>2
    <3>2. k + 1 = l + 1
      BY <3>1, <1>0 DEF Waits
    <3> QED
      BY <3>1, <3>2
  <2> QED
    BY <2>1, <2>2 DEF Waits
<1>6. ASSUME NEW c \in Clients, c # h PROVE Sound(c)'
  BY <1>0, <1>2, <1>6, Others DEF Same, PAccept, clientVars
<1>7. Sound(h)'
  <2>1. Sound(h) /\ Wrong(h)' = Wrong(h)
    BY <1>0, WrongSame DEF PAccept, clientVars
  <2>2. Wrong(h) = {}
    BY <1>1, <2>1 DEF Sound, WrongOnce
  <2> QED
    BY <1>1, <1>2, <2>1, <2>2 DEF PAccept, clientVars, Sound, Record, Connection, WrongOnce, Answer, Gone
<1> QED
  BY <1>4, <1>5, <1>6, <1>7 DEF IInv

\* The parent dies: connections that wait are reset, or closed in order when
\* nothing was sent on the first of them.
LEMMA ParentDies == ASSUME IInv, PForkFails \/ PKilled PROVE IInv'
<1>0. TypeOK /\ Waits /\ \A c \in Clients : Sound(c)
  BY DEF IInv
<1>1. /\ UNCHANGED <<inet, kid, kidWord, opened, toServer, toClient, cpc, word, text, answers>>
      /\ parent' = "dead" /\ backlog' = <<>>
  BY DEF PForkFails, PKilled, clientVars
<1>2. ASSUME NEW c \in Clients
      PROVE  \/ conn'[c] = conn[c]
             \/ /\ conn[c] = "open" /\ kid[c] = "none"
                /\ conn'[c] = "reset" \/ (conn'[c] = "fin" /\ toServer[c] = <<>>)
  <2>1. c \in Range(backlog) => \E k \in DOMAIN backlog : c = backlog[k]
    BY DEF Range
  <2>2. c \in Range(backlog) => conn[c] = "open" /\ kid[c] = "none"
    BY <2>1, <1>0 DEF Waits
  <2>3. CASE PKilled
    BY <2>2, <2>3 DEF PKilled
  <2>4. CASE PForkFails
    <3>1. conn[Head(backlog)] = "open" /\ kid[Head(backlog)] = "none"
      BY <2>4, <1>0, First DEF PForkFails
    <3> QED
      BY <2>2, <2>4, <3>1 DEF PForkFails, Closed
  <2> QED
    BY <2>3, <2>4
<1>3. conn' \in [Clients -> {"none", "open", "fin", "rst", "reset"}]
  <2>1. \A c \in Clients : conn'[c] \in {"none", "open", "fin", "rst", "reset"}
    BY <1>0, <1>2 DEF TypeOK
  <2>2. conn' = [c \in Clients |-> conn'[c]]
    BY DEF PForkFails, PKilled
  <2> QED
    BY <2>1, <2>2
<1>4. TypeOK'
  <2>1. <<>> \in Seq(Clients) /\ Len(<<>>) =< BACKLOG + 1
    BY ConstAssumption
  <2> QED
    BY <1>0, <1>1, <1>3, <2>1 DEF TypeOK
<1>5. Waits'
  BY <1>1 DEF Waits
<1>6. ASSUME NEW c \in Clients PROVE Sound(c)'
  <2>1. CASE conn'[c] = conn[c]
    BY <1>0, <1>1, <2>1, Others DEF Same
  <2>2. CASE /\ conn[c] = "open" /\ kid[c] = "none"
             /\ conn'[c] = "reset" \/ (conn'[c] = "fin" /\ toServer[c] = <<>>)
    <3>1. Sound(c) /\ Wrong(c)' = Wrong(c)
      BY <1>0, <1>1, WrongSame
    <3>2. Wrong(c) = {}
      BY <2>2, <3>1 DEF Sound, WrongOnce
    <3> QED
      BY <1>1, <2>2, <3>1, <3>2 DEF Sound, Record, Connection, WrongOnce, Answer, Gone
  <2> QED
    BY <1>2, <2>1, <2>2
<1> QED
  BY <1>4, <1>5, <1>6 DEF IInv

\* The child takes the record.
LEMMA KRecvStep == ASSUME IInv, NEW c \in Clients, KRecv(c) PROVE IInv'
<1>0. TypeOK /\ Waits /\ (\A d \in Clients : Sound(d)) /\ Sound(c)
  BY DEF IInv
<1>1. UNCHANGED <<inet, parent, backlog, opened, conn, toClient, cpc, word, text, answers>>
  BY DEF KRecv, serverVars, clientVars
<1>2. kid[c] = "recv" /\ kid'[c] = "lookup" /\ kidWord'[c] = word[c] /\ toServer'[c] = <<>>
      /\ word[c] \in Words /\ toClient[c] = <<>> /\ cpc[c] \notin {"ask", "connect", "send"}
  <2>1. toServer[c] = <<word[c]>> /\ word[c] \in Words /\ toClient[c] = <<>>
    BY <1>0 DEF KRecv, Sound, Record
  <2>2. Head(toServer[c]) = word[c] /\ Tail(toServer[c]) = <<>>
    BY <2>1, OneRecord
  <2> QED
    BY <1>0, <2>1, <2>2 DEF KRecv, TypeOK, Sound, Record
<1>3. \A d \in Clients : d # c => kidWord'[d] = kidWord[d] /\ toServer'[d] = toServer[d] /\ kid'[d] = kid[d]
  BY <1>0 DEF KRecv, serverVars, clientVars, TypeOK
<1>4. kidWord' \in [Clients -> Words \union {Garbage}] /\ toServer' \in [Clients -> Seq(Words)] /\ kid' \in [Clients -> {"none", "recv", "lookup", "send", "exit"}]
  <2>1. Head(toServer[c]) \in Words /\ Tail(toServer[c]) \in Seq(Words)
    BY <1>0 DEF KRecv, TypeOK
  <2> QED
    BY <1>0, <2>1 DEF KRecv, TypeOK
<1>5. TypeOK'
  <2>1. \A d \in Clients : Len(toServer'[d]) + Len(toClient'[d]) =< 1
    BY <1>0, <1>1, <1>2, <1>3, Carried, SMTT(30) DEF TypeOK
  <2> QED
    BY <1>0, <1>1, <1>4, <2>1 DEF TypeOK
<1>6. Waits'
  <2>1. \A k \in DOMAIN backlog : backlog[k] \in Clients /\ backlog[k] # c
    BY <1>0, <1>2 DEF Waits, TypeOK
  <2> QED
    BY <1>0, <1>1, <1>3, <2>1 DEF Waits
<1>7. \A d \in Clients : d # c => Sound(d)'
  BY <1>0, <1>1, <1>3, Others DEF Same
<1>8. Sound(c)'
  <2>1. Wrong(c)' = Wrong(c)
    BY <1>1, WrongSame
  <2> QED
    BY <1>0, <1>1, <1>2, <2>1 DEF Sound, Record, Connection, WrongOnce, Answer, Gone
<1> QED
  BY <1>0, <1>5, <1>6, <1>7, <1>8 DEF IInv

\* The client has gone and left nothing.
LEMMA KEofStep == ASSUME IInv, NEW c \in Clients, KEof(c) PROVE IInv'
<1>0. TypeOK /\ Waits /\ (\A d \in Clients : Sound(d)) /\ Sound(c)
  BY DEF IInv
<1>1. UNCHANGED <<inet, parent, backlog, kidWord, opened, conn, toServer, toClient, cpc, word, text, answers>>
  BY DEF KEof, serverVars, clientVars
<1>2. kid[c] = "recv" /\ kid'[c] = "exit" /\ toServer[c] = <<>> /\ Gone(c)
  BY <1>0 DEF KEof, serverVars, clientVars, TypeOK, Sound, Record, Connection
<1>3. \A d \in Clients : d # c => kid'[d] = kid[d]
  BY <1>0 DEF KEof, serverVars, clientVars, TypeOK
<1>4. kid' \in [Clients -> {"none", "recv", "lookup", "send", "exit"}]
  BY <1>0 DEF KEof, serverVars, clientVars, TypeOK
<1>5. TypeOK'
  BY <1>0, <1>1, <1>4 DEF TypeOK
<1>6. Waits'
  <2>1. \A k \in DOMAIN backlog : backlog[k] \in Clients /\ backlog[k] # c
    BY <1>0, <1>2 DEF Waits, TypeOK
  <2> QED
    BY <1>0, <1>1, <1>3, <2>1 DEF Waits
<1>7. \A d \in Clients : d # c => Sound(d)'
  BY <1>0, <1>1, <1>3, Others DEF Same
<1>8. Sound(c)'
  <2>1. Wrong(c)' = Wrong(c)
    BY <1>1, WrongSame
  <2> QED
    BY <1>0, <1>1, <1>2, <2>1 DEF Sound, Record, Connection, WrongOnce, Answer, Gone
<1> QED
  BY <1>0, <1>5, <1>6, <1>7, <1>8 DEF IInv

\* The child has looked the word up.
LEMMA KLookupStep == ASSUME IInv, NEW c \in Clients, KLookup(c) PROVE IInv'
<1>0. TypeOK /\ Waits /\ (\A d \in Clients : Sound(d)) /\ Sound(c)
  BY DEF IInv
<1>1. UNCHANGED <<inet, parent, backlog, kidWord, conn, toServer, toClient, cpc, word, text, answers>>
  BY DEF KLookup, serverVars, clientVars
<1>2. kid[c] = "lookup" /\ kid'[c] = "send"
  BY <1>0 DEF KLookup, serverVars, clientVars, TypeOK, Sound, Record, Connection
<1>3. \A d \in Clients : d # c => opened'[d] = opened[d] /\ kid'[d] = kid[d]
  BY <1>0 DEF KLookup, serverVars, clientVars, TypeOK
<1>4. opened' \in [Clients -> BOOLEAN] /\ kid' \in [Clients -> {"none", "recv", "lookup", "send", "exit"}]
  BY <1>0 DEF KLookup, serverVars, clientVars, TypeOK
<1>5. TypeOK'
  BY <1>0, <1>1, <1>4 DEF TypeOK
<1>6. Waits'
  <2>1. \A k \in DOMAIN backlog : backlog[k] \in Clients /\ backlog[k] # c
    BY <1>0, <1>2 DEF Waits, TypeOK
  <2> QED
    BY <1>0, <1>1, <1>3, <2>1 DEF Waits
<1>7. \A d \in Clients : d # c => Sound(d)'
  BY <1>0, <1>1, <1>3, Others DEF Same
<1>8. Sound(c)'
  <2>1. Wrong(c)' = Wrong(c)
    BY <1>1, WrongSame
  <2> QED
    BY <1>0, <1>1, <1>2, <2>1 DEF Sound, Record, Connection, WrongOnce, Answer, Gone
<1> QED
  BY <1>0, <1>5, <1>6, <1>7, <1>8 DEF IInv

\* The child dies; the client has taken the last answer, and its record is gone.
LEMMA KNoFileStep == ASSUME IInv, NEW c \in Clients, KNoFile(c) PROVE IInv'
<1>0. TypeOK /\ Waits /\ (\A d \in Clients : Sound(d)) /\ Sound(c)
  BY DEF IInv
<1>1. UNCHANGED <<inet, parent, backlog, kidWord, opened, toServer, toClient, cpc, word, text, answers>>
  BY DEF KNoFile, serverVars, clientVars
<1>2. kid[c] = "lookup" /\ kid'[c] = "exit" /\ conn'[c] = "fin" /\ toServer[c] = <<>>
      /\ toClient[c] = <<>>
  BY <1>0 DEF KNoFile, serverVars, clientVars, TypeOK, Sound, Record, Closed
<1>3. \A d \in Clients : d # c => kid'[d] = kid[d] /\ conn'[d] = conn[d]
  BY <1>0 DEF KNoFile, serverVars, clientVars, TypeOK
<1>4. kid' \in [Clients -> {"none", "recv", "lookup", "send", "exit"}] /\ conn' \in [Clients -> {"none", "open", "fin", "rst", "reset"}]
  BY <1>0 DEF KNoFile, TypeOK, Closed
<1>5. TypeOK'
  BY <1>0, <1>1, <1>4 DEF TypeOK
<1>6. Waits'
  <2>1. \A k \in DOMAIN backlog : backlog[k] \in Clients /\ backlog[k] # c
    BY <1>0, <1>2 DEF Waits, TypeOK
  <2> QED
    BY <1>0, <1>1, <1>3, <2>1 DEF Waits
<1>7. \A d \in Clients : d # c => Sound(d)'
  BY <1>0, <1>1, <1>3, Others DEF Same
<1>8. Sound(c)'
  <2>1. Wrong(c)' = Wrong(c)
    BY <1>1, WrongSame
  <2> QED
    BY <1>0, <1>1, <1>2, <2>1 DEF Sound, Record, Connection, WrongOnce, Answer, Gone
<1> QED
  BY <1>0, <1>5, <1>6, <1>7, <1>8 DEF IInv

\* A signal ends the child: what it has sent arrives, what it has not read is lost
\* with the connection.
LEMMA KKilledStep == ASSUME IInv, NEW c \in Clients, KKilled(c) PROVE IInv'
<1>0. TypeOK /\ Waits /\ (\A d \in Clients : Sound(d)) /\ Sound(c)
  BY DEF IInv
<1>1. UNCHANGED <<inet, parent, backlog, kidWord, opened, toServer, toClient, cpc, word, text, answers>>
  BY DEF KKilled, serverVars, clientVars
<1>2. /\ kid[c] \in {"recv", "lookup", "send"} /\ kid'[c] = "exit" /\ conn[c] = "open"
      /\ \/ conn'[c] = "fin" /\ toServer[c] = <<>>
         \/ conn'[c] = "reset" /\ toServer[c] # <<>> /\ toClient[c] = <<>>
  BY <1>0 DEF KKilled, serverVars, clientVars, TypeOK, Sound, Record, Connection, Closed
<1>3. \A d \in Clients : d # c => kid'[d] = kid[d] /\ conn'[d] = conn[d]
  BY <1>0 DEF KKilled, serverVars, clientVars, TypeOK
<1>4. kid' \in [Clients -> {"none", "recv", "lookup", "send", "exit"}] /\ conn' \in [Clients -> {"none", "open", "fin", "rst", "reset"}]
  BY <1>0 DEF KKilled, TypeOK, Closed
<1>5. TypeOK'
  BY <1>0, <1>1, <1>4 DEF TypeOK
<1>6. Waits'
  <2>1. \A k \in DOMAIN backlog : backlog[k] \in Clients /\ backlog[k] # c
    <3>1. kid[c] # "none"
      BY <1>2
    <3> QED
      BY <1>0, <3>1 DEF Waits, TypeOK
  <2> QED
    BY <1>0, <1>1, <1>3, <2>1 DEF Waits
<1>7. \A d \in Clients : d # c => Sound(d)'
  BY <1>0, <1>1, <1>3, Others DEF Same
<1>8. Sound(c)'
  <2>1. Wrong(c)' = Wrong(c) /\ Wrong(c) = {}
    BY <1>0, <1>1, <1>2, WrongSame DEF Sound, WrongOnce
  <2> QED
    BY <1>0, <1>1, <1>2, <2>1 DEF Sound, Record, Connection, WrongOnce, Answer, Gone
<1> QED
  BY <1>0, <1>5, <1>6, <1>7, <1>8 DEF IInv

\* The answer is to the word of the record that the client waits with.
LEMMA KSendStep == ASSUME IInv, NEW c \in Clients, KSend(c) PROVE IInv'
<1>0. TypeOK /\ Waits /\ (\A d \in Clients : Sound(d)) /\ Sound(c)
  BY DEF IInv
<1>1. UNCHANGED <<inet, parent, backlog, kidWord, opened, conn, toServer, cpc, word, text, answers>>
  BY DEF KSend, serverVars, clientVars
<1>2. /\ kid[c] = "send" /\ kid'[c] \in {"recv", "exit"} /\ cpc[c] \notin {"ask", "connect", "send"}
      /\ toClient'[c] \in {<<>>, <<Answer(word[c])>>} /\ (kid'[c] = "exit" => Gone(c))
  <2>1. toClient[c] = <<>> /\ kidWord[c] = word[c] /\ Answer(word[c]) \in Texts
    BY <1>0 DEF KSend, Sound, Record, Answer, Texts
  <2>2. Append(toClient[c], Answer(kidWord[c])) = <<Answer(word[c])>>
    BY <2>1, OneRecord
  <2> QED
    BY <1>0, <2>1, <2>2 DEF KSend, TypeOK, Sound, Record
<1>3. \A d \in Clients : d # c => kid'[d] = kid[d] /\ toClient'[d] = toClient[d]
  BY <1>0 DEF KSend, serverVars, clientVars, TypeOK
<1>4. kid' \in [Clients -> {"none", "recv", "lookup", "send", "exit"}] /\ toClient' \in [Clients -> Seq(Texts)]
  <2>1. Answer(kidWord[c]) \in Texts /\ toClient[c] \in Seq(Texts)
    BY <1>0 DEF KSend, TypeOK, Answer, Texts
  <2>2. Append(toClient[c], Answer(kidWord[c])) \in Seq(Texts)
    BY <2>1
  <2> QED
    BY <1>0, <2>2 DEF KSend, TypeOK
<1>5. TypeOK'
  <2>1. \A d \in Clients : Len(toServer'[d]) + Len(toClient'[d]) =< 1
    <3>1. toServer[c] = <<>> /\ Answer(word[c]) \in Texts
      BY <1>0, <1>2 DEF Sound, Record, Answer, Texts
    <3>2. Len(toServer'[c]) = 0
      BY <1>1, <3>1
    <3>3. Len(toClient'[c]) = 0 \/ Len(toClient'[c]) = 1
      BY <1>2, <3>1
    <3>4. Len(toServer'[c]) + Len(toClient'[c]) =< 1
      <4>1. CASE Len(toClient'[c]) = 0
        BY <3>2, <4>1
      <4>2. CASE Len(toClient'[c]) = 1
        BY <3>2, <4>2
      <4> QED
        BY <3>3, <4>1, <4>2
    <3>5. \A d \in Clients : d # c => toServer'[d] = toServer[d] /\ toClient'[d] = toClient[d]
      BY <1>1, <1>3
    <3>6. \A d \in Clients : Len(toServer[d]) + Len(toClient[d]) =< 1
      BY <1>0 DEF TypeOK
    <3> QED
      BY <3>4, <3>5, <3>6
  <2> QED
    BY <1>0, <1>1, <1>4, <2>1 DEF TypeOK
<1>6. Waits'
  <2>1. \A k \in DOMAIN backlog : backlog[k] \in Clients /\ backlog[k] # c
    BY <1>0, <1>2 DEF Waits, TypeOK
  <2> QED
    BY <1>0, <1>1, <1>3, <2>1 DEF Waits
<1>7. \A d \in Clients : d # c => Sound(d)'
  BY <1>0, <1>1, <1>3, Others DEF Same
<1>8. Sound(c)'
  <2>1. Wrong(c)' = Wrong(c)
    BY <1>1, WrongSame
  <2> QED
    BY <1>0, <1>1, <1>2, <2>1 DEF Sound, Record, Connection, WrongOnce, Answer, Gone
<1> QED
  BY <1>0, <1>5, <1>6, <1>7, <1>8 DEF IInv

\* The client fills in a new record.
LEMMA CAskStep == ASSUME IInv, NEW c \in Clients, CAsk(c) PROVE IInv'
<1>0. TypeOK /\ Waits /\ (\A d \in Clients : Sound(d)) /\ Sound(c)
  BY DEF IInv
<1>1. UNCHANGED <<inet, parent, backlog, kid, kidWord, opened, conn, toServer, toClient, text, answers>>
  BY DEF CAsk, serverVars, clientVars
<1>2. /\ cpc[c] = "ask" /\ cpc'[c] \in {"connect", "send"} /\ word'[c] \in Words
      /\ (cpc'[c] = "connect" <=> conn[c] = "none")
  BY <1>0 DEF CAsk, serverVars, clientVars, TypeOK, Sound, Record, Connection
<1>3. \A d \in Clients : d # c => word'[d] = word[d] /\ cpc'[d] = cpc[d]
  BY <1>0 DEF CAsk, serverVars, clientVars, TypeOK
<1>4. word' \in [Clients -> Words \union {Garbage}] /\ cpc' \in [Clients -> {"ask", "connect", "send", "recv", "done", "failed", "killed"}]
  BY <1>0 DEF CAsk, TypeOK
<1>5. TypeOK'
  BY <1>0, <1>1, <1>4 DEF TypeOK
<1>6. Waits'
  BY <1>0, <1>1 DEF Waits
<1>7. \A d \in Clients : d # c => Sound(d)'
  BY <1>0, <1>1, <1>3, Others DEF Same
<1>8. Sound(c)'
  <2>1. Wrong(c)' = Wrong(c)
    BY <1>1, WrongSame
  <2> QED
    BY <1>0, <1>1, <1>2, <2>1 DEF Sound, Record, Connection, WrongOnce, Answer, Gone
<1> QED
  BY <1>0, <1>5, <1>6, <1>7, <1>8 DEF IInv

\* A client that ends, fails or is killed leaves its record where it is.
LEMMA CStopsStep ==
    ASSUME IInv, NEW c \in Clients,
           CQuit(c) \/ CRefused(c) \/ CSendBroken(c) \/ CRecvReset(c) \/ CKilled(c)
    PROVE  IInv'
<1>0. TypeOK /\ Waits /\ (\A d \in Clients : Sound(d)) /\ Sound(c)
  BY DEF IInv
<1>1. UNCHANGED <<inet, parent, backlog, kid, kidWord, opened, conn, toServer, toClient, word, text, answers>>
  BY DEF CQuit, CRefused, CSendBroken, CRecvReset, CKilled, serverVars, clientVars
<1>2. cpc'[c] \in {"done", "failed", "killed"}
  BY <1>0 DEF CQuit, CRefused, CSendBroken, CRecvReset, CKilled, serverVars, clientVars, TypeOK
<1>3. \A d \in Clients : d # c => cpc'[d] = cpc[d]
  BY <1>0 DEF CQuit, CRefused, CSendBroken, CRecvReset, CKilled, serverVars, clientVars, TypeOK
<1>4. cpc' \in [Clients -> {"ask", "connect", "send", "recv", "done", "failed", "killed"}]
  BY <1>0, ZenonT(60) DEF CQuit, CRefused, CSendBroken, CRecvReset, CKilled, serverVars, clientVars, TypeOK
<1>5. TypeOK'
  BY <1>0, <1>1, <1>4 DEF TypeOK
<1>6. Waits'
  BY <1>0, <1>1 DEF Waits
<1>7. \A d \in Clients : d # c => Sound(d)'
  BY <1>0, <1>1, <1>3, Others DEF Same
<1>8. Sound(c)'
  <2>1. Wrong(c)' = Wrong(c)
    BY <1>1, WrongSame
  <2> QED
    BY <1>0, <1>1, <1>2, <2>1 DEF Sound, Record, Connection, WrongOnce, Answer, Gone
<1> QED
  BY <1>0, <1>5, <1>6, <1>7, <1>8 DEF IInv

\* A connection is made once and starts to wait.
LEMMA CConnectStep == ASSUME IInv, NEW c \in Clients, CConnect(c) PROVE IInv'
<1>0. TypeOK /\ Waits /\ (\A d \in Clients : Sound(d)) /\ Sound(c)
  BY DEF IInv
<1>1. UNCHANGED <<inet, parent, kid, kidWord, opened, toServer, toClient, word, text, answers>>
  BY DEF CConnect, serverVars, clientVars
<1>2. cpc[c] = "connect" /\ cpc'[c] = "send" /\ conn[c] = "none" /\ conn'[c] = "open"
  BY <1>0 DEF CConnect, serverVars, clientVars, TypeOK, Sound, Record, Connection
<1>3. \A d \in Clients : d # c => conn'[d] = conn[d] /\ cpc'[d] = cpc[d]
  BY <1>0 DEF CConnect, serverVars, clientVars, TypeOK
<1>4. conn' \in [Clients -> {"none", "open", "fin", "rst", "reset"}] /\ cpc' \in [Clients -> {"ask", "connect", "send", "recv", "done", "failed", "killed"}]
  BY <1>0 DEF CConnect, serverVars, clientVars, TypeOK
<1>5. TypeOK'
  <2>1. backlog' \in Seq(Clients) /\ Len(backlog') =< BACKLOG + 1
    BY <1>0, ConstAssumption DEF CConnect, TypeOK
  <2> QED
    BY <1>0, <1>1, <1>4, <2>1 DEF TypeOK
<1>6. Waits'
  <2>1. backlog' = Append(backlog, c) /\ backlog \in Seq(Clients) /\ kid[c] = "none"
    BY <1>0, <1>2 DEF CConnect, TypeOK, Sound, Connection
  <2>2. /\ \A k \in DOMAIN backlog : backlog[k] # c /\ backlog[k] \in Clients
        /\ DOMAIN backlog' = DOMAIN backlog \union {Len(backlog) + 1}
        /\ backlog'[Len(backlog) + 1] = c
        /\ \A k \in DOMAIN backlog : backlog'[k] = backlog[k]
    BY <1>0, <1>2, <2>1 DEF Waits
  <2> QED
    BY <1>0, <1>1, <1>2, <1>3, <2>1, <2>2 DEF Waits
<1>7. \A d \in Clients : d # c => Sound(d)'
  BY <1>0, <1>1, <1>3, Others DEF Same
<1>8. Sound(c)'
  <2>1. Wrong(c)' = Wrong(c)
    BY <1>1, WrongSame
  <2> QED
    BY <1>0, <1>1, <1>2, <2>1 DEF Sound, Record, Connection, WrongOnce, Answer, Gone
<1> QED
  BY <1>0, <1>5, <1>6, <1>7, <1>8 DEF IInv

\* The record is the only one.
LEMMA CSendStep == ASSUME IInv, NEW c \in Clients, CSend(c) PROVE IInv'
<1>0. TypeOK /\ Waits /\ (\A d \in Clients : Sound(d)) /\ Sound(c)
  BY DEF IInv
<1>1. UNCHANGED <<inet, parent, backlog, kid, kidWord, opened, conn, toClient, word, text, answers>>
  BY DEF CSend, serverVars, clientVars
<1>2. /\ cpc[c] = "send" /\ cpc'[c] = "recv" /\ conn[c] = "open" /\ word[c] \in Words
      /\ toServer'[c] = <<word[c]>> /\ toClient[c] = <<>>
  <2>1. toServer[c] = <<>> /\ toClient[c] = <<>> /\ word[c] \in Words
    BY <1>0 DEF CSend, Sound, Record
  <2>2. Append(toServer[c], word[c]) = <<word[c]>>
    BY <2>1, OneRecord
  <2> QED
    BY <1>0, <2>1, <2>2 DEF CSend, TypeOK
<1>3. \A d \in Clients : d # c => toServer'[d] = toServer[d] /\ cpc'[d] = cpc[d]
  BY <1>0 DEF CSend, serverVars, clientVars, TypeOK
<1>4. toServer' \in [Clients -> Seq(Words)] /\ cpc' \in [Clients -> {"ask", "connect", "send", "recv", "done", "failed", "killed"}]
  <2>1. Append(toServer[c], word[c]) \in Seq(Words)
    BY <1>0, <1>2 DEF TypeOK
  <2> QED
    BY <1>0, <2>1 DEF CSend, TypeOK
<1>5. TypeOK'
  <2>1. \A d \in Clients : Len(toServer'[d]) + Len(toClient'[d]) =< 1
    <3>1. Len(toServer'[c]) = 1 /\ Len(toClient[c]) = 0
      BY <1>2
    <3>2. Len(toServer'[c]) + Len(toClient'[c]) =< 1
      BY <1>1, <3>1
    <3>3. \A d \in Clients : d # c => toServer'[d] = toServer[d] /\ toClient'[d] = toClient[d]
      BY <1>1, <1>3
    <3>4. \A d \in Clients : Len(toServer[d]) + Len(toClient[d]) =< 1
      BY <1>0 DEF TypeOK
    <3> QED
      BY <3>2, <3>3, <3>4
  <2> QED
    BY <1>0, <1>1, <1>4, <2>1 DEF TypeOK
<1>6. Waits'
  BY <1>0, <1>1 DEF Waits
<1>7. \A d \in Clients : d # c => Sound(d)'
  BY <1>0, <1>1, <1>3, Others DEF Same
<1>8. Sound(c)'
  <2>1. Wrong(c)' = Wrong(c)
    BY <1>1, WrongSame
  <2> QED
    BY <1>0, <1>1, <1>2, <2>1 DEF Sound, Record, Connection, WrongOnce, Answer, Gone
<1> QED
  BY <1>0, <1>5, <1>6, <1>7, <1>8 DEF IInv

\* The record is thrown away.
LEMMA CSendHalfClosedStep == ASSUME IInv, NEW c \in Clients, CSendHalfClosed(c) PROVE IInv'
<1>0. TypeOK /\ Waits /\ (\A d \in Clients : Sound(d)) /\ Sound(c)
  BY DEF IInv
<1>1. UNCHANGED <<inet, parent, backlog, kid, kidWord, opened, toServer, toClient, word, text, answers>>
  BY DEF CSendHalfClosed, serverVars, clientVars
<1>2. /\ inet /\ cpc[c] = "send" /\ cpc'[c] = "recv" /\ conn[c] \in {"fin", "rst"}
      /\ conn'[c] = "rst"
  BY <1>0 DEF CSendHalfClosed, serverVars, clientVars, TypeOK, Sound, Record, Connection
<1>3. \A d \in Clients : d # c => conn'[d] = conn[d] /\ cpc'[d] = cpc[d]
  BY <1>0 DEF CSendHalfClosed, serverVars, clientVars, TypeOK
<1>4. conn' \in [Clients -> {"none", "open", "fin", "rst", "reset"}] /\ cpc' \in [Clients -> {"ask", "connect", "send", "recv", "done", "failed", "killed"}]
  BY <1>0 DEF CSendHalfClosed, serverVars, clientVars, TypeOK
<1>5. TypeOK'
  BY <1>0, <1>1, <1>4 DEF TypeOK
<1>6. Waits'
  <2>1. \A k \in DOMAIN backlog : backlog[k] \in Clients /\ backlog[k] # c
    BY <1>0, <1>2 DEF Waits, TypeOK
  <2> QED
    BY <1>0, <1>1, <1>3, <2>1 DEF Waits
<1>7. \A d \in Clients : d # c => Sound(d)'
  BY <1>0, <1>1, <1>3, Others DEF Same
<1>8. Sound(c)'
  <2>1. Wrong(c)' = Wrong(c)
    BY <1>1, WrongSame
  <2> QED
    BY <1>0, <1>1, <1>2, <2>1 DEF Sound, Record, Connection, WrongOnce, Answer, Gone
<1> QED
  BY <1>0, <1>5, <1>6, <1>7, <1>8 DEF IInv

\* The reset arrives.
LEMMA NetResetStep == ASSUME IInv, NEW c \in Clients, NetReset(c) PROVE IInv'
<1>0. TypeOK /\ Waits /\ (\A d \in Clients : Sound(d)) /\ Sound(c)
  BY DEF IInv
<1>1. UNCHANGED <<inet, parent, backlog, kid, kidWord, opened, toServer, toClient, cpc, word, text, answers>>
  BY DEF NetReset, serverVars, clientVars
<1>2. conn[c] = "rst" /\ conn'[c] = "reset"
  BY <1>0 DEF NetReset, serverVars, clientVars, TypeOK, Sound, Record, Connection
<1>3. \A d \in Clients : d # c => conn'[d] = conn[d]
  BY <1>0 DEF NetReset, serverVars, clientVars, TypeOK
<1>4. conn' \in [Clients -> {"none", "open", "fin", "rst", "reset"}]
  BY <1>0 DEF NetReset, serverVars, clientVars, TypeOK
<1>5. TypeOK'
  BY <1>0, <1>1, <1>4 DEF TypeOK
<1>6. Waits'
  <2>1. \A k \in DOMAIN backlog : backlog[k] \in Clients /\ backlog[k] # c
    BY <1>0, <1>2 DEF Waits, TypeOK
  <2> QED
    BY <1>0, <1>1, <1>3, <2>1 DEF Waits
<1>7. \A d \in Clients : d # c => Sound(d)'
  BY <1>0, <1>1, <1>3, Others DEF Same
<1>8. Sound(c)'
  <2>1. Wrong(c)' = Wrong(c)
    BY <1>1, WrongSame
  <2> QED
    BY <1>0, <1>1, <1>2, <2>1 DEF Sound, Record, Connection, WrongOnce, Answer, Gone
<1> QED
  BY <1>0, <1>5, <1>6, <1>7, <1>8 DEF IInv

\* What the client reads is the answer to its word.
LEMMA CRecvStep == ASSUME IInv, NEW c \in Clients, CRecv(c) PROVE IInv'
<1>0. TypeOK /\ Waits /\ (\A d \in Clients : Sound(d)) /\ Sound(c)
  BY DEF IInv
<1>1. UNCHANGED <<inet, parent, backlog, kid, kidWord, opened, conn, toServer, word>>
  BY DEF CRecv, serverVars, clientVars, Prints
<1>2. /\ cpc[c] = "recv" /\ cpc'[c] = "ask" /\ toClient'[c] = <<>> /\ word[c] \in Words
      /\ answers'[c] = Append(answers[c], [word |-> word[c], text |-> Answer(word[c])])
      /\ text'[c] = Answer(word[c]) /\ conn[c] \in {"open", "fin"} /\ kid[c] \in {"recv", "exit"}
      /\ toServer[c] = <<>> /\ toClient[c] # <<>>
  <2>1. /\ toClient[c] = <<Answer(word[c])>> /\ word[c] \in Words /\ toServer[c] = <<>>
        /\ conn[c] \in {"open", "fin"} /\ kid[c] \in {"recv", "exit"} /\ Answer(word[c]) \in Texts
    BY <1>0 DEF CRecv, Sound, Record, Answer, Texts
  <2>2. Head(toClient[c]) = Answer(word[c]) /\ Tail(toClient[c]) = <<>>
    BY <2>1, OneRecord
  <2> QED
    BY <1>0, <2>1, <2>2 DEF CRecv, Prints, TypeOK
<1>3. \A d \in Clients : d # c => text'[d] = text[d] /\ answers'[d] = answers[d] /\ cpc'[d] = cpc[d] /\ toClient'[d] = toClient[d]
  BY <1>0 DEF CRecv, serverVars, clientVars, Prints, TypeOK
<1>4. text' \in [Clients -> Texts] /\ answers' \in [Clients -> Seq([word : Words, text : Texts])] /\ cpc' \in [Clients -> {"ask", "connect", "send", "recv", "done", "failed", "killed"}] /\ toClient' \in [Clients -> Seq(Texts)]
  <2>1. Answer(word[c]) \in Texts /\ [word |-> word[c], text |-> Answer(word[c])] \in [word : Words, text : Texts]
    BY <1>2 DEF Answer, Texts
  <2>2. Append(answers[c], [word |-> word[c], text |-> Answer(word[c])]) \in Seq([word : Words, text : Texts])
    <3>1. answers[c] \in Seq([word : Words, text : Texts])
      BY <1>0 DEF TypeOK
    <3> QED
      BY <2>1, <3>1, AppendTyped
  <2>3. Head(toClient[c]) = Answer(word[c]) /\ Tail(toClient[c]) \in Seq(Texts)
    BY <1>0 DEF CRecv, TypeOK, Sound, Record, Answer
  <2> QED
    BY <1>0, <2>1, <2>2, <2>3 DEF CRecv, Prints, TypeOK
<1>5. TypeOK'
  <2>1. \A d \in Clients : Len(toServer'[d]) + Len(toClient'[d]) =< 1
    <3>1. Len(toServer[c]) = 0 /\ Len(toClient'[c]) = 0
      BY <1>2
    <3>2. Len(toServer'[c]) + Len(toClient'[c]) =< 1
      BY <1>1, <3>1
    <3>3. \A d \in Clients : d # c => toServer'[d] = toServer[d] /\ toClient'[d] = toClient[d]
      BY <1>1, <1>3
    <3>4. \A d \in Clients : Len(toServer[d]) + Len(toClient[d]) =< 1
      BY <1>0 DEF TypeOK
    <3> QED
      BY <3>2, <3>3, <3>4
  <2> QED
    BY <1>0, <1>1, <1>4, <2>1 DEF TypeOK
<1>6. Waits'
  BY <1>0, <1>1 DEF Waits
<1>7. \A d \in Clients : d # c => Sound(d)'
  BY <1>0, <1>1, <1>3, Others DEF Same
<1>8. Sound(c)'
  <2>1. Right([word |-> word[c], text |-> Answer(word[c])])
    BY DEF Right, Answer
  <2>2. [word |-> word[c], text |-> Answer(word[c])] \in [word : Words, text : Texts]
        /\ answers[c] \in Seq([word : Words, text : Texts])
    BY <1>0, <1>2 DEF TypeOK, Answer, Texts
  <2>3. Wrong(c)' = Wrong(c) /\ Wrong(c) = {}
    BY <1>0, <1>2, <2>1, <2>2, WrongNext DEF Sound, WrongOnce
  <2> QED
    BY <1>0, <1>1, <1>2, <2>3 DEF Sound, Record, Connection, WrongOnce, Answer, Gone
<1> QED
  BY <1>0, <1>5, <1>6, <1>7, <1>8 DEF IInv

\* The one step that prints a wrong answer: the connection was closed.
LEMMA CRecvEofStep == ASSUME IInv, NEW c \in Clients, CRecvEof(c) PROVE IInv'
<1>0. TypeOK /\ Waits /\ (\A d \in Clients : Sound(d)) /\ Sound(c)
  BY DEF IInv
<1>1. UNCHANGED <<inet, parent, backlog, kid, kidWord, opened, conn, toServer, toClient, word>>
  BY DEF CRecvEof, serverVars, clientVars, Prints
<1>2. /\ cpc[c] = "recv" /\ cpc'[c] = "ask" /\ toClient[c] = <<>> /\ toServer[c] = <<>>
      /\ word[c] \in Words /\ text[c] \in Texts /\ conn[c] \in {"fin", "rst"}
      /\ answers'[c] = Append(answers[c], [word |-> word[c], text |-> text[c]])
      /\ kid[c] \in {"none", "exit"}
  BY <1>0 DEF CRecvEof, serverVars, clientVars, Prints, TypeOK, Sound, Record, Connection
<1>3. \A d \in Clients : d # c => text'[d] = text[d] /\ answers'[d] = answers[d] /\ cpc'[d] = cpc[d]
  BY <1>0 DEF CRecvEof, serverVars, clientVars, Prints, TypeOK
<1>4. text' \in [Clients -> Texts] /\ answers' \in [Clients -> Seq([word : Words, text : Texts])] /\ cpc' \in [Clients -> {"ask", "connect", "send", "recv", "done", "failed", "killed"}]
  <2>1. text[c] \in Texts /\ [word |-> word[c], text |-> text[c]] \in [word : Words, text : Texts]
    BY <1>2 DEF Answer, Texts
  <2>2. Append(answers[c], [word |-> word[c], text |-> text[c]]) \in Seq([word : Words, text : Texts])
    <3>1. answers[c] \in Seq([word : Words, text : Texts])
      BY <1>0 DEF TypeOK
    <3> QED
      BY <2>1, <3>1, AppendTyped
  <2> QED
    BY <1>0, <2>1, <2>2 DEF CRecvEof, Prints, TypeOK
<1>5. TypeOK'
  BY <1>0, <1>1, <1>4 DEF TypeOK
<1>6. Waits'
  BY <1>0, <1>1 DEF Waits
<1>7. \A d \in Clients : d # c => Sound(d)'
  BY <1>0, <1>1, <1>3, Others DEF Same
<1>8. Sound(c)'
  <2> DEFINE a == [word |-> word[c], text |-> text[c]]
             n == Len(answers[c]) + 1
  <2>1. a \in [word : Words, text : Texts] /\ answers[c] \in Seq([word : Words, text : Texts])
    BY <1>0, <1>2 DEF TypeOK
  <2>2. Wrong(c)' = Wrong(c) \union (IF Right(a) THEN {} ELSE {n}) /\ n \in DOMAIN answers'[c]
    BY <1>2, <2>1, WrongNext
  <2>3. inet \/ Wrong(c) = {}
    BY <1>0, <1>2 DEF Sound, WrongOnce
  <2>4. Record(c)' /\ Connection(c)'
    BY <1>0, <1>1, <1>2 DEF Sound, Record, Connection, Answer, Gone
  <2>5. WrongOnce(c)'
    <3>1. ~inet => Wrong(c)' = {} \/ Wrong(c)' = {n}
      BY <2>2, <2>3
    <3> HIDE DEF a, n
    <3> QED
      BY <1>1, <1>2, <2>2, <3>1 DEF WrongOnce
  <2> QED
    BY <2>4, <2>5 DEF Sound
<1> QED
  BY <1>0, <1>5, <1>6, <1>7, <1>8 DEF IInv

\* At first there is no connection and nobody has printed anything.
LEMMA InitInv == Init => IInv
<1> SUFFICES ASSUME Init PROVE IInv
  OBVIOUS
<1>1. TypeOK
  <2>1. <<>> \in Seq(Clients) /\ <<>> \in Seq(Words) /\ <<>> \in Seq(Texts)
        /\ <<>> \in Seq([word : Words, text : Texts]) /\ Len(<<>>) = 0
    OBVIOUS
  <2>2. BACKLOG \in Nat
    BY ConstAssumption
  <2> QED
    BY <2>1, <2>2 DEF Init, TypeOK, Texts
<1>2. Waits
  BY DEF Init, Waits
<1>3. ASSUME NEW c \in Clients PROVE Sound(c)
  <2>1. Wrong(c) = {}
    BY DEF Init, Wrong
  <2> QED
    BY <2>1 DEF Init, Sound, Record, Connection, WrongOnce
<1> QED
  BY <1>1, <1>2, <1>3 DEF IInv

\* Every step keeps the invariant.
LEMMA StepInv == IInv /\ [Next]_vars => IInv'
<1> SUFFICES ASSUME IInv, [Next]_vars PROVE IInv'
  OBVIOUS
<1>1. CASE Next
  BY <1>1, AcceptStep, ParentDies, KRecvStep, KEofStep, KLookupStep, KNoFileStep, KKilledStep, KSendStep,
     CAskStep, CStopsStep, CConnectStep, CSendStep, CSendHalfClosedStep, NetResetStep,
     CRecvStep, CRecvEofStep
     DEF Next, ParentStep, KidStep, ClientStep
<1>2. CASE UNCHANGED vars
  <2>1. TypeOK' /\ Waits'
    BY <1>2 DEF IInv, vars, TypeOK, Waits
  <2>2. \A c \in Clients : Sound(c)'
    BY <1>2, Others DEF IInv, vars, Same
  <2> QED
    BY <2>1, <2>2 DEF IInv
<1> QED
  BY <1>1, <1>2

-----------------------------------------------------------------------------
\* A client that prints the right answer, or the text it has, has printed nothing
\* but that.
LEMMA PrintsTold ==
    ASSUME TypeOK, NEW c \in Clients, Told(c), word[c] \in Words, NEW t \in Texts, Prints(c, t),
           Right([word |-> word[c], text |-> t]) \/ t = text[c]
    PROVE  Told(c)'
<1> DEFINE a == [word |-> word[c], text |-> t]
           S == [word : Words, text : Texts]
<1>1. /\ answers[c] \in Seq(S) /\ a \in S /\ a.text = t
      /\ answers'[c] = Append(answers[c], a) /\ text'[c] = t
  BY DEF TypeOK, Prints
<1>2. Right(a) \/ t = text[c]
  OBVIOUS
<1> HIDE DEF a, S
<1>n. PICK n \in Nat : n = Len(answers[c])
  BY <1>1
<1>3. Wrong(c)' = Wrong(c) \union (IF Right(a) THEN {} ELSE {n + 1})
  BY <1>1, <1>n, WrongNext
<1>4. /\ Len(answers'[c]) = n + 1 /\ DOMAIN answers[c] = 1..n
      /\ answers'[c][n + 1] = a
      /\ \A k \in DOMAIN answers[c] : answers'[c][k] = answers[c][k]
  BY <1>1, <1>n
<1>5. ASSUME NEW k \in 1..(n + 1) PROVE TextBefore(c, k)' = TextBefore(c, k)
  <2>1. CASE k = 1
    BY <2>1 DEF TextBefore
  <2>2. CASE k # 1
    <3>1. k - 1 \in DOMAIN answers[c]
      BY <1>4, <2>2
    <3> QED
      BY <1>4, <2>2, <3>1 DEF TextBefore
  <2> QED
    BY <2>1, <2>2
<1>6. text[c] = TextBefore(c, n + 1) /\ \A k \in Wrong(c) : answers[c][k].text = TextBefore(c, k)
  BY <1>n DEF Told
<1>7. text'[c] = TextBefore(c, n + 2)'
  <2>1. n + 2 # 1 /\ (n + 2) - 1 = n + 1
    OBVIOUS
  <2> QED
    BY <1>1, <1>4, <2>1 DEF TextBefore
<1>8. ASSUME NEW k \in Wrong(c)' PROVE answers'[c][k].text = TextBefore(c, k)'
  <2>1. CASE k \in Wrong(c)
    <3>1. k \in DOMAIN answers[c] /\ k \in 1..(n + 1)
      BY <1>4, <2>1 DEF Wrong
    <3> QED
      BY <1>4, <1>5, <1>6, <2>1, <3>1
  <2>2. CASE k \notin Wrong(c)
    <3>1. k = n + 1 /\ ~Right(a) /\ n + 1 \in 1..(n + 1)
      BY <1>3, <1>8, <2>2
    <3> QED
      BY <1>1, <1>2, <1>4, <1>5, <1>6, <3>1
  <2> QED
    BY <2>1, <2>2
<1>9. (text[c] = TextBefore(c, Len(answers[c]) + 1))'
  <2>1. Len(answers'[c]) + 1 = n + 2
    BY <1>4
  <2> QED
    BY <1>7, <2>1 DEF TextBefore
<1> QED
  BY <1>8, <1>9 DEF Told

\* Two steps print: the answer that has come, or the text of the record.
LEMMA ToldStep ==
    ASSUME IInv, \A c \in Clients : Told(c), [Next]_vars, NEW c \in Clients
    PROVE  Told(c)'
<1>0. TypeOK /\ Sound(c) /\ Told(c)
  BY DEF IInv
<1>1. CASE CRecv(c)
  <2>1. /\ Head(toClient[c]) = Answer(word[c]) /\ word[c] \in Words
        /\ Answer(word[c]) \in Texts /\ Prints(c, Answer(word[c]))
    <3>1. toClient[c] = <<Answer(word[c])>> /\ word[c] \in Words
      BY <1>0, <1>1 DEF CRecv, Sound, Record
    <3>2. Answer(word[c]) \in Texts /\ Head(toClient[c]) = Answer(word[c])
      BY <3>1 DEF Answer, Texts
    <3> QED
      BY <1>1, <3>1, <3>2 DEF CRecv
  <2>2. Right([word |-> word[c], text |-> Answer(word[c])])
    BY DEF Right, Answer
  <2> QED
    BY <1>0, <2>1, <2>2, PrintsTold
<1>2. CASE CRecvEof(c)
  <2>1. word[c] \in Words /\ text[c] \in Texts /\ Prints(c, text[c])
    BY <1>0, <1>2 DEF CRecvEof, Sound, Record, TypeOK
  <2> QED
    BY <1>0, <2>1, PrintsTold
<1>3. CASE ~CRecv(c) /\ ~CRecvEof(c)
  <2>1. text'[c] = text[c] /\ answers'[c] = answers[c]
    <3>1. CASE UNCHANGED <<text, answers>>
      BY <3>1
    <3>2. ASSUME NEW d \in Clients, CRecv(d) \/ CRecvEof(d)
          PROVE  text'[c] = text[c] /\ answers'[c] = answers[c]
      <4>1. d # c
        BY <1>3, <3>2
      <4> QED
        BY <1>0, <3>2, <4>1 DEF CRecv, CRecvEof, Prints, TypeOK
    <3> QED
      BY <3>1, <3>2 DEF Next, vars, ParentStep, KidStep, ClientStep, clientVars, PAccept,
         PForkFails, PKilled, KRecv, KEof, KLookup, KSend, KNoFile, KKilled, NetReset, CAsk, CQuit,
         CConnect, CRefused, CSend, CSendBroken, CSendHalfClosed, CRecvReset, CKilled
  <2>2. Wrong(c)' = Wrong(c)
    BY <2>1, WrongSame
  <2> QED
    BY <1>0, <2>1, <2>2 DEF Told, TextBefore
<1> QED
  BY <1>1, <1>2, <1>3

\* IInv and Told are invariants of the specification.
LEMMA Invariance == Spec => [](IInv /\ \A c \in Clients : Told(c))
<1>1. Init => \A c \in Clients : Told(c)
  <2> SUFFICES ASSUME Init, NEW c \in Clients PROVE Told(c)
    OBVIOUS
  <2>1. Wrong(c) = {} /\ Len(answers[c]) + 1 = 1 /\ text[c] = Garbage
    BY DEF Init, Wrong
  <2> QED
    BY <2>1 DEF Told, TextBefore
<1>2. /\ IInv /\ (\A c \in Clients : Told(c)) /\ [Next]_vars
      => (\A c \in Clients : Told(c))'
  BY ToldStep
<1> QED
  BY <1>1, <1>2, InitInv, StepInv, PTL DEF Spec

\* A client prints a wrong answer only after its child has died, with the text of
\* its answer before that, and one only in the Unix domain: no answer is mixed up
\* with that of another client.
THEOREM WrongExplained == Spec => []WrongOnlyWhenLost
<1>1. IInv /\ (\A c \in Clients : Told(c)) => WrongOnlyWhenLost
  <2> SUFFICES ASSUME IInv, \A c \in Clients : Told(c) PROVE WrongOnlyWhenLost
    OBVIOUS
  <2>1. ASSUME NEW c \in Clients, Wrong(c) # {}
        PROVE  /\ kid[c] \in {"none", "exit"} /\ conn[c] # "open"
               /\ \A k \in Wrong(c) : answers[c][k].text = TextBefore(c, k)
               /\ ~inet => \E n : Wrong(c) = {n}
    BY <2>1 DEF IInv, Sound, WrongOnce, Told
  <2>2. \A n : Cardinality({n}) = 1
    BY FS_Singleton
  <2> QED
    BY <2>1, <2>2 DEF IInv, WrongOnlyWhenLost
<1> QED
  BY <1>1, Invariance, PTL
=============================================================================
