----------------------------- MODULE DictStream -----------------------------
(***************************************************************************)
(* HW11, parts 1 and 2: main.c asks for words through lookup7 (Unix domain) *)
(* or lookup8 (Internet), and usock_server or isock_server forks a child    *)
(* for each connection, which answers from its table.  The two parts are    *)
(* one program but for the address family: variable inet.                    *)
(*                                                                          *)
(* A record travels as one piece, and each side has at most one under way.  *)
(* conn[c] is the connection as its client sees it: "fin" after an orderly  *)
(* close by the server, "rst" when a reset is on its way, "reset" when it   *)
(* has arrived.  The parent never waits for its children.                   *)
(***************************************************************************)
EXTENDS Naturals, Sequences, FiniteSets, SequencesExt

CONSTANTS Clients, Words,
          Table,      \* the words that the dictionary has
          XXXX,       \* text of the answer "not found"
          Garbage,    \* text of a record before any answer came
          BACKLOG,    \* of listen()
          MAXPROC,    \* children the server may have, zombies included
          MaxAsk      \* bound: words a client asks for

ASSUME ConstAssumption ==
    /\ Table \subseteq Words /\ XXXX \notin Words /\ Garbage \notin Words \union {XXXX}
    /\ BACKLOG \in Nat /\ MAXPROC \in Nat /\ MaxAsk \in Nat \ {0}

VARIABLES inet,                     \* FALSE: part 1, TRUE: part 2; never changes
          parent, backlog,          \* the server; connections not accepted yet
          kid, kidWord, opened,     \* its children: next call, request, table mapped
          conn, toServer, toClient, \* connections and the records in them
          cpc, word, text,          \* clients: next call, the record tryit
          answers                   \* history: what each client has printed

serverVars == <<parent, backlog, kid, kidWord, opened>>
clientVars == <<cpc, word, text, answers>>
vars == <<inet, parent, backlog, kid, kidWord, opened, conn, toServer, toClient,
          cpc, word, text, answers>>

Init ==
    /\ inet \in BOOLEAN
    /\ parent = "up" /\ backlog = <<>>
    /\ kid = [c \in Clients |-> "none"]
    /\ kidWord = [c \in Clients |-> Garbage]
    /\ opened = [c \in Clients |-> FALSE]
    /\ conn = [c \in Clients |-> "none"]
    /\ toServer = [c \in Clients |-> <<>>]
    /\ toClient = [c \in Clients |-> <<>>]
    /\ cpc = [c \in Clients |-> "ask"]
    /\ word = [c \in Clients |-> Garbage]
    /\ text = [c \in Clients |-> Garbage]
    /\ answers = [c \in Clients |-> <<>>]

Gone(c) == cpc[c] \in {"done", "failed", "killed"}
-----------------------------------------------------------------------------
(* The server *)

\* The server's end is closed: with unread data in it the client is reset.
Closed(c) == IF toServer[c] = <<>> THEN "fin" ELSE "reset"

Forked == {c \in Clients : kid[c] # "none"}

\* accept() and fork(); the parent closes its copy of the connection.
PAccept ==
    /\ parent = "up" /\ backlog # <<>> /\ Cardinality(Forked) < MAXPROC
    /\ kid' = [kid EXCEPT ![Head(backlog)] = "recv"]
    /\ backlog' = Tail(backlog)
    /\ UNCHANGED <<inet, parent, kidWord, opened, conn, toServer, toClient, clientVars>>

\* fork() fails: DIE, and all connections that wait are reset.
PForkFails ==
    /\ parent = "up" /\ backlog # <<>> /\ Cardinality(Forked) = MAXPROC
    /\ parent' = "dead" /\ backlog' = <<>>
    /\ conn' = [c \in Clients |->
                  IF c = Head(backlog) THEN Closed(c)
                  ELSE IF c \in Range(backlog) THEN "reset" ELSE conn[c]]
    /\ UNCHANGED <<inet, kid, kidWord, opened, toServer, toClient, clientVars>>

\* A signal ends the parent; connections that wait are reset, children stay.
PKilled ==
    /\ parent = "up"
    /\ parent' = "dead" /\ backlog' = <<>>
    /\ conn' = [c \in Clients |-> IF c \in Range(backlog) THEN "reset" ELSE conn[c]]
    /\ UNCHANGED <<inet, kid, kidWord, opened, toServer, toClient, clientVars>>

KRecv(c) ==
    /\ kid[c] = "recv" /\ toServer[c] # <<>>
    /\ kidWord' = [kidWord EXCEPT ![c] = Head(toServer[c])]
    /\ toServer' = [toServer EXCEPT ![c] = Tail(@)]
    /\ kid' = [kid EXCEPT ![c] = "lookup"]
    /\ UNCHANGED <<inet, parent, backlog, opened, conn, toClient, clientVars>>

\* Mutant of KEof: recv() >= 0 keeps the loop going.
KEofLoops(c) ==
    /\ kid[c] = "recv" /\ toServer[c] = <<>> /\ Gone(c)
    /\ kid' = [kid EXCEPT ![c] = "lookup"]
    /\ UNCHANGED <<inet, parent, backlog, kidWord, opened, conn,
                   toServer, toClient, clientVars>>

\* recv() returns 0, or -1 after a reset: exit(0).
KEof(c) ==
    /\ kid[c] = "recv" /\ toServer[c] = <<>> /\ Gone(c)
    /\ kid' = [kid EXCEPT ![c] = "exit"]
    /\ UNCHANGED <<inet, parent, backlog, kidWord, opened, conn,
                   toServer, toClient, clientVars>>

\* The first lookup of each child opens and maps ./fixrec.
KLookup(c) ==
    /\ kid[c] = "lookup"
    /\ opened' = [opened EXCEPT ![c] = TRUE]
    /\ kid' = [kid EXCEPT ![c] = "send"]
    /\ UNCHANGED <<inet, parent, backlog, kidWord, conn, toServer, toClient, clientVars>>

\* It cannot be opened: DIE, and the client has no answer.
KNoFile(c) ==
    /\ kid[c] = "lookup" /\ ~opened[c]
    /\ kid' = [kid EXCEPT ![c] = "exit"]
    /\ conn' = [conn EXCEPT ![c] = Closed(c)]
    /\ UNCHANGED <<inet, parent, backlog, kidWord, opened, toServer, toClient, clientVars>>

\* A signal ends a child anywhere (^C at the server's terminal ends all of them).
KKilled(c) ==
    /\ kid[c] \in {"recv", "lookup", "send"}
    /\ kid' = [kid EXCEPT ![c] = "exit"]
    /\ conn' = [conn EXCEPT ![c] = Closed(c)]
    /\ UNCHANGED <<inet, parent, backlog, kidWord, opened, toServer, toClient, clientVars>>

\* Mutant of Answer: strcpy of "XXXX" is missing.
AnswerUnmarked(w) == IF w \in Table THEN w ELSE Garbage

\* The record as it was sent, with the text found or "XXXX".
Answer(w) == IF w \in Table THEN w ELSE XXXX

\* Mutant of KSend: no record for a word that is not found.
KSendFoundOnly(c) ==
    /\ kid[c] = "send"
    /\ kid' = [kid EXCEPT ![c] = "recv"]
    /\ toClient' = IF Gone(c) \/ kidWord[c] \notin Table THEN toClient
                   ELSE [toClient EXCEPT ![c] = Append(@, Answer(kidWord[c]))]
    /\ UNCHANGED <<inet, parent, backlog, kidWord, opened, conn, toServer, clientVars>>

\* send() to a client that is gone ends the child (SIGPIPE) or does nothing.
KSend(c) ==
    /\ kid[c] = "send"
    /\ kid' = [kid EXCEPT ![c] = IF Gone(c) /\ ~inet THEN "exit" ELSE "recv"]
    /\ toClient' = IF Gone(c) THEN toClient
                   ELSE [toClient EXCEPT ![c] = Append(@, Answer(kidWord[c]))]
    /\ UNCHANGED <<inet, parent, backlog, kidWord, opened, conn, toServer, clientVars>>
-----------------------------------------------------------------------------
(* The clients *)

\* gets() of the next word; the first lookup connects.
CAsk(c) ==
    /\ cpc[c] = "ask" /\ Len(answers[c]) < MaxAsk
    /\ \E w \in Words : word' = [word EXCEPT ![c] = w]
    /\ cpc' = [cpc EXCEPT ![c] = IF conn[c] = "none" THEN "connect" ELSE "send"]
    /\ UNCHANGED <<inet, serverVars, conn, toServer, toClient, text, answers>>

\* End of file on stdin.
CQuit(c) ==
    /\ cpc[c] = "ask"
    /\ cpc' = [cpc EXCEPT ![c] = "done"]
    /\ UNCHANGED <<inet, serverVars, conn, toServer, toClient, word, text, answers>>

\* connect() waits while the backlog is full, and fails without a server.
CConnect(c) ==
    /\ cpc[c] = "connect" /\ parent = "up" /\ Len(backlog) =< BACKLOG
    /\ backlog' = Append(backlog, c)
    /\ conn' = [conn EXCEPT ![c] = "open"]
    /\ cpc' = [cpc EXCEPT ![c] = "send"]
    /\ UNCHANGED <<inet, parent, kid, kidWord, opened, toServer, toClient,
                   word, text, answers>>

CRefused(c) ==
    /\ cpc[c] = "connect" /\ parent = "dead"
    /\ cpc' = [cpc EXCEPT ![c] = "failed"]
    /\ UNCHANGED <<inet, serverVars, conn, toServer, toClient, word, text, answers>>

CSend(c) ==
    /\ cpc[c] = "send" /\ conn[c] = "open"
    /\ toServer' = [toServer EXCEPT ![c] = Append(@, word[c])]
    /\ cpc' = [cpc EXCEPT ![c] = "recv"]
    /\ UNCHANGED <<inet, serverVars, conn, toClient, word, text, answers>>

\* send() on a connection that the server has closed: SIGPIPE, or DIE.
CSendBroken(c) ==
    /\ cpc[c] = "send" /\ conn[c] \in (IF inet THEN {"reset"} ELSE {"fin", "reset"})
    /\ cpc' = [cpc EXCEPT ![c] = "failed"]
    /\ UNCHANGED <<inet, serverVars, conn, toServer, toClient, word, text, answers>>

\* TCP takes the record, and the server's host answers it with a reset.
CSendHalfClosed(c) ==
    /\ inet /\ cpc[c] = "send" /\ conn[c] \in {"fin", "rst"}
    /\ conn' = [conn EXCEPT ![c] = "rst"]
    /\ cpc' = [cpc EXCEPT ![c] = "recv"]
    /\ UNCHANGED <<inet, serverVars, toServer, toClient, word, text, answers>>

NetReset(c) ==
    /\ conn[c] = "rst"
    /\ conn' = [conn EXCEPT ![c] = "reset"]
    /\ UNCHANGED <<inet, serverVars, toServer, toClient, clientVars>>

\* lookup returns and main prints: FOUND with this text, or "Not Found!".
Prints(c, t) ==
    /\ text' = [text EXCEPT ![c] = t]
    /\ answers' = [answers EXCEPT ![c] = Append(@, [word |-> word[c], text |-> t])]
    /\ cpc' = [cpc EXCEPT ![c] = "ask"]

CRecv(c) ==
    /\ cpc[c] = "recv" /\ toClient[c] # <<>>
    /\ Prints(c, Head(toClient[c]))
    /\ toClient' = [toClient EXCEPT ![c] = Tail(@)]
    /\ UNCHANGED <<inet, serverVars, conn, toServer, word>>

\* recv() returns 0, which is not tested: the text is that of the last answer.
CRecvEof(c) ==
    /\ cpc[c] = "recv" /\ toClient[c] = <<>> /\ conn[c] \in {"fin", "rst"}
    /\ Prints(c, text[c])
    /\ UNCHANGED <<inet, serverVars, conn, toServer, toClient, word>>

CRecvReset(c) ==
    /\ cpc[c] = "recv" /\ toClient[c] = <<>> /\ conn[c] = "reset"
    /\ cpc' = [cpc EXCEPT ![c] = "failed"]
    /\ UNCHANGED <<inet, serverVars, conn, toServer, toClient, word, text, answers>>

\* A signal ends a client anywhere.
CKilled(c) ==
    /\ cpc[c] \in {"send", "recv"}
    /\ cpc' = [cpc EXCEPT ![c] = "killed"]
    /\ UNCHANGED <<inet, serverVars, conn, toServer, toClient, word, text, answers>>
-----------------------------------------------------------------------------
ParentStep == PAccept \/ PForkFails
KidStep(c) == KRecv(c) \/ KEof(c) \/ KLookup(c) \/ KSend(c)
ClientStep(c) ==
    \/ CConnect(c) \/ CRefused(c) \/ CSend(c) \/ CSendBroken(c)
    \/ CSendHalfClosed(c) \/ CRecv(c) \/ CRecvEof(c) \/ CRecvReset(c)

Next ==
    \/ ParentStep \/ PKilled
    \/ \E c \in Clients :
         \/ KidStep(c) \/ KNoFile(c) \/ KKilled(c) \/ NetReset(c)
         \/ CAsk(c) \/ CQuit(c) \/ ClientStep(c) \/ CKilled(c)

Spec == Init /\ [][Next]_vars

\* The server, its children and the clients run on; nobody has to type a word.
FairSpec == /\ Spec
            /\ WF_vars(ParentStep)
            /\ \A c \in Clients : WF_vars(KidStep(c)) /\ WF_vars(ClientStep(c))
-----------------------------------------------------------------------------
(* Properties *)

Texts == Words \union {XXXX, Garbage}

\* Every variable keeps its type; a connection never holds two records.
TypeOK ==
    /\ inet \in BOOLEAN
    /\ parent \in {"up", "dead"} /\ backlog \in Seq(Clients)
    /\ Len(backlog) =< BACKLOG + 1
    /\ kid \in [Clients -> {"none", "recv", "lookup", "send", "exit"}]
    /\ kidWord \in [Clients -> Words \union {Garbage}]
    /\ opened \in [Clients -> BOOLEAN]
    /\ conn \in [Clients -> {"none", "open", "fin", "rst", "reset"}]
    /\ toServer \in [Clients -> Seq(Words)] /\ toClient \in [Clients -> Seq(Texts)]
    /\ \A c \in Clients : Len(toServer[c]) + Len(toClient[c]) =< 1
    /\ answers \in [Clients -> Seq([word : Words, text : Texts])]
    /\ cpc \in [Clients -> {"ask", "connect", "send", "recv", "done", "failed", "killed"}]
    /\ word \in [Clients -> Words \union {Garbage}]
    /\ text \in [Clients -> Texts]

\* What the table says of the word.
Right(a) == a.text = IF a.word \in Table THEN a.word ELSE XXXX

Wrong(c) == {k \in DOMAIN answers[c] : ~Right(answers[c][k])}

\* The text that client c's record had before its k-th answer.
TextBefore(c, k) == IF k = 1 THEN Garbage ELSE answers[c][k - 1].text

\* A client prints a wrong answer only when its child has died before sending the
\* right one.  The text is then the one that the client printed before, or what its
\* record was born with, never one of another client; and in the Unix domain it
\* happens once.  (Stated together with the types.)
WrongOnlyWhenLost ==
    /\ TypeOK
    /\ \A c \in Clients :
           Wrong(c) # {} => /\ kid[c] \in {"none", "exit"} /\ conn[c] # "open"
                            /\ \A k \in Wrong(c) : answers[c][k].text = TextBefore(c, k)
                            /\ ~inet => Cardinality(Wrong(c)) = 1

\* A client that has asked gets an answer or fails: a full backlog, a dead child,
\* a dead parent or a dead client keep nobody waiting.
NobodyWaits ==
    \A c \in Clients : cpc[c] \in {"connect", "send", "recv"} ~> (cpc[c] = "ask" \/ Gone(c))

\* A child ends when its client does, also after its parent has died, unless
\* the connection was never accepted.
ChildrenEnd ==
    \A c \in Clients : Gone(c) /\ conn[c] = "open" ~> kid[c] = "exit" \/ conn[c] # "open"
=============================================================================
