---------------------------- MODULE DictDatagram ----------------------------
(***************************************************************************)
(* HW11/part3: main.c asks for words through lookup9, which sends a         *)
(* datagram to udp_server on the same host (INADDR_ANY) and waits for the   *)
(* answer without a timeout.  The server is one process that looks a word   *)
(* up with lookup5, step by step, and answers the sender of the last        *)
(* datagram.  The local network loses a datagram only    *)
(* when no socket is bound or the socket's buffer is full; it neither       *)
(* duplicates nor reorders.                                                 *)
(***************************************************************************)
EXTENDS BinaryLookup, Sequences, FiniteSets, SequencesExt

CONSTANTS Clients,
          XXXX,      \* text of the answer "not found"
          RCVBUF,    \* datagrams the server's socket holds
          MaxAsk,    \* bound: words a client asks for
          MaxRuns    \* bound: server runs

ASSUME ConstAssumption ==
    /\ XXXX \notin Words /\ Clients # {}
    /\ RCVBUF \in Nat /\ MaxAsk \in Nat /\ MaxRuns \in Nat

VARIABLES spc, run, dr,      \* server: next call, number of runs, record and sender
          socket,            \* datagrams in the server's socket
          cpc, word, inbox,  \* clients: next call, sought->word, their socket
          lost,              \* history: the client's latest datagram went nowhere
          answers            \* history: what each client has printed

serverVars == <<spc, run, dr, lookupVars>>
vars == <<spc, run, dr, socket, cpc, word, inbox, lost, answers, lookupVars>>

Datagram == [from : Clients, word : Words]

\* Record, word and sought are set before they are read.
Init ==
    /\ LookupInit /\ sought = CHOOSE w \in Words : TRUE
    /\ spc = "off" /\ run = 0
    /\ dr = [from |-> CHOOSE c \in Clients : TRUE, word |-> sought]
    /\ socket = <<>>
    /\ cpc = [c \in Clients |-> "ask"]
    /\ word = [c \in Clients |-> sought]
    /\ inbox = [c \in Clients |-> <<>>]
    /\ lost = [c \in Clients |-> FALSE]
    /\ answers = [c \in Clients |-> <<>>]

Bound == spc \notin {"off", "killed"}
Gone(c) == cpc[c] \in {"done", "killed"}
-----------------------------------------------------------------------------
(* The server *)

SBind ==
    /\ ~Bound /\ run < MaxRuns
    /\ run' = run + 1 /\ spc' = "recvfrom"
    /\ UNCHANGED <<dr, socket, cpc, word, inbox, lost, answers, lookupVars>>

\* Mutant of SRecvfrom: the sender's address is not taken.
SRecvfromNoAddress ==
    /\ spc = "recvfrom" /\ socket # <<>>
    /\ dr' = [Head(socket) EXCEPT !.from = dr.from] /\ socket' = Tail(socket)
    /\ Begin(Head(socket).word) /\ spc' = "lookup"
    /\ UNCHANGED <<run, cpc, word, inbox, lost, answers>>

\* recvfrom() sets the record and the address of the client; lookup is called.
SRecvfrom ==
    /\ spc = "recvfrom" /\ socket # <<>>
    /\ dr' = Head(socket) /\ socket' = Tail(socket)
    /\ Begin(Head(socket).word) /\ spc' = "lookup"
    /\ UNCHANGED <<run, cpc, word, inbox, lost, answers>>

Lookup ==
    /\ spc = "lookup" /\ SearchStep
    /\ UNCHANGED <<spc, run, dr, socket, cpc, word, inbox, lost, answers>>

\* Mutant of SSendto: no answer for a word that is not found.
SSendtoFoundOnly ==
    /\ spc = "lookup" /\ done
    /\ inbox' = IF Gone(dr.from) \/ found = None THEN inbox
                ELSE [inbox EXCEPT ![dr.from] = Append(@, table[found])]
    /\ spc' = "recvfrom"
    /\ UNCHANGED <<run, dr, socket, cpc, word, lost, answers, lookupVars>>

\* The text found, or XXXX.  A client that is gone has no socket any more.
SSendto ==
    /\ spc = "lookup" /\ done
    /\ inbox' = IF Gone(dr.from) THEN inbox
                ELSE [inbox EXCEPT ![dr.from] =
                        Append(@, IF found = None THEN XXXX ELSE table[found])]
    /\ spc' = "recvfrom"
    /\ UNCHANGED <<run, dr, socket, cpc, word, lost, answers, lookupVars>>

\* A signal ends the server, or DIE when lookup cannot open ./fixrec; what its
\* socket holds is lost.
SKilled ==
    /\ Bound
    /\ spc' = "killed" /\ socket' = <<>>
    /\ lost' = [c \in Clients |->
                  lost[c] \/ (\E i \in DOMAIN socket : socket[i].from = c)
                          \/ (spc = "lookup" /\ dr.from = c)]
    /\ UNCHANGED <<run, dr, cpc, word, inbox, answers, lookupVars>>
-----------------------------------------------------------------------------
(* The clients *)

CAsk(c) ==
    /\ cpc[c] = "ask" /\ Len(answers[c]) < MaxAsk
    /\ \E w \in Words : word' = [word EXCEPT ![c] = w]
    /\ cpc' = [cpc EXCEPT ![c] = "sendto"]
    /\ UNCHANGED <<serverVars, socket, inbox, lost, answers>>

CQuit(c) ==
    /\ cpc[c] = "ask"
    /\ cpc' = [cpc EXCEPT ![c] = "done"]
    /\ UNCHANGED <<serverVars, socket, word, inbox, lost, answers>>

\* sendto() succeeds whether or not the datagram gets into a socket.
CSendto(c) ==
    /\ cpc[c] = "sendto"
    /\ IF Bound /\ Len(socket) < RCVBUF
       THEN /\ socket' = Append(socket, [from |-> c, word |-> word[c]])
            /\ lost' = lost
       ELSE /\ socket' = socket
            /\ lost' = [lost EXCEPT ![c] = TRUE]
    /\ cpc' = [cpc EXCEPT ![c] = "recvfrom"]
    /\ UNCHANGED <<serverVars, word, inbox, answers>>

CRecvfrom(c) ==
    /\ cpc[c] = "recvfrom" /\ inbox[c] # <<>>
    /\ answers' = [answers EXCEPT ![c] =
                     Append(@, [word |-> word[c], text |-> Head(inbox[c])])]
    /\ inbox' = [inbox EXCEPT ![c] = Tail(@)]
    /\ cpc' = [cpc EXCEPT ![c] = "ask"]
    /\ UNCHANGED <<serverVars, socket, word, lost>>

CKilled(c) ==
    /\ cpc[c] \in {"sendto", "recvfrom"}
    /\ cpc' = [cpc EXCEPT ![c] = "killed"]
    /\ inbox' = [inbox EXCEPT ![c] = <<>>]
    /\ UNCHANGED <<serverVars, socket, word, lost, answers>>
-----------------------------------------------------------------------------
ServerStep == SRecvfrom \/ Lookup \/ SSendto
ClientStep(c) == CSendto(c) \/ CRecvfrom(c)

Next ==
    \/ SBind \/ ServerStep \/ SKilled
    \/ \E c \in Clients : CAsk(c) \/ CQuit(c) \/ ClientStep(c) \/ CKilled(c)

Spec == Init /\ [][Next]_vars

\* A started server runs on and so do the clients; nobody has to type a word.
FairSpec == /\ Spec
            /\ WF_vars(ServerStep)
            /\ \A c \in Clients : WF_vars(ClientStep(c))
-----------------------------------------------------------------------------
(* Properties *)

\* Every variable keeps its type, and a client has at most one datagram under
\* way, whichever way it goes.
TypeOK ==
    /\ spc \in {"off", "killed", "recvfrom", "lookup"} /\ run \in 0..MaxRuns
    /\ dr \in Datagram /\ socket \in Seq(Datagram) /\ Len(socket) =< RCVBUF
    /\ cpc \in [Clients -> {"ask", "sendto", "recvfrom", "done", "killed"}]
    /\ word \in [Clients -> Words] /\ lost \in [Clients -> BOOLEAN]
    /\ \A c \in Clients :
         /\ inbox[c] \in Seq(Words \union {XXXX})
         /\ answers[c] \in Seq([word : Words, text : Words \union {XXXX}])
         /\ Cardinality({i \in DOMAIN socket : socket[i].from = c}) + Len(inbox[c])
              + (IF spc = "lookup" /\ dr.from = c THEN 1 ELSE 0) =< 1

InTable(w) == \E i \in Records : table[i] = w

\* No client is ever given the answer to another word, or to another client:
\* one server and datagrams that cannot overtake each other keep request and
\* answer together, over restarts of the server and with dead clients around.
\* A word of the table is always found in a table that the limit is enough for
\* (2^(Limit - 1) records, so that lookup5's 100 is for any table an int counts).
\* (Stated together with the types.)
RightAnswers ==
    /\ TypeOK
    /\ \A c \in Clients : \A k \in DOMAIN answers[c] :
           LET a == answers[c][k] IN
           \/ a.text = IF InTable(a.word) THEN a.word ELSE XXXX
           \/ a.text = XXXX /\ ~EnoughLimit

\* Nothing is sent again (lookup9.c 49-51): a client waits for ever exactly when
\* its datagram was lost.  In particular the search ends, though a window of one
\* record never gets smaller.
AnsweredUnlessLost ==
    \A c \in Clients :
        cpc[c] \in {"sendto", "recvfrom"} ~> (cpc[c] \in {"ask", "killed"} \/ lost[c])
=============================================================================
