------------------------------ MODULE ProdCons ------------------------------
(***************************************************************************)
(* HW10/program.c: a producer writes M numbered messages into a ring of B   *)
(* slots in shared memory and, after each, sends SIGUSR1 with the number to *)
(* N consumers with sigqueue.  A consumer waits in sigwaitinfo and counts   *)
(* the message as received if its slot still holds it, as lost otherwise.   *)
(*                                                                          *)
(* SIGUSR1 is a standard signal: sigqueue to a process that has one pending *)
(* succeeds and is forgotten.  The counters are shared by all consumers and *)
(* incremented without a lock.  The first wait() of the producer, called    *)
(* without its argument, may fail with EFAULT.                              *)
(***************************************************************************)
EXTENDS Integers, FiniteSets

CONSTANTS M, N, B   \* messages, consumers, slots: argv[1], argv[3], argv[4]

ASSUME ConstAssumption == M \in Nat \ {0} /\ N \in Nat \ {0} /\ B \in Nat \ {0}

Consumers == 1..N
Messages == 0..(M - 1)
None == -1   \* no message

VARIABLES slot,      \* msg_num of each slot of shmp
          counters,  \* shmp_cnt: cnt and loss_cnt
          pending,   \* pending SIGUSR1 of each consumer: its value, or None
          ppc, i, k, \* producer: next step, message, next consumer to signal
          report,    \* the printed "sum of received messages", or None
          cpc, si, tmp,      \* consumers: next step, si_value, register
          received   \* history: <<c, m>>: consumer c counted m as received

producerVars == <<ppc, i, k, report>>
consumerVars == <<cpc, si, tmp>>
vars == <<slot, counters, pending, ppc, i, k, report, cpc, si, tmp, received>>

\* An earlier run that was interrupted leaves its numbers in SHM_NAME.
Init ==
    /\ slot \in [0..(B - 1) -> Messages]
    /\ counters = [cnt |-> 0, loss_cnt |-> 0]
    /\ pending = [c \in Consumers |-> None]
    /\ ppc = "write" /\ i = 0 /\ k = 1 /\ report = None
    /\ cpc = [c \in Consumers |-> "sigwaitinfo"]
    /\ si = [c \in Consumers |-> None]
    /\ tmp = [c \in Consumers |-> 0]
    /\ received = {}
-----------------------------------------------------------------------------
(* The producer *)

\* Mutant of PWrite: the slot is that of the next message.
PWriteNext ==
    /\ ppc = "write"
    /\ slot' = [slot EXCEPT ![(i + 1) % B] = i]
    /\ ppc' = "sigqueue" /\ k' = 1
    /\ UNCHANGED <<counters, pending, i, report, consumerVars, received>>

PWrite ==
    /\ ppc = "write"
    /\ slot' = [slot EXCEPT ![i % B] = i]
    /\ ppc' = "sigqueue" /\ k' = 1
    /\ UNCHANGED <<counters, pending, i, report, consumerVars, received>>

\* The message is over: the next one, or wait().
EndMessage ==
    /\ i' = i + 1
    /\ ppc' = IF i + 1 < M THEN "write" ELSE "wait"

\* sigqueue to consumer c: dropped if a SIGUSR1 is pending.
Deliver(c, v) ==
    pending' = IF pending[c] = None THEN [pending EXCEPT ![c] = v] ELSE pending

\* After each signal the producer may find that its time R is over and leave
\* the consumers that follow without a signal for this message.
PSigqueue ==
    /\ ppc = "sigqueue"
    /\ Deliver(k, i)
    /\ \/ k < N /\ k' = k + 1 /\ UNCHANGED <<ppc, i>>
       \/ k' = k /\ EndMessage
    /\ UNCHANGED <<slot, counters, report, consumerVars, received>>

\* wait() returns when one consumer has exited.
PWait ==
    /\ ppc = "wait" /\ \E c \in Consumers : cpc[c] = "exit"
    /\ ppc' \in {"report", "failed"}
    /\ UNCHANGED <<slot, counters, pending, i, k, report, consumerVars, received>>

PReport ==
    /\ ppc = "report"
    /\ report' = counters.cnt
    /\ ppc' = "exit"
    /\ UNCHANGED <<slot, counters, pending, i, k, consumerVars, received>>
-----------------------------------------------------------------------------
(* The consumers *)

\* Mutant of CSigwait: the signal stays pending.
CSigwaitPeek(c) ==
    /\ cpc[c] = "sigwaitinfo" /\ pending[c] # None
    /\ si' = [si EXCEPT ![c] = pending[c]]
    /\ cpc' = [cpc EXCEPT ![c] = "check"]
    /\ UNCHANGED <<slot, counters, pending, producerVars, tmp, received>>

CSigwait(c) ==
    /\ cpc[c] = "sigwaitinfo" /\ pending[c] # None
    /\ si' = [si EXCEPT ![c] = pending[c]]
    /\ pending' = [pending EXCEPT ![c] = None]
    /\ cpc' = [cpc EXCEPT ![c] = "check"]
    /\ UNCHANGED <<slot, counters, producerVars, tmp, received>>

\* Is the message still in its slot?
CCheck(c) ==
    /\ cpc[c] = "check"
    /\ cpc' = [cpc EXCEPT ![c] = IF slot[si[c] % B] = si[c] THEN "cnt" ELSE "loss_cnt"]
    /\ UNCHANGED <<slot, counters, pending, producerVars, si, tmp, received>>

\* cnt += 1 or loss_cnt += 1: load ...
CLoad(c) ==
    /\ cpc[c] \in {"cnt", "loss_cnt"}
    /\ tmp' = [tmp EXCEPT ![c] = counters[cpc[c]]]
    /\ cpc' = [cpc EXCEPT ![c] = IF cpc[c] = "cnt" THEN "storeCnt" ELSE "storeLoss"]
    /\ UNCHANGED <<slot, counters, pending, producerVars, si, received>>

\* Mutant of AfterStore: the loop waits for message M.
AfterStoreLate(c) == IF si[c] = M THEN "exit" ELSE "sigwaitinfo"

\* The loop ends with the last message.
AfterStore(c) == IF si[c] = M - 1 THEN "exit" ELSE "sigwaitinfo"

\* Mutant of CStoreCnt: the counter is added to itself.
CStoreCntTwice(c) ==
    /\ cpc[c] = "storeCnt"
    /\ counters' = [counters EXCEPT !.cnt = @ + tmp[c] + 1]
    /\ received' = received \union {<<c, si[c]>>}
    /\ cpc' = [cpc EXCEPT ![c] = AfterStore(c)]
    /\ UNCHANGED <<slot, pending, producerVars, si, tmp>>

\* ... and store.
CStoreCnt(c) ==
    /\ cpc[c] = "storeCnt"
    /\ counters' = [counters EXCEPT !.cnt = tmp[c] + 1]
    /\ received' = received \union {<<c, si[c]>>}
    /\ cpc' = [cpc EXCEPT ![c] = AfterStore(c)]
    /\ UNCHANGED <<slot, pending, producerVars, si, tmp>>

CStoreLoss(c) ==
    /\ cpc[c] = "storeLoss"
    /\ counters' = [counters EXCEPT !.loss_cnt = tmp[c] + 1]
    /\ cpc' = [cpc EXCEPT ![c] = AfterStore(c)]
    /\ UNCHANGED <<slot, pending, producerVars, si, tmp, received>>
-----------------------------------------------------------------------------
ProducerStep == PWrite \/ PSigqueue \/ PWait \/ PReport

ConsumerStep(c) ==
    CSigwait(c) \/ CCheck(c) \/ CLoad(c) \/ CStoreCnt(c) \/ CStoreLoss(c)

Next == ProducerStep \/ \E c \in Consumers : ConsumerStep(c)

Spec == Init /\ [][Next]_vars

\* Each process keeps running.
FairSpec == /\ Spec
            /\ WF_vars(ProducerStep)
            /\ \A c \in Consumers : WF_vars(ConsumerStep(c))
-----------------------------------------------------------------------------
(* Properties *)

Total == Cardinality(received)

\* Every variable keeps its type.  How far the shared counters get is the matter
\* of NeverOverReports.
TypeOK ==
    /\ slot \in [0..(B - 1) -> Messages]
    /\ counters \in [cnt : Nat, loss_cnt : Nat]
    /\ pending \in [Consumers -> Messages \union {None}]
    /\ ppc \in {"write", "sigqueue", "wait", "report", "failed", "exit"}
    /\ i \in 0..M /\ (ppc \in {"write", "sigqueue"} => i < M)
    /\ k \in Consumers /\ report \in Nat \union {None}
    /\ cpc \in [Consumers -> {"sigwaitinfo", "check", "cnt", "loss_cnt",
                              "storeCnt", "storeLoss", "exit"}]
    /\ si \in [Consumers -> Messages \union {None}]
    /\ tmp \in [Consumers -> Nat]
    /\ received \in SUBSET (Consumers \X Messages)

\* A consumer finds another message than the one it was signalled only if the
\* producer is at least one turn of the ring ahead: the slot is written before
\* the signal is sent, and what is left of an earlier run is never mistaken for
\* a message.
\* (Stated together with the types.)
LossOnlyWhenLapped ==
    /\ TypeOK
    /\ \A c \in Consumers :
           \A v \in {pending[c]} \union (IF cpc[c] = "check" THEN {si[c]} ELSE {}) :
               v # None =>
                   \/ slot[v % B] = v
                   \/ slot[v % B] >= v + B /\ slot[v % B] =< i

\* Signals may be dropped, but a consumer gets the messages in the order in
\* which they were sent and none of them twice.
InOrderOnce ==
    [][\A c \in Consumers : si'[c] # si[c] \/ (cpc[c] = "sigwaitinfo" /\ cpc'[c] = "check")
          => si'[c] > si[c]]_vars

\* The counter that the consumers share without a lock loses updates but never
\* shows more messages than were received, and the losses it shows are no more
\* than the messages that were not.
NeverOverReports ==
    counters.cnt =< Total /\ report =< Total /\ counters.loss_cnt =< M * N - Total

\* A consumer that has the last signal pending gets to the end of its loop, and
\* then the producer's wait() returns: the producer hangs only if that signal
\* reached nobody.
LastSignalEndsRun ==
    \A c \in Consumers :
        pending[c] = M - 1 ~> cpc[c] = "exit" /\ ppc \in {"report", "failed", "exit"}
=============================================================================
