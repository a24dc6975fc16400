---------------------------- MODULE SigPingPong ----------------------------
(***************************************************************************)
(* HW7/22_3.c (sigwaitinfo) and sig_speed_sigsuspend.c (sigsuspend): parent *)
(* and child send each other SIGUSR1 numSigs times.  The signal is blocked  *)
(* before fork(), so that it stays pending until its receiver waits for it; *)
(* a process has at most one pending, a second one is lost.  Both ways of   *)
(* waiting take the pending signal and return.                              *)
(***************************************************************************)
EXTENDS Naturals

CONSTANT MaxSigs   \* bound: largest argument tried

ASSUME PingPongAssumption == MaxSigs \in Nat \ {0}

VARIABLES numSigs,         \* the argument
          childPc, cscnt,      \* child: next call, loop counter
          parentPc, pscnt,      \* parent: next call, loop counter
          toChild, toParent  \* SIGUSR1 is pending for the child, the parent

pingPongVars == <<numSigs, childPc, cscnt, parentPc, pscnt, toChild, toParent>>

\* After fork(): the child sends first, the parent waits first.
PingPongInit ==
    /\ numSigs \in 1..MaxSigs
    /\ childPc = "kill" /\ cscnt = 0
    /\ parentPc = "wait" /\ pscnt = 0
    /\ toChild = FALSE /\ toParent = FALSE

\* Mutant of ChildKill: two signals for one.
ChildKillAgain ==
    /\ childPc = "kill"
    /\ toParent' = TRUE
    /\ childPc' \in {"kill", "wait"}
    /\ UNCHANGED <<numSigs, cscnt, parentPc, pscnt, toChild>>

ChildKill ==
    /\ childPc = "kill"
    /\ toParent' = TRUE
    /\ childPc' = "wait"
    /\ UNCHANGED <<numSigs, cscnt, parentPc, pscnt, toChild>>

ChildWait ==
    /\ childPc = "wait" /\ toChild
    /\ toChild' = FALSE
    /\ cscnt' = cscnt + 1
    /\ childPc' = IF cscnt + 1 < numSigs THEN "kill" ELSE "exit"
    /\ UNCHANGED <<numSigs, parentPc, pscnt, toParent>>

ParentWait ==
    /\ parentPc = "wait" /\ toParent
    /\ toParent' = FALSE
    /\ parentPc' = "kill"
    /\ UNCHANGED <<numSigs, childPc, cscnt, pscnt, toChild>>

\* Mutant of ParentKill: one round too few.
ParentKillShort ==
    /\ parentPc = "kill"
    /\ toChild' = TRUE
    /\ pscnt' = pscnt + 1
    /\ parentPc' = IF pscnt + 2 < numSigs THEN "wait" ELSE "exit"
    /\ UNCHANGED <<numSigs, childPc, cscnt, toParent>>

\* Mutant of ParentKill: the counter is not advanced.
ParentKillForever ==
    /\ parentPc = "kill"
    /\ toChild' = TRUE
    /\ parentPc' = "wait"
    /\ UNCHANGED <<numSigs, childPc, cscnt, pscnt, toParent>>

ParentKill ==
    /\ parentPc = "kill"
    /\ toChild' = TRUE
    /\ pscnt' = pscnt + 1
    /\ parentPc' = IF pscnt + 1 < numSigs THEN "wait" ELSE "exit"
    /\ UNCHANGED <<numSigs, childPc, cscnt, toParent>>

ChildStep == ChildKill \/ ChildWait
ParentStep == ParentWait \/ ParentKill
PingPongNext == ChildStep \/ ParentStep

PingPongSpec == PingPongInit /\ [][PingPongNext]_pingPongVars
PingPongFairSpec == PingPongSpec /\ WF_pingPongVars(ChildStep) /\ WF_pingPongVars(ParentStep)
-----------------------------------------------------------------------------
(* Properties *)

\* Every variable keeps its type, and no loop counter passes the argument.
PingPongTypeOK ==
    /\ numSigs \in Nat \ {0}
    /\ childPc \in {"kill", "wait", "exit"} /\ parentPc \in {"kill", "wait", "exit"}
    /\ cscnt \in 0..numSigs /\ pscnt \in 0..numSigs
    /\ toChild \in BOOLEAN /\ toParent \in BOOLEAN

\* No signal is ever lost although only one can be pending: whoever is about to
\* send finds nothing pending at the other side.
NoneCoalesced ==
    /\ childPc = "kill" => ~toParent
    /\ parentPc = "kill" => ~toChild

\* Nobody signals a process that is gone: when the child calls kill(getppid())
\* its parent still runs (an orphan would signal init), and when the parent
\* calls kill(childPid) the child still waits.
PartnerAlive ==
    /\ childPc = "kill" => parentPc # "exit"
    /\ parentPc = "kill" => childPc = "wait"

\* Each signal meets a process that waits for it with nothing pending.
SignalsMeet == NoneCoalesced /\ PartnerAlive

\* Both processes do all their rounds and exit.
BothFinish == <>(childPc = "exit" /\ parentPc = "exit" /\ cscnt = numSigs /\ pscnt = numSigs)
=============================================================================
