----------------------------- MODULE SysVSignal -----------------------------
(***************************************************************************)
(* HW7/22_4.c: System V's sigset, sighold, sigrelse, sigignore and sigpause *)
(* made of sigaction, sigprocmask and sigsuspend, and the five little       *)
(* programs of main that use them, with ^C and ^Z typed at any moment.  A   *)
(* signal that may be delivered is delivered before the program's next      *)
(* call, and before the call that unblocks it returns.                      *)
(***************************************************************************)
EXTENDS Naturals, Sequences

VARIABLES func,      \* argument of the program
          pc,        \* index of its next call
          setting,   \* mySigset has called sigaction and has yet to look at the mask
          disp, resethand, mask, pendingSigs,   \* kept by the kernel
          state,     \* "runs", "stopped", "killed" or "exited"
          raised     \* history: SIGINT was raised while mySighold kept it

sysVVars == <<func, pc, setting, disp, resethand, mask, pendingSigs, state, raised>>

Signals == {"SIGINT", "SIGTSTP"}

Call(f, sig, handler) == [call |-> f, sig |-> sig, handler |-> handler]

\* The calls of main for each argument; what is printed stands next to them.
Main == [
    sigset    |-> <<Call("sigset", "SIGINT", "handler"), Call("pause", "", "")>>,
    sighold   |-> <<Call("sighold", "SIGINT", ""), Call("sigset", "SIGTSTP", "kill_proc"),
                    Call("pause", "", "")>>,
    sigrelse  |-> <<Call("sighold", "SIGINT", ""), Call("sleep", "", ""),
                    Call("sigrelse", "SIGINT", ""), Call("pause", "", "")>>,
    sigignore |-> <<Call("sigignore", "SIGINT", ""), Call("sigset", "SIGTSTP", "kill_proc"),
                    Call("pause", "", "")>>,
    sigpause  |-> <<Call("sigaction", "SIGINT", "handler"), Call("sigpause", "SIGINT", "")>>]

\* Mask and dispositions are inherited; a handler never is.
SysVInit ==
    /\ func \in DOMAIN Main /\ pc = 1 /\ setting = FALSE
    /\ disp \in [Signals -> {"SIG_DFL", "SIG_IGN"}] /\ resethand = {}
    /\ mask \in SUBSET Signals /\ pendingSigs = {}
    /\ state = "runs" /\ raised = FALSE

Done == pc > Len(Main[func])
Calls(f) == ~Done /\ Main[func][pc].call = f
sig == Main[func][pc].sig
Waits == Calls("pause") \/ Calls("sigpause")

\* sigsuspend waits with SIGINT taken out of the mask.
Blocked == IF Calls("sigpause") THEN mask \ {sig} ELSE mask
Deliverable == pendingSigs \ Blocked
Runs == state = "runs" /\ Deliverable = {}
-----------------------------------------------------------------------------
(* The kernel *)

\* A key: a signal that is ignored is thrown away unless it is blocked.
Press(s) ==
    /\ state = "runs"
    /\ pendingSigs' = IF disp[s] = "SIG_IGN" /\ s \notin Blocked
                      THEN pendingSigs ELSE pendingSigs \union {s}
    /\ raised' = (raised \/ (s = "SIGINT" /\ func = "sigrelse" /\ pc \in {2, 3}))
    /\ UNCHANGED <<func, pc, setting, disp, resethand, mask, state>>

\* handler() returns, and with it pause() or sigsuspend(); kill_proc() exits.
DeliverSig(s) ==
    /\ state = "runs" /\ s \in Deliverable
    /\ pendingSigs' = pendingSigs \ {s}
    /\ disp' = IF s \in resethand THEN [disp EXCEPT ![s] = "SIG_DFL"] ELSE disp
    /\ resethand' = resethand \ {s}
    /\ pc' = IF disp[s] = "handler" /\ Waits THEN pc + 1 ELSE pc
    /\ state' = CASE disp[s] = "kill_proc" -> "exited"
                  [] disp[s] = "SIG_DFL" /\ s = "SIGINT" -> "killed"
                  [] disp[s] = "SIG_DFL" /\ s = "SIGTSTP" -> "stopped"
                  [] OTHER -> "runs"
    /\ UNCHANGED <<func, setting, mask, raised>>

Continue ==
    /\ state = "stopped" /\ state' = "runs"
    /\ UNCHANGED <<func, pc, setting, disp, resethand, mask, pendingSigs, raised>>

\* sigaction() with the sa_flags that the stack happened to hold: of all flags
\* SA_RESETHAND alone makes a difference here.
Sigaction(s, handler) ==
    /\ disp' = [disp EXCEPT ![s] = handler]
    /\ resethand' \in {resethand \ {s}, resethand \union {s}}
    /\ pendingSigs' = IF handler = "SIG_IGN" THEN pendingSigs \ {s} ELSE pendingSigs
-----------------------------------------------------------------------------
(* The program *)

mySighold ==
    /\ Runs /\ Calls("sighold")
    /\ mask' = mask \union {sig} /\ pc' = pc + 1
    /\ UNCHANGED <<func, setting, disp, resethand, pendingSigs, state, raised>>

\* Mutant of mySigrelse: SIG_SETMASK for SIG_UNBLOCK, as copied from mySigpause.
mySigrelseSetmask ==
    /\ Runs /\ Calls("sigrelse")
    /\ mask' = {sig} /\ pc' = pc + 1
    /\ UNCHANGED <<func, setting, disp, resethand, pendingSigs, state, raised>>

mySigrelse ==
    /\ Runs /\ Calls("sigrelse")
    /\ mask' = mask \ {sig} /\ pc' = pc + 1
    /\ UNCHANGED <<func, setting, disp, resethand, pendingSigs, state, raised>>

mySigset ==
    /\ Runs /\ Calls("sigset") /\ ~setting
    /\ Sigaction(sig, Main[func][pc].handler)
    /\ setting' = TRUE
    /\ UNCHANGED <<func, pc, mask, state, raised>>

\* Mutant of SigsetUnblocks: the mask is read only.
SigsetKeepsMask ==
    /\ Runs /\ setting
    /\ setting' = FALSE /\ pc' = pc + 1
    /\ UNCHANGED <<func, disp, resethand, mask, pendingSigs, state, raised>>

\* A signal that was blocked before is unblocked after its action was set.
SigsetUnblocks ==
    /\ Runs /\ setting
    /\ mask' = mask \ {sig} /\ setting' = FALSE /\ pc' = pc + 1
    /\ UNCHANGED <<func, disp, resethand, pendingSigs, state, raised>>

mySigignore ==
    /\ Runs /\ Calls("sigignore")
    /\ Sigaction(sig, "SIG_IGN") /\ pc' = pc + 1
    /\ UNCHANGED <<func, setting, mask, state, raised>>

SigactionHandler ==
    /\ Runs /\ Calls("sigaction")
    /\ Sigaction(sig, Main[func][pc].handler) /\ pc' = pc + 1
    /\ UNCHANGED <<func, setting, mask, state, raised>>

Sleep ==
    /\ Runs /\ Calls("sleep")
    /\ pc' = pc + 1
    /\ UNCHANGED <<func, setting, disp, resethand, mask, pendingSigs, state, raised>>

Exit ==
    /\ Runs /\ Done
    /\ state' = "exited"
    /\ UNCHANGED <<func, pc, setting, disp, resethand, mask, pendingSigs, raised>>
-----------------------------------------------------------------------------
Step == \/ mySighold \/ mySigrelse \/ mySigset \/ SigsetUnblocks \/ mySigignore
        \/ SigactionHandler \/ Sleep \/ Exit
SysVNext == Step \/ Continue \/ \E s \in Signals : Press(s) \/ DeliverSig(s)
SysVSpec == SysVInit /\ [][SysVNext]_sysVVars

\* The program and the kernel go on; nobody has to press a key or to continue a
\* program that was stopped.
SysVFairSpec == SysVSpec /\ WF_sysVVars(Step) /\ \A s \in Signals : WF_sysVVars(DeliverSig(s))
-----------------------------------------------------------------------------
(* Properties *)

\* Every variable keeps its type.
SysVTypeOK ==
    /\ func \in DOMAIN Main /\ pc \in 1..(Len(Main[func]) + 1) /\ setting \in BOOLEAN
    /\ disp \in [Signals -> {"SIG_DFL", "SIG_IGN", "handler", "kill_proc"}]
    /\ resethand \subseteq Signals /\ mask \subseteq Signals /\ pendingSigs \subseteq Signals
    /\ state \in {"runs", "stopped", "killed", "exited"} /\ raised \in BOOLEAN

\* What the program has announced about SIGINT is true.  "sighold" and
\* "sigignore" (148, 176): after the first call no ^C kills it or makes pause
\* return, whatever the mask and the dispositions it has inherited.
\* "sigrelse" (164): "no pending signal" is said only if there was none, unless
\* SIGINT was inherited as ignored.
SigintAsAnnounced ==
    /\ SysVTypeOK
    /\ func \in {"sighold", "sigignore"} /\ pc > 1 =>
         state # "killed" /\ ~Done
    /\ func = "sigrelse" /\ pc = 4 /\ Runs /\ raised => disp["SIGINT"] = "SIG_IGN"

\* Once the program waits, the key that it asks for ends it, or its wait: ^Z with
\* "sighold" and "sigignore", also when SIGTSTP was blocked or ignored before; ^C with the
\* others.  A key that comes between the announcement and the wait does not
\* count (pause at 137 waits for another one), a program stopped by ^Z has to be
\* continued first, and "sigrelse" sets no handler, so that it needs SIGINT not
\* to be inherited as ignored.
KeyEnds ==
    LET key == IF func \in {"sighold", "sigignore"} THEN "SIGTSTP" ELSE "SIGINT" IN
    Waits /\ key \in pendingSigs /\ (func = "sigrelse" => disp[key] # "SIG_IGN")
      ~> Done \/ state \in {"killed", "exited", "stopped"}
=============================================================================
