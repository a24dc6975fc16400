---------------------------- MODULE SignalProofs ----------------------------
(***************************************************************************)
(* What the programs of SysVSignal announce about SIGINT is true, for every *)
(* inherited mask and disposition, every sa_flags that the stack held, and  *)
(* keys at any moment.  No signal of SigPingPong is lost or misdirected,    *)
(* for any number of rounds.  And the consumers of ProdCons, for any number *)
(* of messages, consumers and slots: one finds its message or one that is   *)
(* at least a turn of the ring later, gets the messages in order and none   *)
(* twice, and the counters, incremented without a lock, never show more     *)
(* than was received or was missed.                                         *)
(***************************************************************************)
EXTENDS SysVSignal, SigPingPong, ProdCons, FiniteSetTheorems, TLAPS
-----------------------------------------------------------------------------
(* The System V functions *)

\* "sighold": SIGINT stays blocked, and no handler ends the wait.
HoldInv ==
    func = "sighold" =>
        /\ \A s \in Signals : disp[s] # "handler"
        /\ pc =< 3
        /\ pc > 1 => "SIGINT" \in mask /\ state # "killed"

\* "sigignore": a SIGINT is thrown away, or stays blocked as it was inherited.
IgnoreInv ==
    func = "sigignore" =>
        /\ \A s \in Signals : disp[s] # "handler"
        /\ pc =< 3
        /\ pc > 1 => /\ disp["SIGINT"] = "SIG_IGN" /\ state # "killed"
                     /\ "SIGINT" \in pendingSigs => "SIGINT" \in mask

\* "sigrelse": a SIGINT that was raised is pending until it takes its action.
RelseInv ==
    func = "sigrelse" =>
        /\ \A s \in Signals : disp[s] \in {"SIG_DFL", "SIG_IGN"}
        /\ resethand = {} /\ pc \in {1, 2, 3, 4}
        /\ pc \in {2, 3} => "SIGINT" \in mask
        /\ pc = 4 => "SIGINT" \notin mask
        /\ raised => pc > 1
        /\ raised /\ state \in {"runs", "stopped"} =>
             "SIGINT" \in pendingSigs \/ (pc = 4 /\ disp["SIGINT"] = "SIG_IGN")

\* The action is set only on the way into mySigset.
SetInv == setting => Calls("sigset")

SysVInv == SysVTypeOK /\ SetInv /\ HoldInv /\ IgnoreInv /\ RelseInv
-----------------------------------------------------------------------------
IsCall(f, n, c, s, h) ==
    Main[f][n].call = c /\ Main[f][n].sig = s /\ Main[f][n].handler = h

\* What main calls, argument by argument.
LEMMA MainCalls ==
    /\ DOMAIN Main = {"sigset", "sighold", "sigrelse", "sigignore", "sigpause"}
    /\ Len(Main["sigset"]) = 2 /\ Len(Main["sighold"]) = 3 /\ Len(Main["sigrelse"]) = 4
    /\ Len(Main["sigignore"]) = 3 /\ Len(Main["sigpause"]) = 2
    /\ IsCall("sigset", 1, "sigset", "SIGINT", "handler")
    /\ IsCall("sigset", 2, "pause", "", "")
    /\ IsCall("sighold", 1, "sighold", "SIGINT", "")
    /\ IsCall("sighold", 2, "sigset", "SIGTSTP", "kill_proc")
    /\ IsCall("sighold", 3, "pause", "", "")
    /\ IsCall("sigrelse", 1, "sighold", "SIGINT", "")
    /\ IsCall("sigrelse", 2, "sleep", "", "")
    /\ IsCall("sigrelse", 3, "sigrelse", "SIGINT", "")
    /\ IsCall("sigrelse", 4, "pause", "", "")
    /\ IsCall("sigignore", 1, "sigignore", "SIGINT", "")
    /\ IsCall("sigignore", 2, "sigset", "SIGTSTP", "kill_proc")
    /\ IsCall("sigignore", 3, "pause", "", "")
    /\ IsCall("sigpause", 1, "sigaction", "SIGINT", "handler")
    /\ IsCall("sigpause", 2, "sigpause", "SIGINT", "")
  BY DEF Main, Call, IsCall

\* At which call of which program each action is.
LEMMA WhereCalled ==
    ASSUME SysVTypeOK
    PROVE  /\ Calls("sighold") => pc = 1 /\ func \in {"sighold", "sigrelse"} /\ sig = "SIGINT"
           /\ Calls("sigset") => \/ pc = 1 /\ func = "sigset" /\ sig = "SIGINT"
                                   /\ Main[func][pc].handler = "handler"
                                 \/ pc = 2 /\ func \in {"sighold", "sigignore"} /\ sig = "SIGTSTP"
                                   /\ Main[func][pc].handler = "kill_proc"
           /\ Calls("sigrelse") => pc = 3 /\ func = "sigrelse" /\ sig = "SIGINT"
           /\ Calls("sigignore") => pc = 1 /\ func = "sigignore" /\ sig = "SIGINT"
           /\ Calls("sigaction") => pc = 1 /\ func = "sigpause" /\ sig = "SIGINT"
                                    /\ Main[func][pc].handler = "handler"
           /\ Calls("sleep") => pc = 2 /\ func = "sigrelse"
           /\ Calls("sigpause") => pc = 2 /\ func = "sigpause" /\ sig = "SIGINT"
           /\ Calls("pause") => \/ pc = 2 /\ func = "sigset"
                                \/ pc = 3 /\ func \in {"sighold", "sigignore"}
                                \/ pc = 4 /\ func = "sigrelse"
           /\ func \in {"sigset", "sigpause"} => (Done <=> pc > 2)
           /\ func \in {"sighold", "sigignore"} => (Done <=> pc > 3)
           /\ func = "sigrelse" => (Done <=> pc > 4)
<1>1. func \in DOMAIN Main /\ pc \in 1..(Len(Main[func]) + 1)
  BY DEF SysVTypeOK
<1>2. CASE func = "sigset"
  <2>0. Len(Main[func]) = 2
    BY <1>2, MainCalls
  <2>1. pc \in {1, 2, 3}
    BY <1>1, <2>0
  <2>2. Done <=> pc > 2
    BY <2>0 DEF Done
  <2>3. ~Done => pc \in {1, 2}
    BY <2>1, <2>2
  <2>4. ~Done =>  \/ pc = 1 /\ IsCall(func, pc, "sigset", "SIGINT", "handler")
                  \/ pc = 2 /\ IsCall(func, pc, "pause", "", "")
    BY <1>2, <2>3, MainCalls
  <2> QED
    BY <1>2, <2>2, <2>4 DEF Calls, sig, IsCall
<1>3. CASE func = "sighold"
  <2>0. Len(Main[func]) = 3
    BY <1>3, MainCalls
  <2>1. pc \in {1, 2, 3, 4}
    BY <1>1, <2>0
  <2>2. Done <=> pc > 3
    BY <2>0 DEF Done
  <2>3. ~Done => pc \in {1, 2, 3}
    BY <2>1, <2>2
  <2>4. ~Done =>  \/ pc = 1 /\ IsCall(func, pc, "sighold", "SIGINT", "")
                  \/ pc = 2 /\ IsCall(func, pc, "sigset", "SIGTSTP", "kill_proc")
                  \/ pc = 3 /\ IsCall(func, pc, "pause", "", "")
    BY <1>3, <2>3, MainCalls
  <2> QED
    BY <1>3, <2>2, <2>4 DEF Calls, sig, IsCall
<1>4. CASE func = "sigrelse"
  <2>0. Len(Main[func]) = 4
    BY <1>4, MainCalls
  <2>1. pc \in {1, 2, 3, 4, 5}
    BY <1>1, <2>0
  <2>2. Done <=> pc > 4
    BY <2>0 DEF Done
  <2>3. ~Done => pc \in {1, 2, 3, 4}
    BY <2>1, <2>2
  <2>4. ~Done =>  \/ pc = 1 /\ IsCall(func, pc, "sighold", "SIGINT", "")
                  \/ pc = 2 /\ IsCall(func, pc, "sleep", "", "")
                  \/ pc = 3 /\ IsCall(func, pc, "sigrelse", "SIGINT", "")
                  \/ pc = 4 /\ IsCall(func, pc, "pause", "", "")
    BY <1>4, <2>3, MainCalls
  <2> QED
    BY <1>4, <2>2, <2>4 DEF Calls, sig, IsCall
<1>5. CASE func = "sigignore"
  <2>0. Len(Main[func]) = 3
    BY <1>5, MainCalls
  <2>1. pc \in {1, 2, 3, 4}
    BY <1>1, <2>0
  <2>2. Done <=> pc > 3
    BY <2>0 DEF Done
  <2>3. ~Done => pc \in {1, 2, 3}
    BY <2>1, <2>2
  <2>4. ~Done =>  \/ pc = 1 /\ IsCall(func, pc, "sigignore", "SIGINT", "")
                  \/ pc = 2 /\ IsCall(func, pc, "sigset", "SIGTSTP", "kill_proc")
                  \/ pc = 3 /\ IsCall(func, pc, "pause", "", "")
    BY <1>5, <2>3, MainCalls
  <2> QED
    BY <1>5, <2>2, <2>4 DEF Calls, sig, IsCall
<1>6. CASE func = "sigpause"
  <2>0. Len(Main[func]) = 2
    BY <1>6, MainCalls
  <2>1. pc \in {1, 2, 3}
    BY <1>1, <2>0
  <2>2. Done <=> pc > 2
    BY <2>0 DEF Done
  <2>3. ~Done => pc \in {1, 2}
    BY <2>1, <2>2
  <2>4. ~Done =>  \/ pc = 1 /\ IsCall(func, pc, "sigaction", "SIGINT", "handler")
                  \/ pc = 2 /\ IsCall(func, pc, "sigpause", "SIGINT", "")
    BY <1>6, <2>3, MainCalls
  <2> QED
    BY <1>6, <2>2, <2>4 DEF Calls, sig, IsCall
<1> QED
  BY <1>1, <1>2, <1>3, <1>4, <1>5, <1>6, MainCalls

\* Every program has calls.
LEMMA Lengths == \A f \in DOMAIN Main : Len(Main[f]) \in Nat /\ Len(Main[f]) >= 2
<1> SUFFICES ASSUME NEW f \in DOMAIN Main PROVE Len(Main[f]) \in {2, 3, 4}
  BY SMTT(30)
<1>1. f = "sigset" \/ f = "sighold" \/ f = "sigrelse" \/ f = "sigignore" \/ f = "sigpause"
  BY MainCalls
<1> QED
  BY <1>1, MainCalls

\* A call that is made leaves the index of the next one, or of the end.
LEMMA NextCall ==
    ASSUME SysVTypeOK, ~Done
    PROVE  pc \in Nat /\ pc + 1 \in 1..(Len(Main[func]) + 1)
<1>1. Len(Main[func]) \in Nat
  BY Lengths DEF SysVTypeOK
<1> QED
  BY <1>1 DEF SysVTypeOK, Done

\* Every step keeps the types.
LEMMA SysVTypeStep ==
    ASSUME SysVTypeOK, SetInv, [SysVNext]_sysVVars
    PROVE  SysVTypeOK'
<1>1. CASE mySighold
  BY <1>1, NextCall, WhereCalled DEF SysVTypeOK, SetInv, Signals, Calls, Waits, Done, mySighold
<1>2. CASE mySigrelse
  BY <1>2, NextCall, WhereCalled DEF SysVTypeOK, SetInv, Signals, Calls, Waits, Done, mySigrelse
<1>3. CASE mySigset
  BY <1>3, NextCall, WhereCalled DEF SysVTypeOK, SetInv, Signals, Calls, Waits, Done, mySigset, Sigaction
<1>4. CASE SigsetUnblocks
  BY <1>4, NextCall, WhereCalled DEF SysVTypeOK, SetInv, Signals, Calls, Waits, Done, SigsetUnblocks
<1>5. CASE mySigignore
  BY <1>5, NextCall, WhereCalled DEF SysVTypeOK, SetInv, Signals, Calls, Waits, Done, mySigignore, Sigaction
<1>6. CASE SigactionHandler
  BY <1>6, NextCall, WhereCalled DEF SysVTypeOK, SetInv, Signals, Calls, Waits, Done, SigactionHandler, Sigaction
<1>7. CASE Sleep
  BY <1>7, NextCall, WhereCalled DEF SysVTypeOK, SetInv, Signals, Calls, Waits, Done, Sleep
<1>8. CASE Exit
  BY <1>8, NextCall, WhereCalled DEF SysVTypeOK, SetInv, Signals, Calls, Waits, Done, Exit
<1>9. CASE Continue
  BY <1>9, NextCall, WhereCalled DEF SysVTypeOK, SetInv, Signals, Calls, Waits, Done, Continue
<1>10. ASSUME NEW s \in Signals, Press(s) PROVE SysVTypeOK'
  BY <1>10, NextCall, WhereCalled DEF SysVTypeOK, SetInv, Signals, Calls, Waits, Done, Press
<1>11. ASSUME NEW s \in Signals, DeliverSig(s) PROVE SysVTypeOK'
  BY <1>11, NextCall, WhereCalled DEF SysVTypeOK, SetInv, Signals, Calls, Waits, Done, DeliverSig
<1>12. CASE UNCHANGED sysVVars
  BY <1>12 DEF SysVTypeOK, SetInv, Signals, Calls, Waits, Done, sysVVars
<1> QED
  BY <1>1, <1>2, <1>3, <1>4, <1>5, <1>6, <1>7, <1>8, <1>9, <1>10, <1>11, <1>12 DEF SysVNext, Step

\* mySigset is left before another call is made.
LEMMA SetStep ==
    ASSUME SysVTypeOK, SetInv, [SysVNext]_sysVVars
    PROVE  SetInv'
<1>1. CASE mySighold
  BY <1>1, WhereCalled DEF SetInv, Calls, Waits, Done, mySighold
<1>2. CASE mySigrelse
  BY <1>2, WhereCalled DEF SetInv, Calls, Waits, Done, mySigrelse
<1>3. CASE mySigset
  BY <1>3, WhereCalled DEF SetInv, Calls, Waits, Done, mySigset, Sigaction
<1>4. CASE SigsetUnblocks
  BY <1>4, WhereCalled DEF SetInv, Calls, Waits, Done, SigsetUnblocks
<1>5. CASE mySigignore
  BY <1>5, WhereCalled DEF SetInv, Calls, Waits, Done, mySigignore, Sigaction
<1>6. CASE SigactionHandler
  BY <1>6, WhereCalled DEF SetInv, Calls, Waits, Done, SigactionHandler, Sigaction
<1>7. CASE Sleep
  BY <1>7, WhereCalled DEF SetInv, Calls, Waits, Done, Sleep
<1>8. CASE Exit
  BY <1>8, WhereCalled DEF SetInv, Calls, Waits, Done, Exit
<1>9. CASE Continue
  BY <1>9, WhereCalled DEF SetInv, Calls, Waits, Done, Continue
<1>10. ASSUME NEW s \in Signals, Press(s) PROVE SetInv'
  BY <1>10, WhereCalled DEF SetInv, Calls, Waits, Done, Press
<1>11. ASSUME NEW s \in Signals, DeliverSig(s) PROVE SetInv'
  BY <1>11, WhereCalled DEF SetInv, Calls, Waits, Done, DeliverSig
<1>12. CASE UNCHANGED sysVVars
  BY <1>12 DEF SetInv, Calls, Waits, Done, sysVVars
<1> QED
  BY <1>1, <1>2, <1>3, <1>4, <1>5, <1>6, <1>7, <1>8, <1>9, <1>10, <1>11, <1>12 DEF SysVNext, Step

\* SIGINT stays held: mySigset unblocks SIGTSTP only.
LEMMA HoldStep ==
    ASSUME SysVTypeOK, SetInv, HoldInv, [SysVNext]_sysVVars
    PROVE  HoldInv'
<1>1. CASE mySighold
  BY <1>1, WhereCalled DEF SysVTypeOK, HoldInv, mySighold, Runs
<1>2. CASE mySigrelse
  BY <1>2, WhereCalled DEF SysVTypeOK, SetInv, HoldInv, Signals, mySigrelse
<1>3. CASE mySigset
  BY <1>3, WhereCalled DEF SysVTypeOK, SetInv, HoldInv, Signals, mySigset, Sigaction
<1>4. CASE SigsetUnblocks
  BY <1>4, WhereCalled DEF SysVTypeOK, SetInv, HoldInv, Signals, SigsetUnblocks
<1>5. CASE mySigignore
  BY <1>5, WhereCalled DEF SysVTypeOK, SetInv, HoldInv, Signals, mySigignore, Sigaction
<1>6. CASE SigactionHandler
  BY <1>6, WhereCalled DEF SysVTypeOK, SetInv, HoldInv, Signals, SigactionHandler, Sigaction
<1>7. CASE Sleep
  BY <1>7, WhereCalled DEF SysVTypeOK, SetInv, HoldInv, Signals, Sleep
<1>8. CASE Exit
  BY <1>8, WhereCalled DEF SysVTypeOK, SetInv, HoldInv, Signals, Exit
<1>9. CASE Continue
  BY <1>9, WhereCalled DEF SysVTypeOK, SetInv, HoldInv, Signals, Continue
<1>10. ASSUME NEW s \in Signals, Press(s) PROVE HoldInv'
  BY <1>10, WhereCalled DEF SysVTypeOK, HoldInv, Signals, Press, Deliverable, Blocked, Waits, Calls, Done
<1>11. ASSUME NEW s \in Signals, DeliverSig(s) PROVE HoldInv'
  BY <1>11, WhereCalled DEF SysVTypeOK, HoldInv, Signals, DeliverSig, Deliverable, Blocked, Waits, Calls, Done
<1>12. CASE UNCHANGED sysVVars
  BY <1>12 DEF SysVTypeOK, SetInv, HoldInv, Signals, sysVVars
<1> QED
  BY <1>1, <1>2, <1>3, <1>4, <1>5, <1>6, <1>7, <1>8, <1>9, <1>10, <1>11, <1>12 DEF SysVNext, Step

\* SIGINT stays ignored, and none gets pending that is not blocked.
LEMMA IgnoreStep ==
    ASSUME SysVTypeOK, SetInv, IgnoreInv, [SysVNext]_sysVVars
    PROVE  IgnoreInv'
<1>1. CASE mySighold
  BY <1>1, WhereCalled DEF SysVTypeOK, SetInv, IgnoreInv, Signals, mySighold
<1>2. CASE mySigrelse
  BY <1>2, WhereCalled DEF SysVTypeOK, SetInv, IgnoreInv, Signals, mySigrelse
<1>3. CASE mySigset
  BY <1>3, WhereCalled DEF SysVTypeOK, SetInv, IgnoreInv, Signals, mySigset, Sigaction
<1>4. CASE SigsetUnblocks
  BY <1>4, WhereCalled DEF SysVTypeOK, SetInv, IgnoreInv, Signals, SigsetUnblocks
<1>5. CASE mySigignore
  BY <1>5, WhereCalled DEF SysVTypeOK, IgnoreInv, Signals, mySigignore, Sigaction, Runs
<1>6. CASE SigactionHandler
  BY <1>6, WhereCalled DEF SysVTypeOK, SetInv, IgnoreInv, Signals, SigactionHandler, Sigaction
<1>7. CASE Sleep
  BY <1>7, WhereCalled DEF SysVTypeOK, SetInv, IgnoreInv, Signals, Sleep
<1>8. CASE Exit
  BY <1>8, WhereCalled DEF SysVTypeOK, SetInv, IgnoreInv, Signals, Exit
<1>9. CASE Continue
  BY <1>9, WhereCalled DEF SysVTypeOK, SetInv, IgnoreInv, Signals, Continue
<1>10. ASSUME NEW s \in Signals, Press(s) PROVE IgnoreInv'
  BY <1>10, WhereCalled DEF SysVTypeOK, IgnoreInv, Signals, Press, Deliverable, Blocked, Waits, Calls, Done
<1>11. ASSUME NEW s \in Signals, DeliverSig(s) PROVE IgnoreInv'
  BY <1>11, WhereCalled DEF SysVTypeOK, IgnoreInv, Signals, DeliverSig, Deliverable, Blocked, Waits, Calls, Done
<1>12. CASE UNCHANGED sysVVars
  BY <1>12 DEF SysVTypeOK, SetInv, IgnoreInv, Signals, sysVVars
<1> QED
  BY <1>1, <1>2, <1>3, <1>4, <1>5, <1>6, <1>7, <1>8, <1>9, <1>10, <1>11, <1>12 DEF SysVNext, Step

\* A raised SIGINT stays pending until it takes its action.
LEMMA RelseStep ==
    ASSUME SysVTypeOK, SetInv, RelseInv, [SysVNext]_sysVVars
    PROVE  RelseInv'
<1>1. CASE mySighold
  BY <1>1, WhereCalled DEF SysVTypeOK, SetInv, RelseInv, Signals, mySighold
<1>2. CASE mySigrelse
  BY <1>2, WhereCalled DEF SysVTypeOK, SetInv, RelseInv, Signals, mySigrelse
<1>3. CASE mySigset
  BY <1>3, WhereCalled DEF SysVTypeOK, SetInv, RelseInv, Signals, mySigset, Sigaction
<1>4. CASE SigsetUnblocks
  BY <1>4, WhereCalled DEF SysVTypeOK, SetInv, RelseInv, Signals, SigsetUnblocks
<1>5. CASE mySigignore
  BY <1>5, WhereCalled DEF SysVTypeOK, SetInv, RelseInv, Signals, mySigignore, Sigaction
<1>6. CASE SigactionHandler
  BY <1>6, WhereCalled DEF SysVTypeOK, SetInv, RelseInv, Signals, SigactionHandler, Sigaction
<1>7. CASE Sleep
  BY <1>7, WhereCalled DEF SysVTypeOK, SetInv, RelseInv, Signals, Sleep
<1>8. CASE Exit
  BY <1>8, WhereCalled DEF SysVTypeOK, SetInv, RelseInv, Signals, Exit
<1>9. CASE Continue
  BY <1>9, WhereCalled DEF SysVTypeOK, SetInv, RelseInv, Signals, Continue
<1>10. ASSUME NEW s \in Signals, Press(s) PROVE RelseInv'
  BY <1>10, WhereCalled DEF SysVTypeOK, RelseInv, Signals, Press, Deliverable, Blocked, Waits, Calls, Done
<1>11. ASSUME NEW s \in Signals, DeliverSig(s) PROVE RelseInv'
  <2> SUFFICES ASSUME func = "sigrelse" PROVE RelseInv'
    BY <1>11 DEF RelseInv, DeliverSig
  <2>1. pc' = pc /\ disp' = disp /\ resethand' = {} /\ mask' = mask /\ raised' = raised /\ func' = func
    BY <1>11 DEF DeliverSig, RelseInv
  <2>2. s = "SIGINT" => s \notin mask
    BY <1>11, WhereCalled DEF DeliverSig, Deliverable, Blocked
  <2>3. s = "SIGINT" /\ raised => pc = 4
    BY <2>2 DEF RelseInv
  <2>4. ASSUME raised, state' \in {"runs", "stopped"}
        PROVE  "SIGINT" \in pendingSigs' \/ (pc = 4 /\ disp["SIGINT"] = "SIG_IGN")
    BY <1>11, <2>3, <2>4 DEF DeliverSig, RelseInv, Signals
  <2> QED
    BY <2>1, <2>4 DEF RelseInv
<1>12. CASE UNCHANGED sysVVars
  BY <1>12 DEF SysVTypeOK, SetInv, RelseInv, Signals, sysVVars
<1> QED
  BY <1>1, <1>2, <1>3, <1>4, <1>5, <1>6, <1>7, <1>8, <1>9, <1>10, <1>11, <1>12 DEF SysVNext, Step

\* The programs start with SysVInv.
LEMMA SysVInitInv == SysVInit => SysVInv
<1> SUFFICES ASSUME SysVInit PROVE SysVInv
  OBVIOUS
<1>1. SysVTypeOK
  <2>1. Len(Main[func]) \in Nat
    BY Lengths DEF SysVInit
  <2>2. pc \in 1..(Len(Main[func]) + 1)
    BY <2>1 DEF SysVInit
  <2>3. disp \in [Signals -> {"SIG_DFL", "SIG_IGN", "handler", "kill_proc"}]
    BY DEF SysVInit
  <2> QED
    BY <2>2, <2>3 DEF SysVInit, SysVTypeOK
<1> QED
  BY <1>1 DEF SysVInit, SysVInv, SetInv, HoldInv, IgnoreInv, RelseInv, Signals

\* What is said of SIGINT follows: a held or ignored one is never delivered, and
\* one that sigrelse unblocked is delivered before the next call.
LEMMA InvAnnounced == SysVInv => SigintAsAnnounced
<1> SUFFICES ASSUME SysVInv PROVE SigintAsAnnounced
  OBVIOUS
<1>1. ASSUME func \in {"sighold", "sigignore"}, pc > 1
      PROVE  state # "killed" /\ ~Done
  <2>1. pc =< 3 /\ state # "killed"
    BY <1>1 DEF SysVInv, HoldInv, IgnoreInv
  <2>2. pc \in Nat
    BY DEF SysVInv, SysVTypeOK
  <2>3. ~(pc > 3)
    BY <2>1, <2>2
  <2>4. Done <=> pc > 3
    BY <1>1, WhereCalled DEF SysVInv
  <2> QED
    BY <2>1, <2>3, <2>4
<1>2. ASSUME func = "sigrelse", pc = 4, Runs, raised
      PROVE  disp["SIGINT"] = "SIG_IGN"
  <2>1. "SIGINT" \notin mask /\ ("SIGINT" \in pendingSigs \/ disp["SIGINT"] = "SIG_IGN")
    BY <1>2 DEF SysVInv, RelseInv, Runs
  <2>2. "SIGINT" \notin pendingSigs
    BY <1>2, <2>1 DEF Runs, Deliverable, Blocked
  <2> QED
    BY <2>1, <2>2
<1> QED
  BY <1>1, <1>2 DEF SigintAsAnnounced, SysVInv

\* Whatever mask and dispositions are inherited, the programs keep what they
\* announce about SIGINT: "sighold" and "sigignore" are not killed and do not go
\* on for a ^C, and "sigrelse" finds a signal that was raised while it was held.
THEOREM Announced == SysVSpec => []SigintAsAnnounced
<1>1. SysVInv /\ [SysVNext]_sysVVars => SysVInv'
  BY SysVTypeStep, SetStep, HoldStep, IgnoreStep, RelseStep DEF SysVInv
<1> QED
  BY <1>1, SysVInitInv, InvAnnounced, PTL DEF SysVSpec
-----------------------------------------------------------------------------
(* The ping-pong *)

\* Whose turn it is: the four states of a round, and the end.  The counters
\* differ only between the parent's kill and the child's return from waiting.
Round ==
    \/ /\ childPc = "kill" /\ parentPc = "wait" /\ ~toParent /\ ~toChild
       /\ cscnt = pscnt /\ cscnt < numSigs
    \/ /\ childPc = "wait" /\ parentPc = "wait" /\ toParent /\ ~toChild
       /\ cscnt = pscnt /\ cscnt < numSigs
    \/ /\ childPc = "wait" /\ parentPc = "kill" /\ ~toParent /\ ~toChild
       /\ cscnt = pscnt /\ cscnt < numSigs
    \/ /\ childPc = "wait" /\ ~toParent /\ toChild
       /\ pscnt = cscnt + 1 /\ cscnt < numSigs
       /\ parentPc = IF pscnt < numSigs THEN "wait" ELSE "exit"
    \/ /\ childPc = "exit" /\ parentPc = "exit" /\ ~toParent /\ ~toChild
       /\ cscnt = numSigs /\ pscnt = numSigs

PingPongIInv == PingPongTypeOK /\ Round

\* No signal is pending, and it is the turn of the child.
LEMMA PingPongInitIInv == PingPongInit => PingPongIInv
<1> SUFFICES ASSUME PingPongInit PROVE PingPongIInv
  OBVIOUS
<1>1. /\ numSigs \in Nat \ {0} /\ cscnt \in 0..numSigs /\ pscnt \in 0..numSigs
      /\ cscnt = pscnt /\ cscnt < numSigs
  BY PingPongAssumption, SMT DEF PingPongInit
<1>2. PingPongTypeOK
  BY <1>1, Zenon DEF PingPongInit, PingPongTypeOK
<1>3. Round
  BY <1>1, Zenon DEF PingPongInit, Round
<1> QED
  BY <1>2, <1>3 DEF PingPongIInv

\* Every call hands the turn over, or ends the program.
LEMMA PingPongStep == PingPongIInv /\ [PingPongNext]_pingPongVars => PingPongIInv'
<1> SUFFICES ASSUME PingPongIInv, [PingPongNext]_pingPongVars PROVE PingPongIInv'
  OBVIOUS
<1> USE DEF PingPongIInv, PingPongTypeOK, Round
<1>1. CASE ChildKill
  BY <1>1 DEF ChildKill
<1>2. CASE ChildWait
  <2>1. /\ pscnt = cscnt + 1 /\ cscnt < numSigs /\ ~toParent /\ ~toChild'
        /\ parentPc = IF pscnt < numSigs THEN "wait" ELSE "exit"
    BY <1>2, Zenon DEF ChildWait
  <2>2. /\ cscnt' = pscnt /\ cscnt' \in 0..numSigs /\ ~(cscnt' < numSigs) => cscnt' = numSigs
    BY <1>2, <2>1 DEF ChildWait
  <2>3. CASE pscnt < numSigs
    <3>1. childPc' = "kill" /\ parentPc = "wait" /\ cscnt' < numSigs
      BY <1>2, <2>1, <2>2, <2>3 DEF ChildWait
    <3> QED
      BY <1>2, <2>1, <2>2, <3>1, Zenon DEF ChildWait
  <2>4. CASE ~(pscnt < numSigs)
    <3>1. childPc' = "exit" /\ parentPc = "exit" /\ cscnt' = numSigs /\ pscnt = numSigs
      BY <1>2, <2>1, <2>2, <2>4 DEF ChildWait
    <3> QED
      BY <1>2, <2>1, <2>2, <3>1, Zenon DEF ChildWait
  <2> QED
    BY <2>3, <2>4
<1>3. CASE ParentWait
  BY <1>3 DEF ParentWait
<1>4. CASE ParentKill
  BY <1>4 DEF ParentKill
<1>5. CASE UNCHANGED pingPongVars
  BY <1>5 DEF pingPongVars
<1> QED
  BY <1>1, <1>2, <1>3, <1>4, <1>5 DEF PingPongNext, ChildStep, ParentStep

\* PingPongIInv is an invariant of the specification.
LEMMA PingPongInvariance == PingPongSpec => []PingPongIInv
<1> QED
  BY PingPongInitIInv, PingPongStep, PTL DEF PingPongSpec

\* Type correctness: the loop counters never pass the argument.
THEOREM PingPongTypeCorrect == PingPongSpec => []PingPongTypeOK
<1>1. PingPongIInv => PingPongTypeOK
  BY DEF PingPongIInv
<1> QED
  BY <1>1, PingPongInvariance, PTL

\* One pending bit for each process is enough, and every signal goes to a process
\* that still waits for it: none is coalesced, none goes astray.
THEOREM SignalsArrive == PingPongSpec => []SignalsMeet
<1>1. PingPongIInv => NoneCoalesced
  BY DEF PingPongIInv, Round, NoneCoalesced
<1>2. PingPongIInv => PartnerAlive
  BY DEF PingPongIInv, PingPongTypeOK, Round, PartnerAlive
<1>3. PingPongIInv => SignalsMeet
  BY <1>1, <1>2 DEF SignalsMeet
<1> QED
  BY <1>3, PingPongInvariance, PTL
-----------------------------------------------------------------------------
(* Producer and consumers *)

\* The latest message that consumer c has been signalled and has not dropped,
\* and those it has yet to compare with their slots.
Sent(c) == {pending[c], si[c]} \ {None}
ToCheck(c) == ({pending[c]} \union (IF cpc[c] = "check" THEN {si[c]} ELSE {})) \ {None}

\* No consumer has been signalled message i before its turn.
Turns ==
    \A c \in Consumers : \A v \in Sent(c) :
        IF ppc = "sigqueue" /\ c < k THEN v =< i ELSE v < i

\* Signals come in the order of the messages.
Ordered == \A c \in Consumers : pending[c] # None => pending[c] > si[c]

\* The message is in its slot before the first signal is sent.
Written == ppc = "sigqueue" => slot[i % B] = i

\* What a consumer has yet to compare is in its slot, or was overwritten by a
\* message of a later turn of the ring.
Lapped ==
    \A c \in Consumers : \A v \in ToCheck(c) :
        slot[v % B] = v \/ (slot[v % B] >= v + B /\ slot[v % B] =< i)

Idle(c) == cpc[c] \in {"sigwaitinfo", "exit"}

\* The messages a consumer is done with: those before its signal and, when it has
\* stored a counter, that of its signal.
Handled ==
    {p \in Consumers \X Messages : p[2] < si[p[1]] \/ (p[2] = si[p[1]] /\ Idle(p[1]))}
Missed == Handled \ received

\* A consumer counts a message it was signalled, at the end of its turn.
CountedOnce ==
    /\ received \subseteq Handled
    /\ \A c \in Consumers : ~Idle(c) => si[c] # None

IInv == TypeOK /\ Turns /\ Ordered /\ Written /\ Lapped /\ CountedOnce
-----------------------------------------------------------------------------
\* Two messages of one slot are at least a turn of the ring apart.
LEMMA Turn ==
    ASSUME NEW v \in Nat, NEW w \in Nat, v < w, v % B = w % B
    PROVE  w >= v + B
<1> DEFINE p == v \div B
           q == w \div B
<1>1. B \in Nat /\ B > 0
  BY ConstAssumption
<1>2. p \in Int /\ q \in Int
  BY <1>1
<1>3. v % B = v - B * p /\ w % B = w - B * q
  BY <1>1
<1>4. B * p \in Int /\ B * q \in Int
  BY <1>1, <1>2
<1> HIDE DEF p, q
<1>5. w = v + (B * q - B * p)
  BY <1>3, <1>4
<1>6. B * p < B * q
  BY <1>4, <1>5
<1>7. \A x, y \in Int : x =< y => B * x =< B * y
  BY <1>1
<1>8. ~(q =< p)
  BY <1>2, <1>4, <1>6, <1>7
<1>9. p + 1 =< q /\ p + 1 \in Int
  BY <1>2, <1>8
<1>10. B * (p + 1) =< B * q
  BY <1>2, <1>7, <1>9
<1>11. B * (p + 1) = B * p + B
  BY <1>1, <1>2
<1> QED
  BY <1>1, <1>4, <1>5, <1>10, <1>11

\* The slot of a message exists.
LEMMA SlotIndex == \A v \in Nat : v % B \in 0..(B - 1)
  BY ConstAssumption

\* Messages are numbered from 0.
LEMMA MessagesAreNat == \A m \in Messages : m \in Nat
  BY ConstAssumption DEF Messages

\* Every step keeps the types.
LEMMA TypeStep ==
    ASSUME IInv, [Next]_vars
    PROVE  TypeOK'
<1>1. CASE PWrite
  <2>1. i \in Messages
    BY <1>1, ConstAssumption DEF PWrite, IInv, TypeOK, Messages
  <2>2. slot' \in [0..(B - 1) -> Messages]
    BY <1>1, <2>1 DEF PWrite, IInv, TypeOK
  <2>3. 1 \in Consumers /\ i < M
    BY <1>1, ConstAssumption DEF PWrite, IInv, TypeOK, Consumers
  <2> QED
    BY <1>1, <2>2, <2>3 DEF PWrite, IInv, TypeOK, consumerVars
<1>2. CASE PSigqueue
  <2>1. i \in Messages /\ i \in 0..M /\ i < M /\ i \in Nat
    BY <1>2, ConstAssumption DEF PSigqueue, IInv, TypeOK, Messages
  <2>2. pending' \in [Consumers -> Messages \union {None}]
    BY <1>2, <2>1 DEF PSigqueue, Deliver, IInv, TypeOK
  <2>3. k' \in Consumers
    BY <1>2, ConstAssumption DEF PSigqueue, EndMessage, IInv, TypeOK, Consumers
  <2>4. ppc' \in {"write", "sigqueue", "wait"} /\ i' \in 0..M /\ (ppc' \in {"write", "sigqueue"} => i' < M)
    BY <1>2, <2>1, ConstAssumption DEF PSigqueue, EndMessage
  <2> QED
    BY <1>2, <2>2, <2>3, <2>4 DEF PSigqueue, IInv, TypeOK, consumerVars
<1>3. CASE PWait
  BY <1>3, ConstAssumption DEF IInv, TypeOK, Consumers, Messages, None, consumerVars, PWait
<1>4. CASE PReport
  BY <1>4, ConstAssumption DEF IInv, TypeOK, Consumers, Messages, None, consumerVars, PReport
<1>5. ASSUME NEW c \in Consumers, CSigwait(c) PROVE TypeOK'
  BY <1>5, ConstAssumption DEF IInv, TypeOK, Consumers, Messages, None, producerVars, CSigwait
<1>6. ASSUME NEW c \in Consumers, CCheck(c) PROVE TypeOK'
  BY <1>6, ConstAssumption DEF IInv, TypeOK, Consumers, Messages, None, producerVars, CCheck
<1>7. ASSUME NEW c \in Consumers, CLoad(c) PROVE TypeOK'
  BY <1>7, ConstAssumption DEF IInv, TypeOK, Consumers, Messages, None, producerVars, CLoad
<1>8. ASSUME NEW c \in Consumers, CStoreCnt(c) PROVE TypeOK'
  <2>0. /\ cpc[c] = "storeCnt" /\ cpc' = [cpc EXCEPT ![c] = AfterStore(c)] /\ AfterStore(c) \in {"sigwaitinfo", "exit"}
        /\ UNCHANGED <<slot, pending, ppc, i, k, report, si, tmp>>
    BY <1>8 DEF CStoreCnt, AfterStore, producerVars
  <2>1. si[c] \in Messages
    BY <2>0 DEF IInv, TypeOK, CountedOnce, Idle
  <2>3. counters' \in [cnt : Nat, loss_cnt : Nat]
    <3>1. tmp[c] + 1 \in Nat
      BY DEF IInv, TypeOK
    <3>2. counters' = [counters EXCEPT !.cnt = tmp[c] + 1]
      BY <1>8 DEF CStoreCnt
    <3> QED
      BY <3>1, <3>2 DEF IInv, TypeOK
  <2>4. received' \in SUBSET (Consumers \X Messages)
    BY <1>8, <2>1 DEF CStoreCnt, IInv, TypeOK
  <2> QED
    BY <2>0, <2>3, <2>4 DEF IInv, TypeOK
<1>9. ASSUME NEW c \in Consumers, CStoreLoss(c) PROVE TypeOK'
  <2>0. /\ cpc[c] = "storeLoss" /\ cpc' = [cpc EXCEPT ![c] = AfterStore(c)] /\ AfterStore(c) \in {"sigwaitinfo", "exit"}
        /\ UNCHANGED <<slot, pending, ppc, i, k, report, si, tmp>>
    BY <1>9 DEF CStoreLoss, AfterStore, producerVars
  <2>1. counters' \in [cnt : Nat, loss_cnt : Nat]
    <3>1. tmp[c] + 1 \in Nat
      BY DEF IInv, TypeOK
    <3>2. counters' = [counters EXCEPT !.loss_cnt = tmp[c] + 1]
      BY <1>9 DEF CStoreLoss
    <3> QED
      BY <3>1, <3>2 DEF IInv, TypeOK
  <2>2. received' = received
    BY <1>9 DEF CStoreLoss
  <2> QED
    BY <2>0, <2>1, <2>2 DEF IInv, TypeOK
<1>10. CASE UNCHANGED vars
  BY <1>10 DEF IInv, TypeOK, Consumers, Messages, None, vars, producerVars, consumerVars
<1> QED
  BY <1>1, <1>2, <1>3, <1>4, <1>5, <1>6, <1>7, <1>8, <1>9, <1>10
     DEF Next, ProducerStep, ConsumerStep

\* A message is signalled in its turn.
LEMMA TurnsStep ==
    ASSUME IInv, [Next]_vars
    PROVE  Turns'
<1>1. CASE PWrite
  BY <1>1, ConstAssumption DEF IInv, TypeOK, Turns, Sent, Consumers, Messages, None, consumerVars, PWrite
<1>2. CASE PSigqueue
  <2>1. i \in Nat /\ k \in Consumers /\ ppc = "sigqueue" /\ si' = si /\ cpc' = cpc
    BY <1>2, ConstAssumption DEF PSigqueue, IInv, TypeOK, Messages, consumerVars
  <2>2. \A c \in Consumers : pending'[c] = IF c = k /\ pending[c] = None THEN i ELSE pending[c]
    BY <1>2, <2>1 DEF PSigqueue, Deliver, IInv, TypeOK
  <2>3. \/ k' = k + 1 /\ ppc' = "sigqueue" /\ i' = i
        \/ ppc' # "sigqueue" /\ i' = i + 1
    BY <1>2 DEF PSigqueue, EndMessage
  <2>4. ASSUME NEW c \in Consumers, NEW v \in Sent(c)'
        PROVE  IF ppc' = "sigqueue" /\ c < k' THEN v =< i' ELSE v < i'
    <3>1. \/ v = i /\ c = k
          \/ v \in Sent(c) /\ v \in Int
      BY <2>1, <2>2 DEF Sent, IInv, TypeOK, Messages, None
    <3>2. c \in Int /\ k \in Int
      BY <2>1, ConstAssumption DEF Consumers
    <3>3. CASE v = i /\ c = k
      BY <2>1, <2>3, <3>2, <3>3
    <3>4. CASE v \in Sent(c) /\ v \in Int
      <4>1. IF c < k THEN v =< i ELSE v < i
        BY <2>1, <3>4 DEF IInv, Turns
      <4> QED
        BY <2>1, <2>3, <3>2, <3>4, <4>1
    <3> QED
      BY <3>1, <3>3, <3>4
  <2> QED
    BY <2>4 DEF Turns
<1>3. CASE PWait
  BY <1>3, ConstAssumption DEF IInv, TypeOK, Turns, Sent, Consumers, Messages, None, consumerVars, PWait
<1>4. CASE PReport
  BY <1>4, ConstAssumption DEF IInv, TypeOK, Turns, Sent, Consumers, Messages, None, consumerVars, PReport
<1>5. ASSUME NEW c \in Consumers, CSigwait(c) PROVE Turns'
  BY <1>5, ConstAssumption DEF IInv, TypeOK, Turns, Sent, Consumers, Messages, None, producerVars, CSigwait
<1>6. ASSUME NEW c \in Consumers, CCheck(c) PROVE Turns'
  BY <1>6, ConstAssumption DEF IInv, TypeOK, Turns, Sent, Consumers, Messages, None, producerVars, CCheck
<1>7. ASSUME NEW c \in Consumers, CLoad(c) PROVE Turns'
  BY <1>7, ConstAssumption DEF IInv, TypeOK, Turns, Sent, Consumers, Messages, None, producerVars, CLoad
<1>8. ASSUME NEW c \in Consumers, CStoreCnt(c) PROVE Turns'
  BY <1>8, ConstAssumption DEF IInv, TypeOK, Turns, Sent, Consumers, Messages, None, producerVars, AfterStore, CStoreCnt
<1>9. ASSUME NEW c \in Consumers, CStoreLoss(c) PROVE Turns'
  BY <1>9, ConstAssumption DEF IInv, TypeOK, Turns, Sent, Consumers, Messages, None, producerVars, AfterStore, CStoreLoss
<1>10. CASE UNCHANGED vars
  BY <1>10 DEF IInv, TypeOK, Turns, Sent, Consumers, Messages, None, vars, producerVars, consumerVars
<1> QED
  BY <1>1, <1>2, <1>3, <1>4, <1>5, <1>6, <1>7, <1>8, <1>9, <1>10
     DEF Next, ProducerStep, ConsumerStep

\* A signal is later than the one before.
LEMMA OrderedStep ==
    ASSUME IInv, [Next]_vars
    PROVE  Ordered'
<1>1. CASE PWrite
  BY <1>1, ConstAssumption DEF IInv, TypeOK, Turns, Sent, Ordered, Consumers, Messages, None, consumerVars, PWrite
<1>2. CASE PSigqueue
  <2>1. i \in Nat /\ k \in Consumers /\ ppc = "sigqueue" /\ si' = si /\ cpc' = cpc
    BY <1>2, ConstAssumption DEF PSigqueue, IInv, TypeOK, Messages, consumerVars
  <2>2. \A c \in Consumers : pending'[c] = IF c = k /\ pending[c] = None THEN i ELSE pending[c]
    BY <1>2, <2>1 DEF PSigqueue, Deliver, IInv, TypeOK
  <2>3. \A c \in Consumers : si[c] \in Int /\ (si[c] # None => si[c] \in Sent(c))
    BY DEF Sent, IInv, TypeOK, Messages, None
  <2>4. k \in Int /\ ~(k < k)
    BY <2>1, ConstAssumption DEF Consumers
  <2>5. si[k] # None => si[k] < i
    BY <2>1, <2>3, <2>4 DEF IInv, Turns
  <2>6. si[k] < i
    BY <2>1, <2>5 DEF None
  <2> QED
    BY <2>1, <2>2, <2>3, <2>6 DEF IInv, Ordered
<1>3. CASE PWait
  BY <1>3, ConstAssumption DEF IInv, TypeOK, Turns, Sent, Ordered, Consumers, Messages, None, consumerVars, PWait
<1>4. CASE PReport
  BY <1>4, ConstAssumption DEF IInv, TypeOK, Turns, Sent, Ordered, Consumers, Messages, None, consumerVars, PReport
<1>5. ASSUME NEW c \in Consumers, CSigwait(c) PROVE Ordered'
  BY <1>5, ConstAssumption DEF IInv, TypeOK, Turns, Sent, Ordered, Consumers, Messages, None, producerVars, CSigwait
<1>6. ASSUME NEW c \in Consumers, CCheck(c) PROVE Ordered'
  BY <1>6, ConstAssumption DEF IInv, TypeOK, Turns, Sent, Ordered, Consumers, Messages, None, producerVars, CCheck
<1>7. ASSUME NEW c \in Consumers, CLoad(c) PROVE Ordered'
  BY <1>7, ConstAssumption DEF IInv, TypeOK, Turns, Sent, Ordered, Consumers, Messages, None, producerVars, CLoad
<1>8. ASSUME NEW c \in Consumers, CStoreCnt(c) PROVE Ordered'
  BY <1>8, ConstAssumption DEF IInv, TypeOK, Turns, Sent, Ordered, Consumers, Messages, None, producerVars, AfterStore, CStoreCnt
<1>9. ASSUME NEW c \in Consumers, CStoreLoss(c) PROVE Ordered'
  BY <1>9, ConstAssumption DEF IInv, TypeOK, Turns, Sent, Ordered, Consumers, Messages, None, producerVars, AfterStore, CStoreLoss
<1>10. CASE UNCHANGED vars
  BY <1>10 DEF IInv, TypeOK, Turns, Sent, Ordered, Consumers, Messages, None, vars, producerVars, consumerVars
<1> QED
  BY <1>1, <1>2, <1>3, <1>4, <1>5, <1>6, <1>7, <1>8, <1>9, <1>10
     DEF Next, ProducerStep, ConsumerStep

\* Only the next message is written once this one was sent.
LEMMA WrittenStep ==
    ASSUME IInv, [Next]_vars
    PROVE  Written'
<1>1. CASE PWrite
  BY <1>1, SlotIndex DEF IInv, TypeOK, Written, Consumers, Messages, None, consumerVars, PWrite
<1>2. CASE PSigqueue
  BY <1>2, SlotIndex DEF IInv, TypeOK, Written, Consumers, Messages, None, consumerVars, EndMessage, Deliver, PSigqueue
<1>3. CASE PWait
  BY <1>3, SlotIndex DEF IInv, TypeOK, Written, Consumers, Messages, None, consumerVars, PWait
<1>4. CASE PReport
  BY <1>4, SlotIndex DEF IInv, TypeOK, Written, Consumers, Messages, None, consumerVars, PReport
<1>5. ASSUME NEW c \in Consumers, CSigwait(c) PROVE Written'
  BY <1>5, SlotIndex DEF IInv, TypeOK, Written, Consumers, Messages, None, producerVars, CSigwait
<1>6. ASSUME NEW c \in Consumers, CCheck(c) PROVE Written'
  BY <1>6, SlotIndex DEF IInv, TypeOK, Written, Consumers, Messages, None, producerVars, CCheck
<1>7. ASSUME NEW c \in Consumers, CLoad(c) PROVE Written'
  BY <1>7, SlotIndex DEF IInv, TypeOK, Written, Consumers, Messages, None, producerVars, CLoad
<1>8. ASSUME NEW c \in Consumers, CStoreCnt(c) PROVE Written'
  BY <1>8, SlotIndex DEF IInv, TypeOK, Written, Consumers, Messages, None, producerVars, AfterStore, CStoreCnt
<1>9. ASSUME NEW c \in Consumers, CStoreLoss(c) PROVE Written'
  BY <1>9, SlotIndex DEF IInv, TypeOK, Written, Consumers, Messages, None, producerVars, AfterStore, CStoreLoss
<1>10. CASE UNCHANGED vars
  BY <1>10 DEF IInv, TypeOK, Written, Consumers, Messages, None, vars, producerVars, consumerVars
<1> QED
  BY <1>1, <1>2, <1>3, <1>4, <1>5, <1>6, <1>7, <1>8, <1>9, <1>10
     DEF Next, ProducerStep, ConsumerStep

\* A slot gets a message a turn of the ring later than the one it held.
LEMMA LappedStep ==
    ASSUME IInv, [Next]_vars
    PROVE  Lapped'
<1>1. CASE PWrite
  <2>1. i \in Nat /\ ppc = "write" /\ UNCHANGED <<pending, si, cpc, i>> /\ slot' = [slot EXCEPT ![i % B] = i]
    BY <1>1, ConstAssumption DEF PWrite, IInv, TypeOK, consumerVars
  <2>2. ASSUME NEW c \in Consumers, NEW v \in ToCheck(c)
        PROVE  slot'[v % B] = v \/ (slot'[v % B] >= v + B /\ slot'[v % B] =< i)
    <3>1. v \in Nat /\ v \in Sent(c)
      <4>1. v \in {pending[c], si[c]} /\ v # None
        BY DEF ToCheck
      <4>2. v \in Messages
        BY <4>1 DEF IInv, TypeOK
      <4> QED
        BY <4>1, <4>2, MessagesAreNat DEF Sent
    <3>2. v < i
      BY <2>1, <3>1 DEF IInv, Turns
    <3>3. v % B \in 0..(B - 1) /\ i % B \in 0..(B - 1)
      BY <2>1, <3>1, SlotIndex
    <3>4. CASE v % B = i % B
      <4>1. slot'[v % B] = i
        BY <2>1, <3>3, <3>4 DEF IInv, TypeOK
      <4> QED
        BY <2>1, <3>1, <3>2, <3>4, <4>1, Turn
    <3>5. CASE v % B # i % B
      <4>1. slot'[v % B] = slot[v % B]
        BY <2>1, <3>3, <3>5 DEF IInv, TypeOK
      <4> QED
        BY <4>1 DEF IInv, Lapped
    <3> QED
      BY <3>4, <3>5
  <2> QED
    BY <2>1, <2>2 DEF Lapped, ToCheck
<1>2. CASE PSigqueue
  <2>1. i \in Nat /\ k \in Consumers /\ ppc = "sigqueue" /\ si' = si /\ cpc' = cpc
    BY <1>2, ConstAssumption DEF PSigqueue, IInv, TypeOK, Messages, consumerVars
  <2>2. \A c \in Consumers : pending'[c] = IF c = k /\ pending[c] = None THEN i ELSE pending[c]
    BY <1>2, <2>1 DEF PSigqueue, Deliver, IInv, TypeOK
  <2>3. slot' = slot /\ (i' = i \/ i' = i + 1) /\ slot[i % B] = i
    BY <1>2, <2>1 DEF PSigqueue, EndMessage, IInv, Written
  <2>4. ASSUME NEW c \in Consumers, NEW v \in ToCheck(c)'
        PROVE  slot[v % B] = v \/ (slot[v % B] >= v + B /\ slot[v % B] =< i')
    <3>1. v = i \/ v \in ToCheck(c)
      BY <2>1, <2>2 DEF ToCheck
    <3>2. CASE v = i
      BY <2>3, <3>2
    <3>3. CASE v \in ToCheck(c)
      <4>1. v \in Nat
        BY <3>3, ConstAssumption DEF ToCheck, IInv, TypeOK, Messages, None
      <4>2. slot[v % B] \in Nat
        <5>1. slot[v % B] \in Messages
          BY <4>1, SlotIndex DEF IInv, TypeOK
        <5> QED
          BY <5>1, MessagesAreNat
      <4>3. slot[v % B] = v \/ (slot[v % B] >= v + B /\ slot[v % B] =< i)
        BY <3>3 DEF IInv, Lapped
      <4> QED
        BY <2>1, <2>3, <4>2, <4>3
    <3> QED
      BY <3>1, <3>2, <3>3
  <2> QED
    BY <2>3, <2>4 DEF Lapped
<1>3. CASE PWait
  BY <1>3 DEF IInv, TypeOK, Lapped, ToCheck, Consumers, Messages, None, consumerVars, PWait
<1>4. CASE PReport
  BY <1>4 DEF IInv, TypeOK, Lapped, ToCheck, Consumers, Messages, None, consumerVars, PReport
<1>5. ASSUME NEW c \in Consumers, CSigwait(c) PROVE Lapped'
  BY <1>5 DEF IInv, TypeOK, Lapped, ToCheck, Consumers, Messages, None, producerVars, CSigwait
<1>6. ASSUME NEW c \in Consumers, CCheck(c) PROVE Lapped'
  BY <1>6 DEF IInv, TypeOK, Lapped, ToCheck, Consumers, Messages, None, producerVars, CCheck
<1>7. ASSUME NEW c \in Consumers, CLoad(c) PROVE Lapped'
  BY <1>7 DEF IInv, TypeOK, Lapped, ToCheck, Consumers, Messages, None, producerVars, CLoad
<1>8. ASSUME NEW c \in Consumers, CStoreCnt(c) PROVE Lapped'
  BY <1>8 DEF IInv, TypeOK, Lapped, ToCheck, Consumers, Messages, None, producerVars, AfterStore, CStoreCnt
<1>9. ASSUME NEW c \in Consumers, CStoreLoss(c) PROVE Lapped'
  BY <1>9 DEF IInv, TypeOK, Lapped, ToCheck, Consumers, Messages, None, producerVars, AfterStore, CStoreLoss
<1>10. CASE UNCHANGED vars
  BY <1>10 DEF IInv, TypeOK, Lapped, ToCheck, Consumers, Messages, None, vars, producerVars, consumerVars
<1> QED
  BY <1>1, <1>2, <1>3, <1>4, <1>5, <1>6, <1>7, <1>8, <1>9, <1>10
     DEF Next, ProducerStep, ConsumerStep

\* What a step of the programs does to a consumer's signal and to its turn.
LEMMA TurnOfConsumer ==
    ASSUME IInv, [Next]_vars, NEW c \in Consumers
    PROVE  \/ si'[c] = si[c] /\ cpc'[c] = cpc[c]
           \/ si'[c] \in Messages /\ si'[c] > si[c] /\ Idle(c) /\ ~Idle(c)'
           \/ si'[c] = si[c] /\ ~Idle(c)
<1>1. CASE ProducerStep \/ UNCHANGED vars
  BY <1>1 DEF ProducerStep, PWrite, PSigqueue, PWait, PReport, consumerVars, vars
<1>2. ASSUME NEW d \in Consumers, CSigwait(d)
      PROVE  \/ si'[c] = si[c] /\ cpc'[c] = cpc[c]
             \/ si'[c] \in Messages /\ si'[c] > si[c] /\ Idle(c) /\ ~Idle(c)'
  BY <1>2 DEF CSigwait, IInv, TypeOK, Ordered, Idle
<1>3. ASSUME NEW d \in Consumers, CCheck(d) \/ CLoad(d) \/ CStoreCnt(d) \/ CStoreLoss(d)
      PROVE  si'[c] = si[c] /\ (cpc'[c] = cpc[c] \/ ~Idle(c))
  BY <1>3 DEF CCheck, CLoad, CStoreCnt, CStoreLoss, IInv, TypeOK, Idle
<1> QED
  BY <1>1, <1>2, <1>3 DEF Next, ConsumerStep

\* What a consumer is done with it stays done with.
LEMMA HandledGrows ==
    ASSUME IInv, [Next]_vars
    PROVE  Handled \subseteq Handled'
<1> SUFFICES ASSUME NEW p \in Handled
             PROVE  p[2] < si'[p[1]] \/ (p[2] = si'[p[1]] /\ Idle(p[1])')
  BY DEF Handled
<1> DEFINE c == p[1]
<1>1. c \in Consumers /\ p[2] \in Int /\ (p[2] < si[c] \/ (p[2] = si[c] /\ Idle(c)))
  BY MessagesAreNat DEF Handled
<1>2. si[c] \in Int
  BY <1>1, MessagesAreNat DEF IInv, TypeOK, None
<1>3. \/ si'[c] = si[c] /\ cpc'[c] = cpc[c]
      \/ si'[c] \in Int /\ si'[c] > si[c]
      \/ si'[c] = si[c] /\ ~Idle(c)
  BY <1>1, TurnOfConsumer, MessagesAreNat
<1> QED
  BY <1>1, <1>2, <1>3 DEF Idle

\* A consumer that stores a counter has not been done with its message before.
LEMMA StoreHandles ==
    ASSUME IInv, NEW c \in Consumers, CStoreCnt(c) \/ CStoreLoss(c)
    PROVE  /\ <<c, si[c]>> \in Consumers \X Messages
           /\ <<c, si[c]>> \in Handled' /\ <<c, si[c]>> \notin Handled
<1>1. cpc[c] \in {"storeCnt", "storeLoss"} /\ si' = si /\ cpc'[c] = AfterStore(c)
  BY DEF CStoreCnt, CStoreLoss, IInv, TypeOK
<1>2. ~Idle(c) /\ Idle(c)'
  BY <1>1 DEF Idle, AfterStore
<1>3. si[c] \in Messages /\ si[c] \in Int
  BY <1>2, MessagesAreNat DEF IInv, TypeOK, CountedOnce
<1> QED
  BY <1>1, <1>2, <1>3 DEF Handled

\* A consumer counts the message it was signalled, and only then.
LEMMA ReceivedStep ==
    ASSUME [Next]_vars
    PROVE  received' = received \/ \E c \in Consumers : CStoreCnt(c)
  BY DEF Next, ProducerStep, ConsumerStep, vars, PWrite, PSigqueue, PWait, PReport,
     CSigwait, CCheck, CLoad, CStoreLoss

\* A message that is counted was signalled and is now done with.
LEMMA CountedStep ==
    ASSUME IInv, [Next]_vars
    PROVE  CountedOnce'
<1>1. received' \subseteq Handled'
  <2>1. received \subseteq Handled'
    BY HandledGrows DEF IInv, CountedOnce
  <2>2. ASSUME NEW c \in Consumers, CStoreCnt(c)
        PROVE  received' \subseteq Handled'
    BY <2>1, <2>2, StoreHandles DEF CStoreCnt
  <2> QED BY <2>1, <2>2, ReceivedStep
<1>2. ASSUME NEW c \in Consumers, ~Idle(c)'
      PROVE  si'[c] # None
  <2>1. ~Idle(c) => si[c] # None
    BY DEF IInv, CountedOnce
  <2>2. si'[c] \in Messages => si'[c] # None
    BY MessagesAreNat DEF None
  <2> QED BY <1>2, <2>1, <2>2, TurnOfConsumer DEF Idle
<1> QED BY <1>1, <1>2 DEF CountedOnce

\* The processes start with IInv.
LEMMA InitInv == Init => IInv
  BY ConstAssumption
     DEF Init, IInv, TypeOK, Turns, Sent, Ordered, Written, Lapped, ToCheck, CountedOnce, Idle,
         Consumers, Messages, None

\* No step leaves IInv.
LEMMA StepInv == IInv /\ [Next]_vars => IInv'
  BY TypeStep, TurnsStep, OrderedStep, WrittenStep, LappedStep, CountedStep DEF IInv

\* IInv is an invariant of the specification.
LEMMA Invariance == Spec => []IInv
  BY InitInv, StepInv, PTL DEF Spec

\* A consumer finds another message than its own only if the producer is at least
\* a turn of the ring ahead.
THEOREM LossExplained == Spec => []LossOnlyWhenLapped
<1>1. IInv => LossOnlyWhenLapped
  BY DEF IInv, LossOnlyWhenLapped, Lapped, ToCheck
<1> QED
  BY <1>1, Invariance, PTL

\* A consumer gets the messages in order and none of them twice.
LEMMA StepInOrder ==
    IInv /\ [Next]_vars =>
        \A c \in Consumers : si'[c] # si[c] \/ (cpc[c] = "sigwaitinfo" /\ cpc'[c] = "check")
          => si'[c] > si[c]
<1> SUFFICES ASSUME IInv, [Next]_vars
             PROVE  \A c \in Consumers : si'[c] # si[c] \/ (cpc[c] = "sigwaitinfo" /\ cpc'[c] = "check")
                      => si'[c] > si[c]
  OBVIOUS
<1>1. ASSUME NEW d \in Consumers, CSigwait(d)
      PROVE  \A c \in Consumers : IF c = d THEN si'[c] > si[c] ELSE si'[c] = si[c] /\ cpc'[c] = cpc[c]
  BY <1>1 DEF CSigwait, IInv, TypeOK, Ordered
<1>2. ASSUME NEW d \in Consumers, CCheck(d) \/ CLoad(d) \/ CStoreCnt(d) \/ CStoreLoss(d)
      PROVE  si' = si /\ \A c \in Consumers : cpc[c] = "sigwaitinfo" => cpc'[c] = "sigwaitinfo"
  BY <1>2 DEF CCheck, CLoad, CStoreCnt, CStoreLoss, AfterStore, IInv, TypeOK
<1>3. CASE ProducerStep \/ UNCHANGED vars
  BY <1>3 DEF ProducerStep, PWrite, PSigqueue, PWait, PReport, consumerVars, vars
<1> QED
  BY <1>1, <1>2, <1>3 DEF Next, ConsumerStep

\* A consumer gets the messages in order and none twice, whatever is lost.
THEOREM OrderKept == Spec => InOrderOnce
  BY StepInOrder, Invariance, PTL DEF Spec, InOrderOnce
-----------------------------------------------------------------------------
(* The counters *)

\* A counter is never above what it counts, nor is what a consumer has loaded and
\* will store: what it counts grows by the consumer's own message meanwhile.
Counts ==
    /\ counters.cnt =< Total /\ report =< Total
    /\ counters.loss_cnt =< Cardinality(Missed)
    /\ \A c \in Consumers :
         /\ cpc[c] = "storeCnt" => tmp[c] =< Total
         /\ cpc[c] = "storeLoss" => tmp[c] =< Cardinality(Missed)

\* There are M times N messages to receive.
LEMMA Deliveries ==
    IsFiniteSet(Consumers \X Messages) /\ Cardinality(Consumers \X Messages) = M * N
<1>1. M \in Nat /\ N \in Nat /\ 1 \in Int /\ 0 \in Int /\ M - 1 \in Int /\ N \in Int
  BY ConstAssumption
<1>2. IsFiniteSet(Consumers) /\ Cardinality(Consumers) = N
  <2>1. IsFiniteSet(1..N) /\ Cardinality(1..N) = IF 1 > N THEN 0 ELSE N - 1 + 1
    BY <1>1, FS_Interval
  <2> QED BY <1>1, <2>1, ConstAssumption DEF Consumers
<1>3. IsFiniteSet(Messages) /\ Cardinality(Messages) = M
  <2>1. IsFiniteSet(0..(M - 1)) /\ Cardinality(0..(M - 1)) = IF 0 > M - 1 THEN 0 ELSE (M - 1) - 0 + 1
    BY <1>1, FS_Interval
  <2> QED BY <1>1, <2>1, ConstAssumption DEF Messages
<1>4. Cardinality(Consumers \X Messages) = N * M /\ IsFiniteSet(Consumers \X Messages)
  BY <1>2, <1>3, FS_Product
<1> QED BY <1>1, <1>4

\* A set of them is finite.
LEMMA DeliveriesFinite ==
    ASSUME NEW S \in SUBSET (Consumers \X Messages)
    PROVE  IsFiniteSet(S) /\ Cardinality(S) \in Nat
<1>1. IsFiniteSet(S)
  BY Deliveries, FS_Subset
<1> QED BY <1>1, FS_CardinalityType

\* The sets counted are such sets, before and after a step.
LEMMA CountedFinite ==
    /\ TypeOK => received \in SUBSET (Consumers \X Messages) /\ Total \in Nat
    /\ TypeOK' => received' \in SUBSET (Consumers \X Messages) /\ Total' \in Nat
    /\ Missed \in SUBSET (Consumers \X Messages) /\ Cardinality(Missed) \in Nat
    /\ Missed' \in SUBSET (Consumers \X Messages) /\ Cardinality(Missed)' \in Nat
<1>1. Missed \in SUBSET (Consumers \X Messages) /\ Missed' \in SUBSET (Consumers \X Messages)
  BY DEF Missed, Handled
<1>2. Cardinality(Missed) \in Nat /\ Cardinality(Missed') \in Nat
  BY <1>1, DeliveriesFinite
<1>3. TypeOK => received \in SUBSET (Consumers \X Messages) /\ Cardinality(received) \in Nat
  BY DeliveriesFinite DEF TypeOK
<1>4. TypeOK' => received' \in SUBSET (Consumers \X Messages) /\ Cardinality(received') \in Nat
  BY DeliveriesFinite DEF TypeOK
<1> QED BY <1>1, <1>2, <1>3, <1>4 DEF Total

\* What is received stays received, and what is missed stays missed.
LEMMA CountedGrow ==
    ASSUME IInv, [Next]_vars
    PROVE  /\ Total =< Total'
           /\ Cardinality(Missed) =< Cardinality(Missed)'
<1>1. TypeOK /\ TypeOK'
  BY TypeStep DEF IInv
<1>2. received \subseteq received'
  BY ReceivedStep DEF CStoreCnt
<1>3. Missed \subseteq Missed'
  <2>1. Handled \subseteq Handled'
    BY HandledGrows
  <2>2. ASSUME NEW c \in Consumers, CStoreCnt(c) PROVE Missed \subseteq Missed'
    <3>1. received' = received \union {<<c, si[c]>>} /\ <<c, si[c]>> \notin Handled
      BY <2>2, StoreHandles DEF CStoreCnt
    <3> QED BY <2>1, <3>1 DEF Missed
  <2> QED BY <2>1, <2>2, ReceivedStep DEF Missed
<1>4. /\ IsFiniteSet(received) /\ IsFiniteSet(Missed)
      /\ IsFiniteSet(received') /\ IsFiniteSet(Missed')
  BY <1>1, CountedFinite, DeliveriesFinite
<1>5. Cardinality(received) =< Cardinality(received')
  BY <1>2, <1>4, FS_Subset
<1>6. Cardinality(Missed) =< Cardinality(Missed')
  BY <1>3, <1>4, FS_Subset
<1> QED BY <1>5, <1>6 DEF Total

\* A consumer that stores cnt has received one more message.
LEMMA OneMoreReceived ==
    ASSUME IInv, NEW c \in Consumers, CStoreCnt(c)
    PROVE  Total' = Total + 1
<1>1. received' = received \union {<<c, si[c]>>} /\ <<c, si[c]>> \notin received
  BY StoreHandles DEF CStoreCnt, IInv, CountedOnce
<1>2. IsFiniteSet(received)
  BY CountedFinite, DeliveriesFinite DEF IInv
<1>3. Cardinality(received \union {<<c, si[c]>>}) = Cardinality(received) + 1
  BY <1>1, <1>2, FS_AddElement
<1> QED BY <1>1, <1>3 DEF Total

\* A consumer that stores loss_cnt has missed one more.
LEMMA OneMoreMissed ==
    ASSUME IInv, [Next]_vars, NEW c \in Consumers, CStoreLoss(c)
    PROVE  Cardinality(Missed)' >= Cardinality(Missed) + 1
<1> DEFINE p == <<c, si[c]>>
<1>1. received' = received /\ p \in Handled' /\ p \notin Handled
  BY StoreHandles DEF CStoreLoss
<1>2. Handled \subseteq Handled' /\ received \subseteq Handled
  BY HandledGrows DEF IInv, CountedOnce
<1>3. Missed \union {p} \subseteq Missed' /\ p \notin Missed
  BY <1>1, <1>2 DEF Missed
<1>4. IsFiniteSet(Missed) /\ IsFiniteSet(Missed') /\ Cardinality(Missed) \in Nat
  BY CountedFinite, DeliveriesFinite
<1>5. Cardinality(Missed \union {p}) = Cardinality(Missed) + 1
  BY <1>3, <1>4, FS_AddElement
<1>6. Cardinality(Missed \union {p}) =< Cardinality(Missed')
  BY <1>3, <1>4, FS_Subset
<1>7. Cardinality(Missed') \in Nat
  BY <1>4, FS_CardinalityType
<1> QED BY <1>4, <1>5, <1>6, <1>7

\* At the start nothing is counted.
LEMMA InitCounts == Init => Counts
<1> SUFFICES ASSUME Init PROVE Counts
  OBVIOUS
<1>1. Total \in Nat /\ Cardinality(Missed) \in Nat
  BY InitInv, CountedFinite DEF IInv
<1> QED BY <1>1 DEF Init, Counts, None

\* No step raises a counter, or a value that is about to be stored, above what
\* it counts.
LEMMA CountsStep ==
    ASSUME IInv, Counts, [Next]_vars
    PROVE  Counts'
<1>1. /\ Total \in Nat /\ Total' \in Nat /\ Total =< Total'
      /\ Cardinality(Missed) \in Nat /\ Cardinality(Missed)' \in Nat
      /\ Cardinality(Missed) =< Cardinality(Missed)'
  <2>1. TypeOK /\ TypeOK'
    BY TypeStep DEF IInv
  <2>2. Total \in Nat /\ Cardinality(Missed) \in Nat
    BY <2>1, CountedFinite
  <2>3. Total' \in Nat /\ Cardinality(Missed)' \in Nat
    BY <2>1, CountedFinite
  <2> QED BY <2>2, <2>3, CountedGrow
<1>2. /\ counters \in [cnt : Nat, loss_cnt : Nat] /\ report \in Int
      /\ tmp \in [Consumers -> Nat] /\ cpc = [c \in Consumers |-> cpc[c]]
  <2>1. cpc = [c \in Consumers |-> cpc[c]]
    BY DEF IInv, TypeOK
  <2> QED BY <2>1 DEF IInv, TypeOK, None
<1>3. CASE UNCHANGED <<counters, report, tmp, cpc>>
  BY <1>1, <1>2, <1>3 DEF Counts
<1>4. CASE PReport
  BY <1>1, <1>2, <1>4 DEF PReport, consumerVars, Counts
<1>5. ASSUME NEW d \in Consumers, CSigwait(d) \/ CCheck(d) PROVE Counts'
  <2>1. /\ UNCHANGED <<counters, report, tmp>>
        /\ \A c \in Consumers : cpc'[c] = cpc[c] \/ cpc'[c] \notin {"storeCnt", "storeLoss"}
    BY <1>2, <1>5 DEF CSigwait, CCheck, producerVars
  <2> QED BY <1>1, <1>2, <2>1 DEF Counts
<1>6. ASSUME NEW d \in Consumers, CLoad(d) PROVE Counts'
  <2>1. /\ UNCHANGED <<counters, report>>
        /\ \A c \in Consumers : c # d => cpc'[c] = cpc[c] /\ tmp'[c] = tmp[c]
        /\ \/ cpc'[d] = "storeCnt" /\ tmp'[d] = counters.cnt
           \/ cpc'[d] = "storeLoss" /\ tmp'[d] = counters.loss_cnt
    <3>1. /\ cpc[d] \in {"cnt", "loss_cnt"} /\ UNCHANGED <<counters, report>>
          /\ tmp' = [tmp EXCEPT ![d] = counters[cpc[d]]]
          /\ cpc' = [cpc EXCEPT ![d] = IF cpc[d] = "cnt" THEN "storeCnt" ELSE "storeLoss"]
      BY <1>6 DEF CLoad, producerVars
    <3>2. CASE cpc[d] = "cnt"
      BY <1>2, <3>1, <3>2
    <3>3. CASE cpc[d] = "loss_cnt"
      BY <1>2, <3>1, <3>3
    <3> QED BY <3>1, <3>2, <3>3
  <2> QED BY <1>1, <1>2, <2>1 DEF Counts
<1>7. ASSUME NEW d \in Consumers, CStoreCnt(d) PROVE Counts'
  <2>1. /\ UNCHANGED <<report, tmp>> /\ counters' = [counters EXCEPT !.cnt = tmp[d] + 1]
        /\ cpc[d] = "storeCnt"
        /\ \A c \in Consumers : cpc'[c] = cpc[c] \/ cpc'[c] \notin {"storeCnt", "storeLoss"}
    BY <1>2, <1>7 DEF CStoreCnt, AfterStore, producerVars
  <2>2. tmp[d] + 1 =< Total'
    BY <1>1, <1>2, <1>7, <2>1, OneMoreReceived DEF Counts
  <2> QED BY <1>1, <1>2, <2>1, <2>2 DEF Counts
<1>8. ASSUME NEW d \in Consumers, CStoreLoss(d) PROVE Counts'
  <2>1. /\ UNCHANGED <<report, tmp>> /\ counters' = [counters EXCEPT !.loss_cnt = tmp[d] + 1]
        /\ cpc[d] = "storeLoss"
        /\ \A c \in Consumers : cpc'[c] = cpc[c] \/ cpc'[c] \notin {"storeCnt", "storeLoss"}
    BY <1>2, <1>8 DEF CStoreLoss, AfterStore, producerVars
  <2>2. tmp[d] + 1 =< Cardinality(Missed)'
    BY <1>1, <1>2, <1>8, <2>1, OneMoreMissed DEF Counts
  <2> QED BY <1>1, <1>2, <2>1, <2>2 DEF Counts
<1>9. PWrite \/ PSigqueue \/ PWait \/ UNCHANGED vars => UNCHANGED <<counters, report, tmp, cpc>>
  BY DEF PWrite, PSigqueue, PWait, vars, consumerVars
<1> QED
  BY <1>3, <1>4, <1>5, <1>6, <1>7, <1>8, <1>9 DEF Next, ProducerStep, ConsumerStep

\* The unlocked counters lose updates but never claim too much: cnt, and so the
\* report, is at most the number of messages received, loss_cnt at most that of
\* messages not received, whenever the producer happens to read them.
THEOREM NoOverReport == Spec => []NeverOverReports
<1>1. IInv /\ Counts => NeverOverReports
  <2> SUFFICES ASSUME IInv, Counts PROVE counters.loss_cnt =< M * N - Total
    BY DEF NeverOverReports, Counts
  <2>1. /\ IsFiniteSet(received) /\ Total \in Nat
        /\ IsFiniteSet(Missed) /\ Cardinality(Missed) \in Nat
    BY CountedFinite, DeliveriesFinite DEF IInv
  <2>2. received \union Missed \subseteq Consumers \X Messages
    BY DEF IInv, TypeOK, Missed, Handled
  <2>3. received \cap Missed = {}
    BY DEF Missed
  <2>4. Cardinality(received \union Missed) = Total + Cardinality(Missed) - Cardinality({})
    BY <2>1, <2>3, FS_Union DEF Total
  <2>5. Cardinality(received \union Missed) =< M * N
    BY <2>2, Deliveries, FS_Subset
  <2>6. Total + Cardinality(Missed) =< M * N /\ M * N \in Int
    BY <2>1, <2>4, <2>5, FS_EmptySet, ConstAssumption
  <2>7. counters.loss_cnt =< Cardinality(Missed) /\ counters.loss_cnt \in Nat
    BY DEF Counts, IInv, TypeOK
  <2> HIDE DEF Total
  <2> QED BY <2>1, <2>6, <2>7
<1>2. IInv /\ Counts /\ [Next]_vars => Counts'
  BY CountsStep
<1> QED
  BY <1>1, <1>2, InitCounts, Invariance, PTL DEF Spec
=============================================================================
