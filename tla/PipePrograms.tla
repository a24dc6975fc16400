---------------------------- MODULE PipePrograms ----------------------------
(***************************************************************************)
(* HW6/44_1 (a child that turns the parent's text into upper case, over two *)
(* pipes), HW6/44_2 (popen and pclose, one command and one direction) and    *)
(* HW5/part1/pipe_ls.  A text is a chunk, read and written as one piece.     *)
(***************************************************************************)
EXTENDS PipeShell

VARIABLES input,    \* history: the latest text typed
          shown,    \* history: what the program wrote to the terminal
          died      \* history: a child was ended by a signal or a failing call

showVars == <<input, shown, died>>

Text == {"a", "b"}
Upper(x) == [a |-> "A", b |-> "B"][x]

PipeProgramsInit ==
    /\ program \in {"44_1", "44_2_r", "44_2_w", "pipe_ls"}

Popen == program \in {"44_2_r", "44_2_w"}
In44_1(p, c) == program = "44_1" /\ At(p, c)
-----------------------------------------------------------------------------
(* 44_1: descriptors 3, 4 are pfd_1 and 5, 6 are pfd_2; held is buf. *)

UpperStart ==
    /\ In44_1(1, "start")
    /\ \/ Exits(1)
       \/ \E j, k \in FreePipes : j < k /\
            Forks(1, [proc[1] EXCEPT !.pc = "close_unused"],
                  [NoProc EXCEPT !.pc = "child"],
                  WithPipe(WithPipe(fd[1], 3, 4, j), 5, 6, k))
    /\ UNCHANGED <<jobVars, showVars>>

UpperParentCloses ==
    /\ In44_1(1, "close_unused")
    /\ Becomes(1, [proc[1] EXCEPT !.pc = "read_stdin"], Close(fd[1], {3, 6}))
    /\ UNCHANGED <<jobVars, showVars>>

\* End of file leaves buf empty.
UpperReadStdin ==
    /\ In44_1(1, "read_stdin")
    /\ \E text \in {<<x>> : x \in Text} \union {<<>>} :
         /\ Goes(1, "write") /\ input' = text
    /\ UNCHANGED <<jobVars, shown, died>>

UpperWrite ==
    /\ In44_1(1, "write")
    /\ IF input = <<>> THEN Goes(1, "close")
       ELSE \/ Broken(fd[1][4]) /\ Exits(1)
            \/ HasRoom(fd[1][4]) /\ Puts(1, [proc[1] EXCEPT !.pc = "close", !.held = input],
                                         fd[1][4], Head(input))
    /\ UNCHANGED <<jobVars, showVars>>

UpperClose ==
    /\ In44_1(1, "close")
    /\ Becomes(1, [proc[1] EXCEPT !.pc = "read"], Close(fd[1], {4}))
    /\ UNCHANGED <<jobVars, showVars>>

\* One read; at end of file buf still holds what was typed.
UpperRead ==
    /\ In44_1(1, "read")
    /\ \/ AtEof(fd[1][5]) /\ Goes(1, "show")
       \/ /\ HasData(fd[1][5])
          /\ Takes(1, [proc[1] EXCEPT !.pc = "show", !.held = pipe[fd[1][5][2]]],
                   fd[1][5], Len(pipe[fd[1][5][2]]))
    /\ UNCHANGED <<jobVars, showVars>>

UpperShow ==
    /\ In44_1(1, "show")
    /\ Becomes(1, [proc[1] EXCEPT !.pc = "wait"], Close(fd[1], {5}))
    /\ shown' = proc[1].held
    /\ UNCHANGED <<jobVars, input, died>>

UpperWait ==
    /\ In44_1(1, "wait")
    /\ \E q \in Pids : Reaps(1, q, "exit")
    /\ UNCHANGED <<jobVars, showVars>>

\* Mutant of UpperChildCloses: the wrong end of pfd_2.
UpperChildClosesWrite(p) ==
    /\ In44_1(p, "child")
    /\ Becomes(p, [proc[p] EXCEPT !.pc = "copy"], Close(fd[p], {4, 6}))
    /\ UNCHANGED <<jobVars, showVars>>

UpperChildCloses(p) ==
    /\ In44_1(p, "child")
    /\ Becomes(p, [proc[p] EXCEPT !.pc = "copy"], Close(fd[p], {4, 5}))
    /\ UNCHANGED <<jobVars, showVars>>

UpperChildReads(p) ==
    /\ In44_1(p, "copy") /\ proc[p].held = <<>>
    /\ \/ AtEof(fd[p][3]) /\ Exits(p)
       \/ /\ HasData(fd[p][3])
          /\ Takes(p, [proc[p] EXCEPT !.held = <<Upper(Head(pipe[fd[p][3][2]]))>>], fd[p][3], 1)
    /\ UNCHANGED <<jobVars, showVars>>

UpperChildWrites(p) ==
    /\ In44_1(p, "copy") /\ proc[p].held # <<>>
    /\ \/ Broken(fd[p][6]) /\ Exits(p)
       \/ HasRoom(fd[p][6]) /\ Puts(p, [proc[p] EXCEPT !.held = <<>>], fd[p][6],
                                    Head(proc[p].held))
    /\ UNCHANGED <<jobVars, showVars>>
-----------------------------------------------------------------------------
(* 44_2: the command is in words of process 1, its pid in fd_array is the   *)
(* only child.                                                              *)

\* my_popen up to fork; NULL when pipe or fork fails.
PopenFork ==
    /\ Popen /\ At(1, "start")
    /\ \/ Exits(1)
       \/ \E command \in Commands \union {"nosuch"}, k \in FreePipes :
            /\ k = Min(FreePipes)
            /\ Forks(1, [proc[1] EXCEPT !.pc = "my_popen", !.words = <<command>>],
                     [NoProc EXCEPT !.pc = "popen_child", !.argv = <<command>>],
                     WithPipe(fd[1], 3, 4, k))
    /\ UNCHANGED <<jobVars, showVars>>

PopenParent ==
    /\ Popen /\ At(1, "my_popen")
    /\ Becomes(1, [proc[1] EXCEPT !.pc = IF program = "44_2_r" THEN "read" ELSE "fgets"],
               Close(fd[1], IF program = "44_2_r" THEN {4} ELSE {3}))
    /\ UNCHANGED <<jobVars, showVars>>

\* Mutant of PopenChild: the child that reads keeps the end it does not use.
PopenChildKeepsEnd(p) ==
    /\ Popen /\ At(p, "popen_child")
    /\ Execs(p, proc[p].argv, IF program = "44_2_r" THEN Close(Dup2(fd[p], 4, 1), {3, 4})
                              ELSE Close(Dup2(fd[p], 3, 0), {3}))
    /\ UNCHANGED <<jobVars, showVars>>

\* The shell that runs the command is taken to be the command.
PopenChild(p) ==
    /\ Popen /\ At(p, "popen_child")
    /\ Execs(p, proc[p].argv, IF program = "44_2_r" THEN Close(Dup2(fd[p], 4, 1), {3, 4})
                              ELSE Close(Dup2(fd[p], 3, 0), {3, 4}))
    /\ UNCHANGED <<jobVars, showVars>>

\* One read, which takes a chunk or several.
PopenRead ==
    /\ program = "44_2_r" /\ At(1, "read")
    /\ LET o == fd[1][3] IN
         \/ AtEof(o) /\ Goes(1, "my_pclose") /\ shown' = shown
         \/ /\ HasData(o)
            /\ \E n \in 1..Len(pipe[o[2]]) :
                 /\ Takes(1, [proc[1] EXCEPT !.pc = "my_pclose"], o, n)
                 /\ shown' = SubSeq(pipe[o[2]], 1, n)
    /\ UNCHANGED <<jobVars, input, died>>

PopenFgets ==
    /\ program = "44_2_w" /\ At(1, "fgets")
    /\ \/ Goes(1, "my_pclose") /\ UNCHANGED <<typed, input>>
       \/ /\ typed < MaxTyped /\ Goes(1, "write") /\ typed' = typed + 1
          /\ \E x \in Text : input' = <<x>>
    /\ UNCHANGED <<program, background, shown, died>>

PopenWrite ==
    /\ program = "44_2_w" /\ At(1, "write")
    /\ \/ Broken(fd[1][4]) /\ Exits(1)
       \/ HasRoom(fd[1][4]) /\ Puts(1, [proc[1] EXCEPT !.pc = "fgets"], fd[1][4], Head(input))
    /\ UNCHANGED <<jobVars, showVars>>

Pclose ==
    /\ Popen /\ At(1, "my_pclose")
    /\ Becomes(1, [proc[1] EXCEPT !.pc = "waitpid"], Close(fd[1], {3, 4}))
    /\ UNCHANGED <<jobVars, showVars>>

PcloseWaits ==
    /\ Popen /\ At(1, "waitpid")
    /\ \E q \in Pids : Reaps(1, q, "exit")
    /\ UNCHANGED <<jobVars, showVars>>
-----------------------------------------------------------------------------
(* pipe_ls *)

LsFork ==
    /\ program = "pipe_ls" /\ At(1, "start")
    /\ \/ Exits(1)
       \/ /\ FreePipes # {}
          /\ Forks(1, [proc[1] EXCEPT !.pc = "close"], [NoProc EXCEPT !.pc = "ls"],
                   WithPipe(fd[1], 3, 4, Min(FreePipes)))
    /\ UNCHANGED <<jobVars, showVars>>

\* close(pd[0]), close(1), dup(pd[1]): pd[1] stays open next to its copy.
\* When execvp fails the child exits, and has written nothing.
LsChild(p) ==
    /\ program = "pipe_ls" /\ At(p, "ls")
    /\ Execs(p, <<"ls">>, Close(Dup2(fd[p], 4, 1), {3}))
    /\ died' = (died \/ ~Alive(p)')
    /\ UNCHANGED <<jobVars, input, shown>>

\* Mutant of LsParent: close(pd[1]) comes after the read.
LsParentKeepsEnd ==
    /\ program = "pipe_ls" /\ At(1, "close")
    /\ Goes(1, "read")
    /\ UNCHANGED <<jobVars, showVars>>

LsParent ==
    /\ program = "pipe_ls" /\ At(1, "close")
    /\ Becomes(1, [proc[1] EXCEPT !.pc = "read"], Close(fd[1], {4}))
    /\ UNCHANGED <<jobVars, showVars>>

\* One read, then the program ends and leaves ls to init.
LsRead ==
    /\ program = "pipe_ls" /\ At(1, "read")
    /\ LET o == fd[1][3] IN
         \/ AtEof(o) /\ Goes(1, "exit") /\ shown' = shown
         \/ /\ HasData(o)
            /\ \E n \in 1..Len(pipe[o[2]]) :
                 /\ Takes(1, [proc[1] EXCEPT !.pc = "exit"], o, n)
                 /\ shown' = SubSeq(pipe[o[2]], 1, n)
    /\ UNCHANGED <<jobVars, input, died>>
-----------------------------------------------------------------------------
MainExits ==
    /\ program \notin {"HW3", "HW5"} /\ At(1, "exit")
    /\ Exits(1)
    /\ UNCHANGED <<jobVars, showVars>>

\* A signal from outside, or a call that fails, ends a child at any moment.
ChildDies(p) ==
    /\ p # 1 /\ Alive(p)
    /\ Exits(p) /\ died' = TRUE
    /\ UNCHANGED <<jobVars, input, shown>>
=============================================================================
