----------------------------- MODULE Processes -----------------------------
(***************************************************************************)
(* What the shells of HW3 and HW5/part2, the programs of HW6 and HW5/part1's *)
(* pipe_ls share: processes with descriptors, bounded pipes, fork, exec,    *)
(* exit and wait, and the programs that they start.  All of it is the       *)
(* kernel, or other programs; what the code does is in the modules that     *)
(* extend this one.  Process 1 is the program itself, 0 is init.            *)
(***************************************************************************)
EXTENDS Naturals, Sequences, FiniteSets, SequencesExt, FiniteSetsExt

CONSTANTS MaxPid,     \* processes there may be
          MaxPipes,   \* pipes there may be
          Capacity,   \* chunks a pipe holds
          MaxTyped    \* bound: lines typed

ASSUME KernelAssumption ==
    /\ MaxPid \in Nat \ {0} /\ MaxPipes \in Nat
    /\ Capacity \in Nat \ {0} /\ MaxTyped \in Nat

VARIABLES program,   \* the program that process 1 runs
          proc,      \* every process: next call, parent, words, ...
          fd,        \* every process: what each descriptor refers to
          pipe,      \* every pipe: the chunks in it
          typed,     \* lines read from the terminal
          over       \* history: lines of which a process has ended

Pids == 1..MaxPid
Pipes == 1..MaxPipes
Fds == {0, 1} \union 3..6     \* standard error is left out
Closed == <<"closed", 0>>
Tty == <<"tty", 0>>
InFile == <<"in", 0>>
OutFile == <<"out", 0>>
Terminal == [e \in Fds |-> IF e =< 1 THEN Tty ELSE Closed]

\* does, held: an exec'ed program and the chunks it has to write;
\* line, words, stage, fg: history, the line of a shell that it belongs to.
NoProc == [pc |-> "none", parent |-> 0, argv |-> <<>>, does |-> "", held |-> <<>>,
           line |-> 0, words |-> <<>>, stage |-> 0, fg |-> FALSE]

At(p, c) == proc[p].pc = c
Alive(p) == proc[p].pc \notin {"none", "zombie"}
Children(p) == {q \in Pids : ~At(q, "none") /\ proc[q].parent = p}
\* The pid of the program itself is not given out again.
FreePids == {p \in Pids \ {1} : At(p, "none")}
Held(k, f) == \E p \in Pids, e \in Fds : f[p][e] \in {<<"r", k>>, <<"w", k>>}
FreePipes == {k \in Pipes : ~Held(k, fd)}

KernelInit ==
    /\ proc = [p \in Pids |-> IF p = 1 THEN [NoProc EXCEPT !.pc = "start"] ELSE NoProc]
    /\ fd = [p \in Pids |-> [e \in Fds |-> IF p = 1 THEN Terminal[e] ELSE Closed]]
    /\ pipe = [k \in Pipes |-> <<>>] /\ typed = 0 /\ over = {}
-----------------------------------------------------------------------------
(* Changes of the kernel's state; each says what becomes of the four       *)
(* variables proc, fd, pipe, over.                                         *)

\* What is in a pipe that nobody holds is gone.
SetFds(f) ==
    /\ fd' = f
    /\ pipe' = [k \in Pipes |-> IF Held(k, fd') THEN pipe[k] ELSE <<>>]

\* Process p goes on as r, with descriptors f.
Becomes(p, r, f) ==
    /\ proc' = [proc EXCEPT ![p] = r] /\ SetFds([fd EXCEPT ![p] = f]) /\ over' = over

Goes(p, c) == Becomes(p, [proc[p] EXCEPT !.pc = c], fd[p])

\* Process p goes on as r and its new child as s; both have descriptors f.
Forks(p, r, s, f) ==
    LET child == Min(FreePids) IN
    /\ FreePids # {}
    /\ proc' = [proc EXCEPT ![p] = r, ![child] = [s EXCEPT !.parent = p]]
    /\ SetFds([fd EXCEPT ![p] = f, ![child] = f]) /\ over' = over

\* exit, or the default action of a signal: children go to init, which reaps.
Exits(p) ==
    /\ proc' = [q \in Pids |->
         IF q = p THEN IF proc[p].parent = 0 THEN NoProc
                       ELSE [NoProc EXCEPT !.pc = "zombie", !.parent = proc[p].parent,
                                           !.line = proc[p].line, !.fg = proc[p].fg]
         ELSE IF proc[q].parent # p THEN proc[q]
         ELSE IF At(q, "zombie") THEN NoProc
         ELSE [proc[q] EXCEPT !.parent = 0]]
    /\ SetFds([fd EXCEPT ![p] = [e \in Fds |-> Closed]])
    /\ over' = over \union {proc[p].line}

\* wait() of p for its child q, which has ended.
Reaps(p, q, c) ==
    /\ At(q, "zombie") /\ proc[q].parent = p
    /\ proc' = [proc EXCEPT ![p].pc = c, ![q] = NoProc]
    /\ UNCHANGED <<fd, pipe, over>>

WithPipe(f, r, w, k) == [f EXCEPT ![r] = <<"r", k>>, ![w] = <<"w", k>>]
Close(f, E) == [e \in Fds |-> IF e \in E THEN Closed ELSE f[e]]
Dup2(f, old, new) == [f EXCEPT ![new] = f[old]]

\* read and write on an open file o.
HasData(o) == o[1] = "r" /\ pipe[o[2]] # <<>>
AtEof(o) == o[1] = "r" => pipe[o[2]] = <<>> /\ \A p \in Pids, e \in Fds :
                                                 fd[p][e] # <<"w", o[2]>>
Broken(o) == \/ o = Closed
             \/ o[1] = "w" /\ \A p \in Pids, e \in Fds : fd[p][e] # <<"r", o[2]>>
HasRoom(o) == ~Broken(o) /\ (o[1] = "w" => Len(pipe[o[2]]) < Capacity)

\* Process p goes on as r, with a chunk put to or n chunks taken from o.
Puts(p, r, o, x) ==
    /\ proc' = [proc EXCEPT ![p] = r]
    /\ pipe' = IF o[1] = "w" THEN [pipe EXCEPT ![o[2]] = Append(@, x)] ELSE pipe
    /\ UNCHANGED <<fd, over>>
Takes(p, r, o, n) ==
    /\ proc' = [proc EXCEPT ![p] = r]
    /\ pipe' = [pipe EXCEPT ![o[2]] = SubSeq(@, n + 1, Len(@))]
    /\ UNCHANGED <<fd, over>>
-----------------------------------------------------------------------------
(* Other programs: cat copies to the end of its input, head copies one      *)
(* chunk, ls writes two chunks, yes writes for ever.                        *)

Commands == {"cat", "head", "ls", "yes"}
Output(command) == [cat |-> <<>>, head |-> <<>>, ls |-> <<"a", "b">>, yes |-> <<"y">>][command]

\* execvp of words by p, with descriptors f; the caller exits when it fails, for
\* want of such a command or for another reason.
Execs(p, words, f) ==
    \/ /\ words # <<>> /\ words[1] \in Commands
       /\ Becomes(p, [proc[p] EXCEPT !.pc = "run", !.argv = words, !.does = words[1],
                                     !.held = Output(words[1])], f)
    \/ Exits(p)

RunWrite(p) ==
    /\ At(p, "run") /\ proc[p].held # <<>>
    /\ \/ Broken(fd[p][1]) /\ Exits(p)
       \/ /\ HasRoom(fd[p][1])
          /\ Puts(p, [proc[p] EXCEPT !.held = IF proc[p].does = "yes" THEN @ ELSE Tail(@)],
                  fd[p][1], Head(proc[p].held))

\* The terminal and the file are read as empty.
RunRead(p) ==
    /\ At(p, "run") /\ proc[p].held = <<>>
    /\ \/ (proc[p].does = "ls" \/ AtEof(fd[p][0])) /\ Exits(p)
       \/ /\ proc[p].does # "ls" /\ HasData(fd[p][0])
          /\ Takes(p, [proc[p] EXCEPT !.held = <<Head(pipe[fd[p][0][2]])>>,
                                      !.does = IF @ = "head" THEN "ls" ELSE @],
                   fd[p][0], 1)
=============================================================================
