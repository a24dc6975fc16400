-------------------------- MODULE ProcessPrograms --------------------------
(***************************************************************************)
(* The programs of JobShell, PipeShell and PipePrograms, one of which runs. *)
(***************************************************************************)
EXTENDS PipePrograms

processVars == <<program, proc, fd, pipe, typed, over, background, input, shown, died>>

ProcessInit ==
    /\ KernelInit /\ background = 0
    /\ input = <<>> /\ shown = <<>> /\ died = FALSE
    /\ JobShellInit \/ PipeShellInit \/ PipeProgramsInit

JobShellStep(p) ==
    \/ p = 1 /\ (Fgets \/ FgetsEof \/ DoBuiltin \/ RunCommand \/ Waitpid)
    \/ ChildExec(p)

PipeShellStep(p) ==
    \/ p = 1 /\ (PFgets \/ PFgetsEof \/ PDoBuiltin \/ PRunCommand \/ PWaitpid)
    \/ Redirect(p) \/ ExecWhole(p) \/ SplitPipe(p) \/ LeftExec(p) \/ RightRedirect(p)

CommandStep(p) == (RunWrite(p) \/ RunRead(p)) /\ UNCHANGED jobVars

UpperStep(p) ==
    \/ /\ p = 1
       /\ \/ UpperStart \/ UpperParentCloses \/ UpperReadStdin \/ UpperWrite
          \/ UpperClose \/ UpperRead \/ UpperShow \/ UpperWait
    \/ UpperChildCloses(p) \/ UpperChildReads(p) \/ UpperChildWrites(p)

PopenStep(p) ==
    \/ p = 1 /\ (PopenFork \/ PopenParent \/ PopenRead \/ PopenFgets \/ PopenWrite
                 \/ Pclose \/ PcloseWaits)
    \/ PopenChild(p)

LsStep(p) == (p = 1 /\ (LsFork \/ LsParent \/ LsRead)) \/ LsChild(p)

Step(p) ==
    /\ Alive(p)
    /\ \/ (JobShellStep(p) \/ PipeShellStep(p) \/ CommandStep(p)) /\ UNCHANGED showVars
       \/ UpperStep(p) \/ PopenStep(p) \/ LsStep(p) \/ (p = 1 /\ MainExits)

ProcessNext == \E p \in Pids : Step(p) \/ ChildDies(p)
ProcessSpec == ProcessInit /\ [][ProcessNext]_processVars

\* The scheduler runs every process.  (Typing is part of the reading process's
\* step: what is stated below holds whenever the user goes on typing, and the
\* bound MaxTyped makes him end his input.)
FairProcessSpec == ProcessSpec /\ \A p \in Pids : WF_processVars(Step(p))
-----------------------------------------------------------------------------
(* Properties *)

Shell == program \in {"HW3", "HW5"}

\* Every variable keeps its type, only existing processes have descriptors, and
\* no pipe is over full.
ProcessTypeOK ==
    /\ program \in {"HW3", "HW5", "44_1", "44_2_r", "44_2_w", "pipe_ls"}
    /\ typed \in 0..MaxTyped /\ over \subseteq 0..MaxTyped /\ background \in 0..MaxTyped
    /\ \A p \in Pids : ~Alive(p) => fd[p] = [e \in Fds |-> Closed]
    /\ \A k \in Pipes : Len(pipe[k]) =< Capacity
    /\ died \in BOOLEAN

\* At its prompt a shell has exactly as many unreaped children as it has started
\* background commands.  HW5 waits for the right one: what is left is the
\* background commands themselves.  HW3 waits for any (run_command.c 36): when a
\* background command is reaped in its place, a foreground one runs on while the
\* next line is read.  waitpid() always finds a child, so that HW3's exit(1)
\* after it (38) never happens.
ChildrenCounted ==
    /\ ProcessTypeOK
    /\ Shell /\ At(1, "start") =>
         /\ Cardinality(Children(1)) = background
         /\ program = "HW5" => \A p \in Children(1) : ~proc[p].fg
    /\ Shell /\ At(1, "waitpid") => Children(1) # {}

Bars(words) == {i \in DOMAIN words : words[i] = "|"}

\* What a line of HW5's shell means to a user of shells, for the lines that the
\* code has the same idea of: no "<" in a line with a pipe or before ">", no ">"
\* before a pipe, files that can be opened, and no "&".
AsWritten(words) ==
    /\ \A i \in DOMAIN words :
         /\ words[i] = "<" => \A j \in DOMAIN words : words[j] # "|" /\ (words[j] = ">" => j < i)
         /\ words[i] = ">" => \A j \in Bars(words) : j < i
    /\ ~Ampersand(words)
    /\ First("<", words) # 0 => FileName("<", words) = "file"

CommandAt(words, stage) ==
    words[1 + Max({0} \union {i \in Bars(words) :
                                Cardinality({j \in Bars(words) : j =< i}) < stage})]

\* Every stage of a pipeline that has been exec'ed is the command written there,
\* reads what the stage before it writes, or the terminal or the file at the
\* ends, and holds no other end of any pipe, whatever the number of stages.
StagesAsWritten ==
    \A p \in Pids : program = "HW5" /\ At(p, "run") =>
      LET words == proc[p].words  stage == proc[p].stage  last == Cardinality(Bars(words)) + 1 IN
      /\ \A e \in Fds \ {0, 1} : fd[p][e] = Closed
      /\ AsWritten(words) =>
           /\ proc[p].argv[1] = CommandAt(words, stage)
           /\ stage = 1 => fd[p][0] = IF First("<", words) # 0 THEN InFile ELSE Tty
           /\ stage = last => fd[p][1] = IF First(">", words) # 0 THEN OutFile ELSE Tty
           /\ stage > 1 => fd[p][0][1] = "r"
           /\ stage < last => fd[p][1][1] = "w"
           /\ \A q \in Pids :
                At(q, "run") /\ proc[q].line = proc[p].line /\ proc[q].stage = stage + 1
                  => fd[q][0][2] = fd[p][1][2]

\* What end of file and SIGPIPE rest on, whatever the line: the ends of a pipe are
\* with the processes of one line only and, of those that have become commands,
\* with the one that writes it and the next, which reads it.
EndsShared ==
    program = "HW5" =>
      \A p, q \in Pids, d, e \in Fds :
        fd[p][d][1] \in {"r", "w"} /\ fd[q][e][1] \in {"r", "w"} /\ fd[p][d][2] = fd[q][e][2] =>
          /\ proc[p].line = proc[q].line
          /\ At(p, "run") /\ At(q, "run") =>
               \/ p = q /\ d = e
               \/ d = 1 /\ e = 0 /\ proc[q].stage = proc[p].stage + 1
               \/ d = 0 /\ e = 1 /\ proc[p].stage = proc[q].stage + 1

\* A pipeline is the commands of its line, connected as they were written
\* (pipe_and_exec), and its pipes are nobody else's.
WiredAsWritten == StagesAsWritten /\ EndsShared

\* As soon as one process of a pipeline has ended, for whatever reason, all the
\* others end too, by end of file to its right and SIGPIPE to its left: no
\* process keeps an end that it does not use.
PipelinesEnd ==
    \A n \in 1..MaxTyped :
        program = "HW5" /\ n \in over ~> \A p \in Pids : Alive(p) => proc[p].line # n

\* 44_1, 44_2 and pipe_ls end, and so do their children, whenever one dies: no
\* read waits for an end of file that never comes, and pclose returns.
PipeProgramsEnd ==
    ~Shell ~> \/ \A p \in Pids : At(p, "none")
              \/ program = "44_2_w" /\ proc[1].words = <<"yes">>

\* What a program shows is what it has to: the text in upper case, or the
\* beginning of what the command wrote.  Only when the child was killed or met a
\* failing call does 44_1 show the text as it was typed, for buf still holds it
\* (44_1.c 95), and does pipe_ls show nothing (as when execvp fails, pipe_ls.c 30).
ShownRight ==
    /\ program = "44_1" /\ ~died /\ shown # <<>> => shown = <<Upper(input[1])>>
    /\ program = "pipe_ls" /\ At(1, "exit") =>
         /\ IsPrefix(shown, Output("ls"))
         /\ shown = <<>> => died
=============================================================================
