------------------------------ MODULE JobShell ------------------------------
(***************************************************************************)
(* The shell of HW3: a prompt, builtins, and commands that it waits for     *)
(* unless there is an "&" among their words.  It waits with waitpid(-1),    *)
(* for whichever child ends first.                                          *)
(***************************************************************************)
EXTENDS Processes

CONSTANT JobLines   \* the lines that may be typed, as words and blanks

VARIABLE background \* history: background commands started

jobVars == <<program, typed, background>>

JobShellInit == program = "HW3"

\* strtok() at blanks; no words are NULL.
Parse(line) == SelectSeq(line, LAMBDA token : token # " ")

IsBackground(words) == "&" \in Range(words)
BeforeAmpersand(words) == SubSeq(words, 1, SelectInSeq(words, LAMBDA w : w = "&") - 1)
IsBuiltin(words) == words[1] \in {"exit", "quit", "logout", "bye", "echo"}

\* "echo" and "echo -n" alone follow a null pointer; "-n" with a number past the
\* words, of which "9" is one, exits.
EchoReturns(words) ==
    /\ Len(words) > 1
    /\ words[2] = "-n" => Len(words) > 3 /\ words[3] # "9"

\* fgets, parse: blank lines are skipped.
Fgets ==
    /\ program = "HW3" /\ At(1, "start") /\ typed < MaxTyped
    /\ \E line \in JobLines :
         Becomes(1, [proc[1] EXCEPT !.argv = Parse(line),
                       !.pc = IF Parse(line) = <<>> THEN "start"
                              ELSE IF IsBuiltin(Parse(line)) THEN "do_builtin"
                              ELSE "run_command"], fd[1])
    /\ typed' = typed + 1
    /\ UNCHANGED <<program, background>>

FgetsEof ==
    /\ program = "HW3" /\ At(1, "start")
    /\ Exits(1)
    /\ UNCHANGED jobVars

\* bye, exit, quit, and an echo that cannot write, exit.
DoBuiltin ==
    /\ program = "HW3" /\ At(1, "do_builtin")
    /\ \/ proc[1].argv[1] = "echo" /\ EchoReturns(proc[1].argv) /\ Goes(1, "start")
       \/ Exits(1)
    /\ UNCHANGED jobVars

\* fork(); when it fails the shell exits with errno.
RunCommand ==
    /\ program = "HW3" /\ At(1, "run_command")
    /\ \/ Exits(1) /\ background' = background
       \/ LET bg == IsBackground(proc[1].argv) IN
            /\ Forks(1, [proc[1] EXCEPT !.pc = IF bg THEN "start" ELSE "waitpid", !.argv = <<>>],
                     [proc[1] EXCEPT !.pc = "exec", !.line = typed, !.fg = ~bg], fd[1])
            /\ background' = background + IF bg THEN 1 ELSE 0
    /\ UNCHANGED <<program, typed>>

\* Mutant of Waitpid: the shell returns to its prompt without a child that ended.
WaitpidNohang ==
    /\ program = "HW3" /\ At(1, "waitpid")
    /\ IF \E q \in Pids : At(q, "zombie") /\ proc[q].parent = 1
       THEN \E q \in Pids : Reaps(1, q, "start")
       ELSE Goes(1, "start")
    /\ UNCHANGED jobVars

\* waitpid(-1): any child.
Waitpid ==
    /\ program = "HW3" /\ At(1, "waitpid")
    /\ \E q \in Pids : Reaps(1, q, "start")
    /\ UNCHANGED jobVars

\* The child cuts its words at "&" and becomes the command.
ChildExec(p) ==
    /\ program = "HW3" /\ At(p, "exec")
    /\ Execs(p, IF IsBackground(proc[p].argv) THEN BeforeAmpersand(proc[p].argv)
                ELSE proc[p].argv, fd[p])
    /\ UNCHANGED jobVars
=============================================================================
