----------------------------- MODULE PipeShell -----------------------------
(***************************************************************************)
(* The shell of HW5/part2: HW3's with redirection and pipelines.  The       *)
(* process it forks redirects itself by the words of the whole line, makes  *)
(* a pipe, forks a child that deals with what follows the first "|", and    *)
(* becomes the command in front of it.  Only that process is waited for.    *)
(***************************************************************************)
EXTENDS JobShell

CONSTANT PipeLines   \* the lines that may be typed, as words and blanks

PipeShellInit == program = "HW5"

ParseLine(line) == SelectSeq(line, LAMBDA token : token # " ")

\* Words are strings.
ASSUME LinesAssumption == \A line \in PipeLines : ParseLine(line) \in Seq(STRING)

First(word, words) == SelectInSeq(words, LAMBDA w : w = word)
Ampersand(words) == \E i \in DOMAIN words : words[i] = "&"
BuiltinTable == {"builtin", "echo", "quit", "exit", "bye", "logout", "cd", "pwd", "id", "hostname"}

\* Where a builtin leaves the shell: bi_echo never advances its index, strcmp
\* and chdir are called with a null pointer when the word is missing, and a call
\* that fails exits.
AfterBuiltin(words) ==
    CASE words[1] \in {"quit", "exit", "bye", "logout"} -> {"exit"}
      [] words[1] = "echo" -> IF Len(words) > 1 THEN {"echoes_for_ever", "exit"} ELSE {"start"}
      [] words[1] \in {"builtin", "cd"} -> IF Len(words) > 1 THEN {"start", "exit"} ELSE {"exit"}
      [] OTHER -> {"start", "exit"}

PFgets ==
    /\ program = "HW5" /\ At(1, "start") /\ typed < MaxTyped
    /\ \E line \in PipeLines : LET words == ParseLine(line) IN
         Becomes(1, [proc[1] EXCEPT !.argv = words,
                       !.pc = IF words = <<>> THEN "start"
                              ELSE IF words[1] \in BuiltinTable THEN "do_builtin"
                              ELSE "run_command"], fd[1])
    /\ typed' = typed + 1
    /\ UNCHANGED <<program, background>>

PFgetsEof ==
    /\ program = "HW5" /\ At(1, "start")
    /\ Exits(1)
    /\ UNCHANGED jobVars

PDoBuiltin ==
    /\ program = "HW5" /\ At(1, "do_builtin")
    /\ \E c \in AfterBuiltin(proc[1].argv) : IF c = "exit" THEN Exits(1) ELSE Goes(1, c)
    /\ UNCHANGED jobVars

\* The words of a background command keep their "&".
PRunCommand ==
    /\ program = "HW5" /\ At(1, "run_command")
    /\ \/ Exits(1) /\ background' = background
       \/ LET bg == Ampersand(proc[1].argv) IN
            /\ Forks(1, [proc[1] EXCEPT !.pc = IF bg THEN "start" ELSE "waitpid",
                                        !.argv = <<>>],
                     [proc[1] EXCEPT !.pc = "redirect", !.line = typed, !.fg = ~bg,
                                     !.stage = 1, !.words = proc[1].argv], fd[1])
            /\ background' = background + IF bg THEN 1 ELSE 0
    /\ UNCHANGED <<program, typed>>

\* Mutant of PWaitpid: any child, as in HW3.
PWaitpidAny ==
    /\ program = "HW5" /\ At(1, "waitpid")
    /\ \E q \in Pids : Reaps(1, q, "start")
    /\ UNCHANGED jobVars

\* waitpid(pid): the child just forked, the only one of the latest line.
PWaitpid ==
    /\ program = "HW5" /\ At(1, "waitpid")
    /\ \E q \in Pids : proc[q].line = typed /\ Reaps(1, q, "start")
    /\ UNCHANGED jobVars
-----------------------------------------------------------------------------
(* The child *)

\* Words before the first w, all if there is none.
Before(w, words) == IF First(w, words) = 0 THEN words ELSE SubSeq(words, 1, First(w, words) - 1)
FileName(w, words) == IF First(w, words) \in {0, Len(words)} THEN ""
                      ELSE words[First(w, words) + 1]

\* redirect_in: a file that cannot be opened leaves standard input as it is.
\* What follows "<" is cut off.
RedirectIn(words, f) == IF FileName("<", words) = "file" THEN [f EXCEPT ![0] = InFile] ELSE f

\* redirect_out, of what redirect_in has left.
RedirectOut(words, f) == IF First(">", words) # 0 THEN [f EXCEPT ![1] = OutFile] ELSE f

\* redirect_out exits when the file after ">" is not named or cannot be opened.
Redirect(p) ==
    /\ program = "HW5" /\ At(p, "redirect")
    /\ LET words == Before("<", proc[p].argv) IN
         \/ First(">", words) # 0 /\ Exits(p)
         \/ /\ First(">", words) # 0 => FileName(">", words) # ""
            /\ Becomes(p, [proc[p] EXCEPT !.pc = "pipe_and_exec", !.argv = Before(">", words)],
                       RedirectOut(words, RedirectIn(proc[p].argv, fd[p])))
    /\ UNCHANGED jobVars

\* The place of the first "|"; 0: none; -1: it is the first or the last word.
pipe_present(words) ==
    IF First("|", words) = 0 THEN 0
    ELSE IF First("|", words) \in {1, Len(words)} THEN 0 - 1 ELSE First("|", words)

ExecWhole(p) ==
    /\ program = "HW5" /\ At(p, "pipe_and_exec") /\ pipe_present(proc[p].argv) =< 0
    /\ IF pipe_present(proc[p].argv) = 0 THEN Execs(p, proc[p].argv, fd[p]) ELSE Exits(p)
    /\ UNCHANGED jobVars

\* pipe() and fork(); when one fails the process exits.
SplitPipe(p) ==
    /\ program = "HW5" /\ At(p, "pipe_and_exec") /\ pipe_present(proc[p].argv) > 0
    /\ \/ Exits(p)
       \/ /\ FreePipes # {}
          /\ Forks(p, [proc[p] EXCEPT !.pc = "left"],
                   [proc[p] EXCEPT !.pc = "right", !.stage = @ + 1],
                   WithPipe(fd[p], 3, 4, Min(FreePipes)))
    /\ UNCHANGED jobVars

\* Mutant of LeftExec: close(pipefds[0]) is missing.
LeftExecKeepsReadEnd(p) ==
    /\ program = "HW5" /\ At(p, "left")
    /\ Execs(p, SubSeq(proc[p].argv, 1, pipe_present(proc[p].argv) - 1),
             Close(Dup2(fd[p], 4, 1), {4}))
    /\ UNCHANGED jobVars

LeftExec(p) ==
    /\ program = "HW5" /\ At(p, "left")
    /\ Execs(p, SubSeq(proc[p].argv, 1, pipe_present(proc[p].argv) - 1),
             Close(Dup2(fd[p], 4, 1), {3, 4}))
    /\ UNCHANGED jobVars

\* Mutant of RightRedirect: the pipe becomes standard input only at the end.
RightRedirectKeepsInput(p) ==
    /\ program = "HW5" /\ At(p, "right")
    /\ Becomes(p, [proc[p] EXCEPT !.pc = "pipe_and_exec",
                     !.argv = SubSeq(@, pipe_present(@) + 1, Len(@))],
               Close(IF proc[p].stage > 2 THEN fd[p] ELSE Dup2(fd[p], 3, 0), {3, 4}))
    /\ UNCHANGED jobVars

RightRedirect(p) ==
    /\ program = "HW5" /\ At(p, "right")
    /\ Becomes(p, [proc[p] EXCEPT !.pc = "pipe_and_exec",
                     !.argv = SubSeq(@, pipe_present(@) + 1, Len(@))],
               Close(Dup2(fd[p], 3, 0), {3, 4}))
    /\ UNCHANGED jobVars
=============================================================================
