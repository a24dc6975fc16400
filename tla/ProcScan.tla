----------------------------- MODULE ProcScan -----------------------------
(***************************************************************************)
(* HW4: three programs that read all of /proc while processes come and go.  *)
(* 12_1 lists the processes of a user, 12_2 draws the tree of all, and 12_3  *)
(* lists those that have a file open.  Entries -1 and 0 are /proc/self and   *)
(* /proc/thread-self; what else there is has no status file.  readdir()     *)
(* buffers entries, and the status file of a process that has ended cannot  *)
(* be opened, nor read by who has it open.                                  *)
(***************************************************************************)
EXTENDS Integers, Sequences, FiniteSets, FiniteSetsExt, SequencesExt

CONSTANTS MaxPid,     \* bound: largest pid
          Me,         \* pid of the program
          Block,      \* entries that one getdents() returns
          Limits,     \* limits on descriptors (RLIMIT_NOFILE)
          MaxForks    \* bound: processes that begin during the scan

ASSUME ScanAssumption ==
    /\ MaxPid \in Nat /\ Me \in 2..MaxPid /\ Block \in Nat \ {0}
    /\ Limits \subseteq Nat /\ \A n \in Limits : n >= 6
    /\ \E n \in Limits : \A m \in Limits : n >= m
    /\ MaxForks \in Nat

VARIABLES lister, next,           \* the program and its next call
          born, ppid, uid, files, \* kernel: each pid's birth (0: no process), parent, ...
          births, ended, closed,  \* history: forks, pids that ended, a file was closed
          reused, full,           \* history: a pid was reused, descriptors ran out
          rest, last,             \* entries readdir() holds, last one that was read
          entry, opened, left,    \* entry under way: its process, descriptors to look at
          fds, nofile, status_fd, \* descriptor table and its limit; 12_1's status_fd
          list_root, shown        \* 12_2's list; entries printed

processes == <<born, ppid, uid, files, births, ended, closed, reused>>
directory == <<rest, last, entry>>
descriptors == <<fds, nofile, status_fd, full>>
scanVars == <<lister, next, processes, directory, opened, left, descriptors, list_root, shown>>

Pids == 1..MaxPid
Entries == -1..MaxPid
Target(e) == IF e =< 0 THEN Me ELSE e
Lives(p) == born[p] # 0
Gone == born[Target(entry)] # opened
Fds == 0..(Max(Limits) - 1)
FreeFds == {f \in Fds : f < nofile /\ fds[f] = "free"}
TakeFd(use) == FreeFds # {} /\ fds' = [fds EXCEPT ![Min(FreeFds)] = use]
Scanning == next \notin {"done", "failed"}

\* 12_1 compares only as many digits of the uid as the user's has (110): "user" is
\* anyone whose number begins like that.
Uids == {"user", "root"}
Descriptors == {"the file", "another"}

NothingRead ==
    /\ births = 0 /\ ended = {} /\ closed = FALSE /\ reused = FALSE /\ full = FALSE
    /\ rest = {} /\ last = -2 /\ entry = -1 /\ opened = 0 /\ left = {}
    /\ fds = [f \in Fds |-> IF f =< 2 THEN "std" ELSE IF f = 3 THEN "proc" ELSE "free"]
    /\ list_root = <<>> /\ shown = {}

\* opendir() has succeeded.  12_1's status_fd (24) is never set: any number may be
\* in it, -1 stands for those that are never open.  What a program does not look
\* at is the same in all initial states.
ScanInit ==
    /\ NothingRead
    /\ lister \in {"12_1", "12_2", "12_3"} /\ next = "readdir"
    /\ born \in [Pids -> {0, 1}] /\ born[1] = 1 /\ born[Me] = 1
    /\ ppid \in [Pids -> 0..MaxPid] /\ ppid[1] = 0
    /\ \A p \in Pids \ {1} :
         \/ ppid[p] = 1
         \/ /\ lister = "12_2" /\ Lives(p) /\ ppid[p] \in Pids \ {1, p}
            /\ Lives(ppid[p]) /\ ppid[ppid[p]] = 1
    /\ uid \in [Pids -> IF lister = "12_2" THEN {"root"} ELSE Uids] /\ uid[1] = "root"
    /\ files \in [Pids -> IF lister = "12_3" THEN SUBSET Descriptors ELSE {{}}]
    /\ files[1] = {} /\ (lister = "12_3" => "another" \in files[Me])
    /\ \A p \in Pids : ~Lives(p) => uid[p] = "root" /\ files[p] = {}
    /\ nofile \in IF lister = "12_3" THEN {Max(Limits)} ELSE Limits
    /\ status_fd \in IF lister = "12_1" THEN {-1} \union Fds ELSE {-1}

\* No program reads /proc.
ScanIdle ==
    /\ NothingRead
    /\ lister = "none" /\ next = "done"
    /\ born = [p \in Pids |-> 0] /\ ppid = [p \in Pids |-> 0]
    /\ uid = [p \in Pids |-> "root"] /\ files = [p \in Pids |-> {}]
    /\ nofile = Max(Limits) /\ status_fd = -1
-----------------------------------------------------------------------------
(* Other processes *)

ForkProcess(p) ==
    /\ Scanning /\ Lives(p) /\ p # Me /\ births < MaxForks
    /\ births' = births + 1
    /\ \E q \in Pids :
         /\ ~Lives(q)
         /\ born' = [born EXCEPT ![q] = births + 2]
         /\ ppid' = [ppid EXCEPT ![q] = p]
         /\ uid' = [uid EXCEPT ![q] = uid[p]] /\ files' = [files EXCEPT ![q] = files[p]]
         /\ reused' = (reused \/ q \in ended)
    /\ UNCHANGED <<lister, next, ended, closed, directory, opened, left, descriptors,
                   list_root, shown>>

\* A process ends and is waited for; init takes its children.
EndProcess(p) ==
    /\ Scanning /\ Lives(p) /\ p \notin {1, Me}
    /\ born' = [born EXCEPT ![p] = 0] /\ files' = [files EXCEPT ![p] = {}]
    /\ ppid' = [q \in Pids |-> IF ppid[q] = p \/ q = p THEN 1 ELSE ppid[q]]
    /\ uid' = [uid EXCEPT ![p] = "root"]
    /\ ended' = ended \union {p}
    /\ UNCHANGED <<lister, next, births, closed, reused, directory, opened, left,
                   descriptors, list_root, shown>>

CloseFile(p) ==
    /\ Scanning /\ p # Me
    /\ \E d \in files[p] : files' = [files EXCEPT ![p] = @ \ {d}]
    /\ closed' = TRUE
    /\ UNCHANGED <<lister, next, born, ppid, uid, births, ended, reused, directory, opened,
                   left, descriptors, list_root, shown>>
-----------------------------------------------------------------------------
(* readdir() of /proc *)

ToCome == {e \in Entries : e > last /\ Lives(Target(e))}

\* The next entries are read, those that there are by now.
Getdents ==
    /\ next = "readdir" /\ rest = {} /\ fds[3] = "proc" /\ ToCome # {}
    /\ rest' = {e \in ToCome : Cardinality({x \in ToCome : x < e}) < Block}
    /\ last' = Max(rest')
    /\ UNCHANGED <<lister, next, processes, entry, opened, left, descriptors, list_root, shown>>

\* NULL also when descriptor 3 is not the directory any more.
EndOfDir ==
    /\ next = "readdir" /\ rest = {} /\ (fds[3] # "proc" \/ ToCome = {})
    /\ next' = IF lister = "12_2" THEN "build_pstree" ELSE "closedir"
    /\ UNCHANGED <<lister, processes, directory, opened, left, descriptors, list_root, shown>>

Readdir ==
    /\ next = "readdir" /\ rest # {}
    /\ entry' = Min(rest) /\ rest' = rest \ {entry'}
    /\ next' = IF lister = "12_1" THEN "fopen" ELSE "open"
    /\ UNCHANGED <<lister, processes, last, opened, left, descriptors, list_root, shown>>

Closedir ==
    /\ next = "closedir"
    /\ next' = IF fds[3] = "free" THEN "failed" ELSE "done"
    /\ UNCHANGED <<lister, processes, directory, opened, left, descriptors, list_root, shown>>
-----------------------------------------------------------------------------
(* 12_1 *)

\* The FILE is never closed; when it cannot be opened the entry is left out.
Fopen ==
    /\ next = "fopen"
    /\ \/ /\ Lives(Target(entry)) /\ TakeFd("status")
          /\ opened' = born[Target(entry)] /\ next' = "fgets" /\ UNCHANGED full
       \/ /\ ~Lives(Target(entry)) \/ FreeFds = {}
          /\ full' = (full \/ FreeFds = {}) /\ next' = "readdir" /\ UNCHANGED <<fds, opened>>
    /\ UNCHANGED <<lister, processes, directory, left, nofile, status_fd, list_root, shown>>

\* The first fgets() reads all that matters; the user's number is compared.
Fgets ==
    /\ next = "fgets"
    /\ next' = IF ~Gone /\ uid[Target(entry)] = "user" THEN "write" ELSE "readdir"
    /\ UNCHANGED <<lister, processes, directory, opened, left, descriptors, list_root, shown>>

\* Prints, and closes whatever number is in status_fd.
WriteAndClose ==
    /\ next = "write"
    /\ IF fds[1] # "std" THEN next' = "failed" /\ UNCHANGED <<fds, shown>>
       ELSE /\ shown' = shown \union {entry}
            /\ IF status_fd \in Fds /\ fds[status_fd] # "free"
               THEN next' = "readdir" /\ fds' = [fds EXCEPT ![status_fd] = "free"]
               ELSE next' = "failed" /\ UNCHANGED fds
    /\ UNCHANGED <<lister, processes, directory, opened, left, nofile, status_fd, full, list_root>>
-----------------------------------------------------------------------------
(* 12_2 and 12_3 *)

\* ENOENT is skipped, EMFILE ends the program.
OpenStatus ==
    /\ next = "open"
    /\ \/ /\ ~Lives(Target(entry)) /\ FreeFds # {} /\ next' = "readdir"
          /\ UNCHANGED <<fds, opened, full>>
       \/ /\ FreeFds = {} /\ next' = "failed" /\ full' = TRUE /\ UNCHANGED <<fds, opened>>
       \/ /\ Lives(Target(entry)) /\ TakeFd("status") /\ opened' = born[Target(entry)]
          /\ UNCHANGED full
          /\ next' = IF lister = "12_2" THEN "read" ELSE "opendir"
    /\ UNCHANGED <<lister, processes, directory, left, nofile, status_fd, list_root, shown>>

\* 12_2 never closes status_fd.  insert_node puts the new node in front.
ReadStatus ==
    /\ next = "read"
    /\ IF Gone THEN next' = "failed" /\ UNCHANGED list_root
       ELSE /\ list_root' = <<[entry |-> entry, pid |-> Target(entry),
                                ppid |-> ppid[Target(entry)]]>> \o list_root
            /\ next' = "readdir"
    /\ UNCHANGED <<lister, processes, directory, opened, left, descriptors, shown>>

\* Mutant of FindNode: compares the parents.
FindParent(pid) == SelectInSeq(list_root, LAMBDA node : node.ppid = pid)

\* Index of the first node of this pid, or 0.
FindNode(pid) == SelectInSeq(list_root, LAMBDA node : node.pid = pid)

ParentNode(i) == IF i = 0 THEN 0 ELSE FindNode(list_root[i].ppid)

\* print_pstree starts at the nodes without a parent and goes down: it reaches
\* those whose line of parents ends.
Printed ==
    {i \in DOMAIN list_root :
       LET up[n \in 0..Len(list_root)] == IF n = 0 THEN i ELSE ParentNode(up[n - 1])
       IN  up[Len(list_root)] = 0}

BuildAndPrint ==
    /\ next = "build_pstree"
    /\ shown' = {list_root[i].entry : i \in Printed}
    /\ next' = "done"
    /\ UNCHANGED <<lister, processes, directory, opened, left, descriptors, list_root>>

\* Only the owner and root may look at the descriptors of a process.
Permitted == uid[Me] \in {uid[Target(entry)], "root"}

OpendirFd ==
    /\ next = "opendir"
    /\ \/ ~Gone /\ Permitted /\ TakeFd("fd") /\ UNCHANGED full /\ next' = "readdir fd"
       \/ (Gone \/ ~Permitted) /\ next' = "failed" /\ UNCHANGED <<fds, full>>
       \/ FreeFds = {} /\ next' = "failed" /\ full' = TRUE /\ UNCHANGED fds
    /\ UNCHANGED <<lister, processes, directory, opened, left, nofile, status_fd, list_root, shown>>

ReaddirFd ==
    /\ next = "readdir fd"
    /\ left' = IF Gone THEN {} ELSE files[Target(entry)]
    /\ next' = "readlink"
    /\ UNCHANGED <<lister, processes, directory, opened, descriptors, list_root, shown>>

Readlink ==
    /\ next = "readlink"
    /\ \E d \in left :
         /\ left' = left \ {d}
         /\ next' = IF Gone \/ d \notin files[Target(entry)] THEN "failed"
                    ELSE IF d = "the file" THEN "print" ELSE "readlink"
    /\ UNCHANGED <<lister, processes, directory, opened, descriptors, list_root, shown>>

ReadAndPrint ==
    /\ next = "print"
    /\ IF Gone THEN next' = "failed" /\ UNCHANGED shown
       ELSE next' = "readlink" /\ shown' = shown \union {entry}
    /\ UNCHANGED <<lister, processes, directory, opened, left, descriptors, list_root>>

CloseBoth ==
    /\ next = "readlink" /\ left = {}
    /\ fds' = [f \in Fds |-> IF fds[f] \in {"status", "fd"} THEN "free" ELSE fds[f]]
    /\ next' = "readdir"
    /\ UNCHANGED <<lister, processes, directory, opened, left, nofile, status_fd, full,
                   list_root, shown>>
-----------------------------------------------------------------------------
ScanNext ==
    \/ \E p \in Pids : ForkProcess(p) \/ EndProcess(p) \/ CloseFile(p)
    \/ Getdents \/ EndOfDir \/ Readdir \/ Closedir
    \/ Fopen \/ Fgets \/ WriteAndClose
    \/ OpenStatus \/ ReadStatus \/ BuildAndPrint
    \/ OpendirFd \/ ReaddirFd \/ Readlink \/ ReadAndPrint \/ CloseBoth

ScanSpec == ScanInit /\ [][ScanNext]_scanVars
-----------------------------------------------------------------------------
(* Properties *)

\* Every variable keeps its type.
ScanTypeOK ==
    /\ lister \in {"none", "12_1", "12_2", "12_3"}
    /\ born \in [Pids -> 0..(MaxForks + 1)] /\ ppid \in [Pids -> 0..MaxPid]
    /\ uid \in [Pids -> Uids] /\ files \in [Pids -> SUBSET Descriptors]
    /\ rest \subseteq Entries /\ entry \in Entries /\ left \subseteq Descriptors
    /\ fds \in [Fds -> {"free", "std", "proc", "status", "fd"}]
    /\ shown \subseteq Entries /\ Len(list_root) =< MaxPid + 2

\* A process that lives through the whole scan.
Stays(e) == born[Target(e)] = 1

\* A scan that ends well shows every process there was all the time, the program
\* itself under all of its three names.  12_1 leaves out what it has no
\* descriptor for, or ends early when status_fd happens to be that of /proc.  12_2
\* shows a tree of all it has read only if no pid was reused meanwhile: parents
\* read at different moments may form a ring, which has no root.
ShowsAll ==
    next = "done" =>
        /\ lister = "12_1" /\ ~full /\ status_fd # 3 =>
             \A e \in Entries : Stays(e) => (e \in shown <=> uid[Target(e)] = "user")
        /\ lister = "12_2" /\ ~reused =>
             /\ \A e \in Entries : Stays(e) => e \in shown
             /\ \A i \in DOMAIN list_root : list_root[i].entry \in shown
        /\ lister = "12_3" =>
             \A e \in Entries : Stays(e) /\ "the file" \in files[Target(e)] => e \in shown

\* Why a scan ends with exit(1): 12_1 when status_fd is not a descriptor that is
\* open each time; 12_2 when it runs out of descriptors, which it never closes,
\* or when a process ends between open and read; 12_3 for any process that ends
\* or closes a file meanwhile, or, as init is root's, always when a user runs it.
FailsExplained ==
    next = "failed" =>
        /\ lister = "12_1" => status_fd \notin {0, 2}
        /\ lister = "12_2" => full \/ ended # {}
        /\ lister = "12_3" => ended # {} \/ closed \/ uid[Me] # "root"

\* (Stated together with the types.)
ScanExplained == ScanTypeOK /\ ShowsAll /\ FailsExplained
=============================================================================
