---------------------------- MODULE InotifyTree ----------------------------
(***************************************************************************)
(* HW12/19_1.c: watches a directory tree with inotify.  nftw() adds a watch *)
(* for every directory it finds; then the program reads events, adds a      *)
(* watch for every directory made in a watched one, and drops from its list *)
(* the directories the kernel says are gone (IN_IGNORED).                   *)
(*                                                                          *)
(* Meanwhile others make, remove and rename directories.  A path is the     *)
(* sequence of names below argv[1].  Events on which the program only       *)
(* prints are all "other"; one of them stands for the several that a        *)
(* removal or a renaming makes.  read() takes all events, or the first of   *)
(* them, at least ten.                                                      *)
(***************************************************************************)
EXTENDS Naturals, Sequences, FiniteSets, SequencesExt

CONSTANTS Paths,       \* paths that may exist: sequences of names, <<>> among them
          Trees,       \* sets of paths that may exist at the start
          MAXQ,        \* max_queued_events of the inotify instance
          MaxOps       \* bound: operations on the tree

Names == UNION {Range(p) : p \in Paths}

\* A directory that exists is in one that exists.
ASSUME ConstAssumption ==
    /\ IsFiniteSet(Paths) /\ \A p \in Paths : p \in Seq(Names)
    /\ <<>> \in Paths /\ Trees \subseteq SUBSET Paths
    /\ \A t \in Trees : <<>> \in t /\ \A p \in t \ {<<>>} : Front(p) \in t
    /\ MAXQ \in Nat \ {0} /\ MaxOps \in Nat

VARIABLES fs, inodes,      \* directory at each path (0: none), how many there were
          wd, wds,         \* watch of each directory (0: none), how many there were
          queue,           \* events of the inotify instance
          list,            \* subdir_item list: wd and pathname
          pc, stack, dir,  \* program: next step; nftw: paths to visit, open stream
          batch,           \* events read and not yet handled
          ops, late, changed, overflow,
              \* history: operations; directories made in an unwatched one;
              \* operations other than mkdir so far; an event was dropped
          unread, refused
              \* history: directories that nftw could not read; a call of the
              \* program was refused

tree == <<fs, inodes>>
kernel == <<wd, wds, queue>>
program == <<list, pc, stack, dir, batch>>
history == <<ops, late, changed, overflow>>
failures == <<unread, refused>>
vars == <<fs, inodes, wd, wds, queue, list, pc, stack, dir, batch,
          ops, late, changed, overflow, unread, refused>>

Exists(p) == p \in Paths /\ fs[p] # 0
Children(p) == {q \in Paths : q # <<>> /\ Front(q) = p /\ fs[q] # 0}
Inodes == 1..(Cardinality(Paths) + MaxOps)
WatchOf(p) == wd[fs[p]]

Init ==
    /\ \E t \in Trees : \E f \in [Paths -> 0..Cardinality(t)] :
         /\ fs = f /\ inodes = Cardinality(t)
         /\ \A p \in Paths : f[p] # 0 <=> p \in t
         /\ \A p, q \in t : p # q => f[p] # f[q]
         /\ \A p, q \in t : Len(p) < Len(q) => f[p] < f[q]
    /\ wd = [i \in Inodes |-> 0] /\ wds = 0 /\ queue = <<>>
    /\ list = <<>> /\ pc = "walk" /\ stack = << <<>> >> /\ dir = 0 /\ batch = <<>>
    /\ ops = 0 /\ late = {} /\ changed = {} /\ overflow = FALSE
    /\ unread = {} /\ refused = FALSE
-----------------------------------------------------------------------------
(* The kernel *)

Event(w, kind, name) == [wd |-> w, kind |-> kind, name |-> name]
Overflow == Event(0, "overflow", <<>>)

\* An event for a full queue is dropped; the first time, IN_Q_OVERFLOW (with
\* wd -1, here 0) is queued.  An event for an unwatched directory is nothing.
Put(q, e) ==
    IF e.wd = 0 THEN q
    ELSE IF Len(q) < MAXQ THEN Append(q, e)
    ELSE IF q[Len(q)] = Overflow THEN q ELSE Append(q, Overflow)

Notify(q) ==
    /\ queue' = q
    /\ overflow' = (overflow \/ Overflow \in Range(q))

Operates == pc # "exit" /\ ops < MaxOps /\ ops' = ops + 1

Mkdir(p) ==
    /\ Operates /\ p # <<>> /\ ~Exists(p) /\ Exists(Front(p))
    /\ inodes' = inodes + 1
    /\ fs' = [fs EXCEPT ![p] = inodes + 1]
    /\ late' = IF WatchOf(Front(p)) = 0 THEN late \union {inodes + 1} ELSE late
    /\ Notify(Put(queue, Event(WatchOf(Front(p)), "create", <<Last(p)>>)))
    /\ UNCHANGED <<wd, wds, program, changed, failures>>

\* The watch goes with the directory, and IN_IGNORED is its last event.
Rmdir(p) ==
    /\ Operates /\ Exists(p) /\ Children(p) = {}
    /\ fs' = [fs EXCEPT ![p] = 0]
    /\ wd' = [wd EXCEPT ![fs[p]] = 0]
    /\ Notify(Put(Put(queue, Event(WatchOf(p), "ignored", <<>>)),
                  Event(IF p = <<>> THEN 0 ELSE WatchOf(Front(p)), "other", <<>>)))
    /\ changed' = changed \union {"rmdir"}
    /\ UNCHANGED <<inodes, wds, program, late, failures>>

\* rename() of a directory within the tree: watches stay with the directories.
Move(p, q) ==
    /\ Operates /\ p # <<>> /\ Exists(p)
    /\ q # <<>> /\ ~Exists(q) /\ Exists(Front(q)) /\ ~IsPrefix(p, q)
    /\ LET To(r) == q \o SubSeq(r, Len(p) + 1, Len(r))
           Below == {r \in Paths : IsPrefix(p, r) /\ fs[r] # 0}
       IN /\ \A r \in Below : To(r) \in Paths
          /\ fs' = [r \in Paths |->
                      IF \E b \in Below : To(b) = r
                      THEN fs[CHOOSE b \in Below : To(b) = r]
                      ELSE IF r \in Below THEN 0 ELSE fs[r]]
    /\ Notify(Put(Put(Put(queue, Event(WatchOf(Front(p)), "other", <<>>)),
                      Event(WatchOf(Front(q)), "other", <<>>)),
                  Event(WatchOf(p), "other", <<>>)))
    /\ changed' = changed \union {"rename"}
    /\ UNCHANGED <<inodes, wd, wds, program, late, failures>>
-----------------------------------------------------------------------------
(* The list of watched directories *)

ParentPaths(w) == {k \in DOMAIN list : list[k].wd = w}
ParentPath(w) == list[CHOOSE k \in ParentPaths(w) : \A l \in ParentPaths(w) : k =< l].pathname

\* Mutant of RmWatchSubdir: the first item goes, whatever its wd.
RmWatchSubdirFirst(w) == list' = Tail(list)

\* rmWatchSubdir: the first item with this wd is unlinked.
RmWatchSubdir(w) == list' = RemoveFirstMatch(list, LAMBDA item : item.wd = w)

\* Mutant of WatchSubdir: list_tail is not moved to the new item.
WatchSubdirTailStays(p) ==
    /\ IF WatchOf(p) = 0
       THEN wd' = [wd EXCEPT ![fs[p]] = wds + 1] /\ wds' = wds + 1
       ELSE UNCHANGED <<wd, wds>>
    /\ list' = (IF list = <<>> THEN <<>> ELSE <<Head(list)>>)
                 \o <<[wd |-> wd'[fs[p]], pathname |-> p]>>

\* watchSubdir(p), for a p that exists: inotify_add_watch gives the watch that
\* the directory has or a new one, and the list gets an item either way.
WatchSubdir(p) ==
    /\ IF WatchOf(p) = 0
       THEN wd' = [wd EXCEPT ![fs[p]] = wds + 1] /\ wds' = wds + 1
       ELSE UNCHANGED <<wd, wds>>
    /\ list' = Append(list, [wd |-> wd'[fs[p]], pathname |-> p])
-----------------------------------------------------------------------------
(* The program: nftw(argv[1], fn, FD_LIMIT, FTW_PHYS) *)

\* lstat of the next path; FTW_NS if it is gone.
WalkStat ==
    /\ pc = "walk" /\ stack # <<>>
    /\ \/ Exists(Head(stack)) /\ pc' = "fn" /\ stack' = stack
       \/ ~Exists(Head(stack)) /\ Head(stack) # <<>> /\ pc' = pc /\ stack' = Tail(stack)
    /\ UNCHANGED <<tree, kernel, list, dir, batch, history, failures>>

\* Mutant of WalkFn: fn returns 1, which ends the walk.
WalkFnStops ==
    /\ pc = "fn" /\ Exists(Head(stack))
    /\ WatchSubdir(Head(stack))
    /\ pc' = "walk" /\ stack' = <<>>
    /\ UNCHANGED <<tree, queue, dir, batch, history, failures>>

\* The directory is opened, and fn adds its watch.
WalkFn ==
    /\ pc = "fn" /\ Exists(Head(stack))
    /\ WatchSubdir(Head(stack))
    /\ dir' = fs[Head(stack)]
    /\ pc' = "readdir"
    /\ UNCHANGED <<tree, queue, stack, batch, history, failures>>

\* There is no permission to stat a path (FTW_NS) or to open a directory
\* (FTW_DNR): fn returns without a watch, and nftw goes on behind it.
WalkDenied ==
    /\ pc \in {"walk", "fn"} /\ stack # <<>> /\ Exists(Head(stack))
    /\ pc = "walk" => Head(stack) # <<>>
    /\ unread' = unread \union {fs[Head(stack)]}
    /\ pc' = "walk" /\ stack' = Tail(stack)
    /\ UNCHANGED <<tree, kernel, list, dir, batch, history, refused>>

\* The names in the open directory.
Members == {Last(q) : q \in UNION {Children(p) : p \in {r \in Paths : fs[r] = dir}}}

\* These names, in some order, are visited next.
Visit(S) ==
    /\ \E names \in SetToSeqs(S) :
         stack' = [k \in DOMAIN names |-> Append(Head(stack), names[k])] \o Tail(stack)
    /\ pc' = "walk" /\ dir' = 0

WalkReaddir ==
    /\ pc = "readdir"
    /\ Visit(Members)
    /\ UNCHANGED <<tree, kernel, list, batch, history, failures>>

\* readdir fails, which nftw takes for the end of the directory.
WalkReaddirFails ==
    /\ pc = "readdir"
    /\ \E S \in (SUBSET Members) \ {Members} : Visit(S)
    /\ unread' = unread \union {dir}
    /\ UNCHANGED <<tree, kernel, list, batch, history, refused>>

WalkEnds ==
    /\ pc = "walk" /\ stack = <<>>
    /\ pc' = "read"
    /\ UNCHANGED <<tree, kernel, list, stack, dir, batch, history, failures>>

\* The directory is gone when it is opened or watched, or argv[1] at its lstat,
\* which makes nftw return -1: exit(1).
WalkFails ==
    /\ stack # <<>> /\ ~Exists(Head(stack))
    /\ pc = "fn" \/ (pc = "walk" /\ Head(stack) = <<>>)
    /\ pc' = "exit"
    /\ UNCHANGED <<tree, kernel, list, stack, dir, batch, history, failures>>
-----------------------------------------------------------------------------
(* The program: the loop over events *)

\* BUFSIZE is the size of ten of the longest events.
Read ==
    /\ pc = "read" /\ queue # <<>>
    /\ \E n \in 1..Len(queue) :
         /\ n = Len(queue) \/ n >= 10
         /\ batch' = SubSeq(queue, 1, n) /\ queue' = SubSeq(queue, n + 1, Len(queue))
    /\ pc' = "handle"
    /\ UNCHANGED <<tree, wd, wds, list, stack, dir, history, failures>>

\* displayLogEvent of an event whose wd is in the list.
Handles(kind) ==
    /\ pc = "handle" /\ Head(batch).kind = kind /\ ParentPaths(Head(batch).wd) # {}
    /\ batch' = Tail(batch)

Handled == pc' = IF batch' = <<>> THEN "read" ELSE "handle"
FullPathname == ParentPath(Head(batch).wd) \o Head(batch).name

HandleOther ==
    /\ Handles("other") /\ Handled
    /\ UNCHANGED <<tree, kernel, list, stack, dir, history, failures>>

HandleIgnored ==
    /\ Handles("ignored") /\ Handled
    /\ RmWatchSubdir(Head(batch).wd)
    /\ UNCHANGED <<tree, kernel, stack, dir, history, failures>>

\* Mutant of HandleCreate: the new item has the path of the parent.
HandleCreateParent ==
    /\ Handles("create") /\ Handled /\ Exists(FullPathname)
    /\ IF WatchOf(FullPathname) = 0
       THEN wd' = [wd EXCEPT ![fs[FullPathname]] = wds + 1] /\ wds' = wds + 1
       ELSE UNCHANGED <<wd, wds>>
    /\ list' = Append(list, [wd |-> wd'[fs[FullPathname]],
                             pathname |-> ParentPath(Head(batch).wd)])
    /\ UNCHANGED <<tree, queue, stack, dir, history, failures>>

HandleCreate ==
    /\ Handles("create") /\ Handled /\ Exists(FullPathname)
    /\ WatchSubdir(FullPathname)
    /\ UNCHANGED <<tree, queue, stack, dir, history, failures>>

\* Nothing is at that path any more: inotify_add_watch fails, exit(1).
HandleCreateFails ==
    /\ Handles("create") /\ ~Exists(FullPathname)
    /\ pc' = "exit"
    /\ UNCHANGED <<tree, kernel, list, stack, dir, history, failures>>

\* parentPath finds no item, as for IN_Q_OVERFLOW: exit(1).
HandleUnknown ==
    /\ pc = "handle" /\ ParentPaths(Head(batch).wd) = {}
    /\ pc' = "exit"
    /\ UNCHANGED <<tree, kernel, list, stack, dir, batch, history, failures>>

\* nftw (-1), inotify_add_watch, malloc or read fails, for lack of permission,
\* memory, descriptors or watches: exit(1).
CallRefused ==
    /\ \/ pc \in {"fn", "readdir", "read"} \/ (pc = "walk" /\ stack # <<>>)
       \/ pc = "handle" /\ Head(batch).kind = "create" /\ ParentPaths(Head(batch).wd) # {}
    /\ pc' = "exit" /\ refused' = TRUE
    /\ UNCHANGED <<tree, kernel, list, stack, dir, batch, history, unread>>
-----------------------------------------------------------------------------
WatcherStep ==
    \/ WalkStat \/ WalkFn \/ WalkDenied \/ WalkReaddir \/ WalkReaddirFails
    \/ WalkEnds \/ WalkFails \/ CallRefused
    \/ Read \/ HandleOther \/ HandleIgnored
    \/ HandleCreate \/ HandleCreateFails \/ HandleUnknown

Next ==
    \/ WatcherStep
    \/ \E p \in Paths : Mkdir(p) \/ Rmdir(p)
    \/ \E p, q \in Paths : Move(p, q)

Spec == Init /\ [][Next]_vars
-----------------------------------------------------------------------------
(* Properties *)

Kinds == {"create", "ignored", "other", "overflow"}
Pending == batch \o queue

\* Every variable keeps its type, and no directory is at two paths.
TypeOK ==
    /\ fs \in [Paths -> 0..inodes] /\ inodes \in Inodes
    /\ \A p, q \in Paths : fs[p] = fs[q] /\ fs[p] # 0 => p = q
    /\ wd \in [Inodes -> 0..wds] /\ wds \in Nat
    /\ \A e \in Range(Pending) : e.wd \in 0..wds /\ e.kind \in Kinds
    /\ Len(queue) =< MAXQ + 1
    /\ \A item \in Range(list) : item.wd \in 1..wds /\ item.pathname \in Paths
    /\ pc \in {"walk", "fn", "readdir", "read", "handle", "exit"}
    /\ stack \in Seq(Seq(Names)) /\ dir \in 0..inodes
    /\ ops \in 0..MaxOps /\ late \subseteq Inodes /\ overflow \in BOOLEAN
    /\ unread \subseteq Inodes /\ refused \in BOOLEAN

Watches == {wd[i] : i \in Inodes} \ {0}
Items == {item.wd : item \in Range(list)}

\* As long as nothing is renamed, the path in an item is that of the directory
\* its watch is on, so new directories are looked for where they are.
PathsCurrent ==
    "rename" \notin changed =>
        \A item \in Range(list) :
            item.wd \in Watches => Exists(item.pathname) /\ WatchOf(item.pathname) = item.wd

\* The list has an item for every watch of the kernel and for every watch that
\* still has an event to be handled, so parentPath (19_1.c 126) and
\* rmWatchSubdir (76), which would run off the list, find what they look for:
\* whatever is removed or renamed, only an overflow brings an unknown wd.
\* (Stated together with the types and with PathsCurrent.)
ListCoversWatches ==
    /\ TypeOK /\ PathsCurrent
    /\ Watches \subseteq Items
    /\ \A e \in Range(Pending) : e.kind # "overflow" => e.wd \in Items

\* The watcher exits only because a directory was removed or renamed behind its
\* back, because events were dropped, or because the system refused it a call:
\* new directories alone, however their events race with the walk, never stop it.
ExitsExplained == pc = "exit" => changed # {} \/ overflow \/ refused

\* nftw could not read the directory p or one above it.
Unread(p) == \E q \in Paths : IsPrefix(q, p) /\ fs[q] \in unread

\* When all events have been handled, a directory is unwatched only if it was
\* made in a directory that had no watch at that moment or is in one that nftw
\* could not read (or events were dropped, or directories were renamed while
\* they were looked for): the walk and the events together miss nothing else.
NothingElseMissed ==
    pc = "read" /\ queue = <<>> /\ ~overflow /\ "rename" \notin changed =>
        \A p \in Paths : Exists(p) /\ WatchOf(p) = 0 => fs[p] \in late \/ Unread(p)
=============================================================================
