-------------------------- MODULE FileSystemProofs --------------------------
(***************************************************************************)
(* The programs that look at files and directories.                         *)
(*                                                                          *)
(* InotifyTree, for any paths, trees, queue length and operations of        *)
(* others: the list of the watcher covers the watches of the kernel, the    *)
(* watcher exits only when something was removed or renamed behind its      *)
(* back, an event was dropped or a call was refused, and walk and events    *)
(* together miss only what was made in an unwatched directory or is in one  *)
(* that could not be read.  The inductive invariant says what each pending  *)
(* event still stands for (Events, Covers) and, for every directory that is *)
(* not watched yet, which event or which path of the walk will lead to it   *)
(* (Found).                                                                 *)
(*                                                                          *)
(* TailBuffer, for any file, size of the buffer and number of lines: the    *)
(* last lines are found whenever no chunk was read twice and none was left  *)
(* out.  The inductive invariant is that all newlines behind the chunk have *)
(* been counted (Counting).                                                 *)
(*                                                                          *)
(* ProcScan, for any number of pids, entries at once and limits on          *)
(* descriptors: what a scan of /proc shows, and why it fails.  The          *)
(* inductive invariant says for each program what it has shown of the       *)
(* entries it is done with (UserShown, FileShown, Nodes), which descriptors *)
(* are open (Table), and that without reuse of a pid the parents that were  *)
(* read, each at its own moment, can be ranked (Ranked).                    *)
(***************************************************************************)
EXTENDS InotifyTree, FilePrograms, SequenceTheorems, FiniteSetTheorems,
        WellFoundedInduction, TLAPS

-----------------------------------------------------------------------------
(* The watcher *)

Ev == [wd : Nat, kind : Kinds, name : Seq(Names)]
Item == [wd : Nat, pathname : Paths]

\* The queue has room for MAXQ events and an overflow.
Bounded(q) == Len(q) =< MAXQ + 1 /\ (Len(q) > MAXQ => q[Len(q)] = Overflow)

\* What is read is handled before more is read.
Buffers ==
    /\ batch \in Seq(Ev) /\ queue \in Seq(Ev) /\ list \in Seq(Item)
    /\ Bounded(queue)
    /\ pc = "handle" <=> batch # <<>> /\ pc # "exit"
    /\ pc \in {"fn", "readdir"} => stack # <<>>
    /\ pc = "readdir" => dir # 0

\* A directory keeps its number, and no two have the same watch.
Numbers ==
    /\ inodes =< Cardinality(Paths) + ops
    /\ \A i \in Inodes : i > inodes => wd[i] = 0
    /\ \A i, j \in Inodes : wd[i] = wd[j] /\ wd[i] # 0 => i = j

\* A directory is in a directory.
Closed == \A p \in Paths \ {<<>>} : Exists(p) => Exists(Front(p))

\* IN_IGNORED is the last event of its watch; w are the watches there are.
EventsOf(s, w) ==
    /\ \A k \in DOMAIN s :
         (s[k].wd = 0 <=> s[k] = Overflow) /\ (s[k].kind = "overflow" <=> s[k] = Overflow)
    /\ \A k \in DOMAIN s :
         s[k].kind = "ignored" =>
             s[k].wd \notin w /\ \A l \in DOMAIN s : l > k => s[l].wd # s[k].wd

Events == EventsOf(Pending, Watches) /\ (Overflow \in Range(Pending) => overflow)

Covers ==
    /\ Watches \subseteq Items
    /\ \A e \in Range(Pending) : e.kind # "overflow" => e.wd \in Items

\* As long as directories are made only.
Undisturbed ==
    changed = {} =>
        /\ Exists(<<>>) /\ Items \subseteq Watches
        /\ pc = "fn" => Exists(Head(stack))
        /\ \A e \in Range(Pending) : e.kind # "ignored"
        /\ \A e \in Range(Pending) : e.kind = "create" =>
             \A item \in Range(list) : item.wd = e.wd => Exists(item.pathname \o e.name)

\* An event tells of this directory.
Announced(p) ==
    /\ p # <<>>
    /\ \E e \in Range(Pending) :
         e.kind = "create" /\ e.wd = WatchOf(Front(p)) /\ e.name = <<Last(p)>>

\* The walk leads to this directory.
OnTheWay(p) ==
    \/ pc \in {"walk", "fn"} /\ \E k \in DOMAIN stack : IsPrefix(stack[k], p)
    \/ /\ pc = "readdir"
       /\ \E k \in DOMAIN stack :
            IsPrefix(stack[k], p) /\ (k = 1 => dir = fs[stack[1]] /\ stack[1] # p)

Missed(p) == Exists(p) /\ WatchOf(p) = 0 /\ fs[p] \notin late /\ ~Unread(p)

Found ==
    pc # "exit" /\ ~overflow /\ "rename" \notin changed =>
        \A p \in Paths : Missed(p) => Announced(p) \/ OnTheWay(p)

IInv ==
    /\ TypeOK /\ Buffers /\ Numbers /\ Closed /\ Events /\ Covers /\ PathsCurrent
    /\ Undisturbed /\ ExitsExplained /\ Found
-----------------------------------------------------------------------------
(* Paths and the list *)

\* A set of numbers has a least one.
LEMMA LeastNumber ==
    ASSUME NEW T \in SUBSET Nat, T # {}
    PROVE  \E n \in T : \A m \in T : n =< m
<1> DEFINE R == {ss \in Nat \X Nat : ss[1] < ss[2]}
<1>1. IsWellFoundedOn(R, Nat)
  BY NatLessThanWellFounded DEF OpToRel
<1> HIDE DEF R
<1>2. PICK n \in T : \A m \in T : <<m, n>> \notin R
  BY <1>1, WFMin
<1>3. n \in Nat /\ \A m \in T : m \in Nat
  OBVIOUS
<1>4. \A m \in T : ~(m < n)
  BY <1>2, <1>3 DEF R
<1> QED BY <1>3, <1>4

\* A path other than the root is its parent and a name.
LEMMA FrontLast ==
    ASSUME NEW p \in Seq(Names), p # <<>>
    PROVE  /\ Front(p) \in Seq(Names) /\ Last(p) \in Names
           /\ Len(p) \in Nat /\ Len(p) >= 1 /\ Len(Front(p)) = Len(p) - 1
           /\ \A i \in 1..(Len(p) - 1) : Front(p)[i] = p[i]
           /\ Append(Front(p), Last(p)) = p /\ Front(p) \o <<Last(p)>> = p
<1>1. Len(p) \in Nat /\ Len(p) >= 1
  BY EmptySeq
<1>2. Last(p) \in Names
  BY <1>1 DEF Last
<1>3. /\ Front(p) \in Seq(Names) /\ Len(Front(p)) = Len(p) - 1
      /\ \A i \in 1..(Len(p) - 1) : Front(p)[i] = p[i]
  <2> DEFINE n == Len(p) - 1
  <2>1. n \in Int /\ 1 \in Int /\ \A i \in 1..n : p[i] \in Names
    BY <1>1
  <2>2. /\ SubSeq(p, 1, n) \in Seq(Names)
        /\ Len(SubSeq(p, 1, n)) = IF 1 =< n THEN n - 1 + 1 ELSE 0
        /\ \A i \in 1..(n - 1 + 1) : SubSeq(p, 1, n)[i] = p[1 + i - 1]
    BY <2>1, SubSeqProperties
  <2>3. n - 1 + 1 = n /\ (IF 1 =< n THEN n - 1 + 1 ELSE 0) = n /\ \A i \in 1..n : 1 + i - 1 = i
    <3>1. n \in Nat
      BY <1>1
    <3> HIDE DEF n
    <3> QED BY <3>1
  <2> QED BY <2>2, <2>3 DEF Front
<1>4. /\ Append(Front(p), Last(p)) \in Seq(Names) /\ Len(Append(Front(p), Last(p))) = Len(p)
      /\ \A i \in 1..Len(p) : Append(Front(p), Last(p))[i] = p[i]
  BY <1>1, <1>2, <1>3 DEF Last
<1>5. Append(Front(p), Last(p)) = p
  BY <1>4, SeqEqual
<1>6. Front(p) \o <<Last(p)>> = p
  BY <1>2, <1>3, <1>5, AppendIsConcat
<1> QED BY <1>1, <1>2, <1>3, <1>5, <1>6

\* Paths are told apart by parent and name.
LEMMA SameFrontLast ==
    ASSUME NEW p \in Seq(Names), NEW q \in Seq(Names), p # <<>>, q # <<>>,
           Front(p) = Front(q), Last(p) = Last(q)
    PROVE  p = q
  BY FrontLast

\* The types of paths.
LEMMA PathTypes ==
    /\ \A p \in Paths : p \in Seq(Names) /\ Len(p) \in Nat
    /\ <<>> \in Paths
  BY ConstAssumption

\* What rmWatchSubdir does to the list: other watches keep their items.
LEMMA RemoveItem ==
    ASSUME NEW w, list \in Seq(Item), RmWatchSubdir(w)
    PROVE  /\ list' \in Seq(Item) /\ Range(list') \subseteq Range(list)
           /\ \A item \in Range(list) : item.wd # w => item \in Range(list')
<1>0. list' = RemoveFirstMatch(list, LAMBDA item : item.wd = w)
  BY DEF RmWatchSubdir
<1> DEFINE T == {k \in 1..Len(list) : list[k].wd = w}
<1>a. Len(list) \in Nat /\ T \in SUBSET Nat
  OBVIOUS
<1>1. CASE T = {}
  <2>1. list' = list
    BY <1>0, <1>1 DEF RemoveFirstMatch
  <2> QED BY <2>1
<1>2. CASE T # {}
  <2>1. PICK n \in T : \A m \in T : n =< m
    BY <1>a, <1>2, LeastNumber
  <2>2. SelectInSeq(list, LAMBDA item : item.wd = w) = Min(T)
    BY <1>2 DEF SelectInSeq
  <2>3. Min(T) \in T
    <3>1. \E x \in T : \A y \in T : x =< y
      BY <2>1
    <3> QED BY <3>1 DEF Min
  <2>4. list' = RemoveAt(list, Min(T))
    BY <1>0, <1>2, <2>2 DEF RemoveFirstMatch
  <2> DEFINE i == Min(T)
  <2>5. i \in 1..Len(list) /\ list[i].wd = w
    BY <2>3
  <2>6. list' = SubSeq(list, 1, i - 1) \o SubSeq(list, i + 1, Len(list))
    BY <2>4 DEF RemoveAt
  <2> HIDE DEF i, T
  <2>7. /\ SubSeq(list, 1, i - 1) \in Seq(Item) /\ Len(SubSeq(list, 1, i - 1)) = i - 1
        /\ \A k \in 1..(i - 1) : SubSeq(list, 1, i - 1)[k] = list[k]
    BY <1>a, <2>5
  <2>8. /\ SubSeq(list, i + 1, Len(list)) \in Seq(Item)
        /\ Len(SubSeq(list, i + 1, Len(list))) = Len(list) - i
        /\ \A k \in 1..(Len(list) - i) : SubSeq(list, i + 1, Len(list))[k] = list[i + k]
    BY <1>a, <2>5
  <2>9. Range(list') = Range(SubSeq(list, 1, i - 1)) \union Range(SubSeq(list, i + 1, Len(list)))
    BY <2>6, <2>7, <2>8, RangeConcatenation, ZenonT(60)
  <2>10. list' \in Seq(Item)
    BY <2>6, <2>7, <2>8, ConcatProperties
  <2>11. Range(list') \subseteq Range(list)
    <3>1. Range(SubSeq(list, 1, i - 1)) \subseteq Range(list)
      BY <1>a, <2>5, <2>7 DEF Range
    <3>2. Range(SubSeq(list, i + 1, Len(list))) \subseteq Range(list)
      <4> SUFFICES ASSUME NEW k \in 1..(Len(list) - i) PROVE list[i + k] \in Range(list)
        BY <2>8 DEF Range
      <4> QED BY <1>a, <2>5 DEF Range
    <3> QED BY <2>9, <3>1, <3>2
  <2>12. ASSUME NEW item \in Range(list), item.wd # w PROVE item \in Range(list')
    <3>1. PICK k \in 1..Len(list) : item = list[k]
      BY DEF Range
    <3>2. k # i
      BY <2>5, <2>12, <3>1
    <3>3. CASE k < i
      <4>1. DOMAIN SubSeq(list, 1, i - 1) = 1..(i - 1) /\ k \in 1..(i - 1)
        BY <1>a, <2>5, <2>7, <3>1, <3>3
      <4> QED BY <2>5, <2>7, <2>9, <3>1, <3>3, <4>1 DEF Range
    <3>4. CASE k > i
      <4>1. k - i \in 1..(Len(list) - i) /\ i + (k - i) = k
        BY <1>a, <2>5, <3>4
      <4>2. k - i \in DOMAIN SubSeq(list, i + 1, Len(list)) /\ SubSeq(list, i + 1, Len(list))[k - i] = item
        BY <2>8, <3>1, <4>1
      <4> QED BY <2>9, <4>2 DEF Range
    <3> QED BY <2>5, <3>2, <3>3, <3>4
  <2> QED BY <2>10, <2>11, <2>12
<1> QED BY <1>1, <1>2
-----------------------------------------------------------------------------
(* The queue of the kernel *)

\* Kinds of events, and the one that tells of an overflow.
LEMMA EventTypes ==
    /\ Overflow \in Ev /\ Overflow.wd = 0 /\ Overflow.kind = "overflow"
    /\ \A v \in Nat, kind \in Kinds, name \in Seq(Names) :
         /\ Event(v, kind, name) \in Ev /\ Event(v, kind, name).wd = v
         /\ Event(v, kind, name).kind = kind /\ Event(v, kind, name).name = name
  BY DEF Overflow, Event, Ev, Kinds

\* An event is queued, or is nobody's, or an overflow stands for it.
LEMMA PutCases ==
    ASSUME NEW q, NEW e
    PROVE  \/ Put(q, e) = q /\ e.wd = 0
           \/ Put(q, e) = q /\ ~(Len(q) < MAXQ) /\ q[Len(q)] = Overflow
           \/ Put(q, e) = Append(q, e) /\ e.wd # 0 /\ Len(q) < MAXQ
           \/ Put(q, e) = Append(q, Overflow) /\ ~(Len(q) < MAXQ) /\ q[Len(q)] # Overflow
  BY DEF Put

\* A sequence with one more event.
LEMMA AppendRange ==
    ASSUME NEW S, NEW q \in Seq(S), NEW x \in S
    PROVE  /\ Append(q, x) \in Seq(S) /\ Len(Append(q, x)) = Len(q) + 1 /\ Len(q) \in Nat
           /\ DOMAIN q = 1..Len(q) /\ DOMAIN Append(q, x) = 1..(Len(q) + 1)
           /\ \A k \in 1..Len(q) : Append(q, x)[k] = q[k]
           /\ Append(q, x)[Len(q) + 1] = x
           /\ Range(Append(q, x)) = Range(q) \union {x}
<1>1. /\ Append(q, x) \in Seq(S) /\ Len(Append(q, x)) = Len(q) + 1 /\ Len(q) \in Nat
      /\ DOMAIN q = 1..Len(q) /\ DOMAIN Append(q, x) = 1..(Len(q) + 1)
      /\ \A k \in 1..Len(q) : Append(q, x)[k] = q[k]
      /\ Append(q, x)[Len(q) + 1] = x
  OBVIOUS
<1>2. Append(q, x) = q \o <<x>> /\ <<x>> \in Seq(S) /\ Range(<<x>>) = {x}
  BY AppendIsConcat DEF Range
<1>3. Range(Append(q, x)) = Range(q) \union {x}
  <2> DEFINE r == <<x>>
  <2>1. r \in Seq(S)
    OBVIOUS
  <2> HIDE DEF r
  <2>2. Range(q \o r) = Range(q) \union Range(r)
    BY <2>1, RangeConcatenation, ZenonT(60)
  <2> QED BY <1>2, <2>2 DEF r
<1> QED BY <1>1, <1>3

\* The queue keeps its bound and its events, and gets the new one or an overflow.
LEMMA PutRange ==
    ASSUME NEW q \in Seq(Ev), NEW e \in Ev, Bounded(q)
    PROVE  /\ Put(q, e) \in Seq(Ev) /\ Bounded(Put(q, e))
           /\ Range(q) \subseteq Range(Put(q, e))
           /\ Range(Put(q, e)) \subseteq Range(q) \union {e, Overflow}
           /\ e.wd = 0 => Put(q, e) = q
           /\ e.wd # 0 => e \in Range(Put(q, e)) \/ Overflow \in Range(Put(q, e))
<1>0. Len(q) \in Nat /\ MAXQ \in Nat /\ DOMAIN q = 1..Len(q) /\ MAXQ > 0
  BY ConstAssumption
<1>1. e.wd = 0 => Put(q, e) = q
  BY DEF Put
<1>2. CASE Put(q, e) = q /\ e.wd = 0
  BY <1>2
<1>3. CASE Put(q, e) = q /\ ~(Len(q) < MAXQ) /\ q[Len(q)] = Overflow
  <2>1. Overflow \in Range(q)
    BY <1>0, <1>3 DEF Range
  <2> QED BY <1>1, <1>3, <2>1
<1>4. CASE Put(q, e) = Append(q, e) /\ e.wd # 0 /\ Len(q) < MAXQ
  <2>1. Bounded(Append(q, e))
    BY <1>0, <1>4, AppendRange DEF Bounded
  <2> QED BY <1>4, <2>1, AppendRange
<1>5. CASE Put(q, e) = Append(q, Overflow) /\ ~(Len(q) < MAXQ) /\ q[Len(q)] # Overflow
  <2>1. Len(q) = MAXQ
    <3>1. ~(Len(q) > MAXQ)
      BY <1>5 DEF Bounded
    <3>2. Len(q) \in Nat /\ MAXQ \in Nat /\ ~(Len(q) < MAXQ)
      BY <1>0, <1>5
    <3> QED BY <3>1, <3>2
  <2>2. Bounded(Append(q, Overflow))
    BY <1>0, <2>1, EventTypes, AppendRange DEF Bounded
  <2> QED BY <1>1, <1>5, <2>2, EventTypes, AppendRange
<1> QED BY <1>2, <1>3, <1>4, <1>5, PutCases

\* Fewer watches: less to be told apart.
LEMMA EventsFewer ==
    ASSUME NEW s, NEW w, NEW v \in SUBSET w, EventsOf(s, w)
    PROVE  EventsOf(s, v)
  BY DEF EventsOf

\* One more event, of a watch there is or an overflow.
LEMMA EventsAppend ==
    ASSUME NEW s \in Seq(Ev), NEW x \in Ev, NEW w \in SUBSET Nat, 0 \notin w, EventsOf(s, w),
           x = Overflow \/ (x.kind \notin {"ignored", "overflow"} /\ x.wd \in w)
    PROVE  EventsOf(Append(s, x), w)
<1>1. /\ DOMAIN s = 1..Len(s) /\ DOMAIN Append(s, x) = 1..(Len(s) + 1) /\ Len(s) \in Nat
      /\ \A k \in 1..Len(s) : Append(s, x)[k] = s[k]
      /\ Append(s, x)[Len(s) + 1] = x
  BY AppendRange
<1>2. \A k \in 1..(Len(s) + 1) : k \in 1..Len(s) \/ k = Len(s) + 1
  BY <1>1
<1>3. x.kind # "ignored" /\ (x.wd = 0 <=> x = Overflow) /\ (x.kind = "overflow" <=> x = Overflow)
  BY EventTypes
<1>4. \A k \in DOMAIN s : s[k].kind = "ignored" => s[k].wd \notin w /\ s[k].wd # 0
  BY EventTypes DEF EventsOf
<1>5. ASSUME NEW k \in DOMAIN Append(s, x), Append(s, x)[k].kind = "ignored"
      PROVE  /\ Append(s, x)[k].wd \notin w
             /\ \A l \in DOMAIN Append(s, x) : l > k => Append(s, x)[l].wd # Append(s, x)[k].wd
  <2>1. k \in DOMAIN s /\ s[k].kind = "ignored" /\ Append(s, x)[k] = s[k]
    BY <1>1, <1>2, <1>3, <1>5
  <2>2. x.wd = 0 \/ x.wd \in w
    BY EventTypes
  <2>3. ASSUME NEW l \in DOMAIN Append(s, x), l > k PROVE Append(s, x)[l].wd # s[k].wd
    BY <1>1, <1>2, <1>4, <2>1, <2>2, <2>3 DEF EventsOf
  <2> QED BY <1>4, <2>1, <2>3
<1>6. ASSUME NEW k \in DOMAIN Append(s, x)
      PROVE  /\ Append(s, x)[k].wd = 0 <=> Append(s, x)[k] = Overflow
             /\ Append(s, x)[k].kind = "overflow" <=> Append(s, x)[k] = Overflow
  BY <1>1, <1>2, <1>3 DEF EventsOf
<1> QED BY <1>5, <1>6 DEF EventsOf

\* What is put in the queue is put behind what was read before.
LEMMA PendingPut ==
    ASSUME NEW b \in Seq(Ev), NEW q \in Seq(Ev), NEW x \in Ev
    PROVE  b \o Append(q, x) = Append(b \o q, x) /\ b \o q \in Seq(Ev)
<1>1. b \o q \in Seq(Ev)
  BY ConcatProperties
<1>2. Append(q, x) = q \o <<x>> /\ <<x>> \in Seq(Ev) /\ Append(b \o q, x) = (b \o q) \o <<x>>
  BY <1>1, AppendIsConcat
<1> QED BY <1>1, <1>2, ConcatAssociative

LEMMA EventsPut ==
    ASSUME NEW b \in Seq(Ev), NEW q \in Seq(Ev), NEW e \in Ev, NEW w \in SUBSET Nat, 0 \notin w,
           e.kind \notin {"ignored", "overflow"}, e.wd = 0 \/ e.wd \in w, EventsOf(b \o q, w)
    PROVE  EventsOf(b \o Put(q, e), w)
<1>1. CASE Put(q, e) = q
  BY <1>1
<1>a. b \o q \in Seq(Ev) /\ Overflow \in Ev
  BY PendingPut, EventTypes
<1>2. CASE Put(q, e) = Append(q, e) /\ e.wd # 0
  <2>1. EventsOf(Append(b \o q, e), w)
    BY <1>a, <1>2, EventsAppend
  <2>2. b \o Append(q, e) = Append(b \o q, e)
    BY PendingPut
  <2> QED BY <1>2, <2>1, <2>2
<1>3. CASE Put(q, e) = Append(q, Overflow)
  <2>1. EventsOf(Append(b \o q, Overflow), w)
    BY <1>a, EventsAppend
  <2>2. b \o Append(q, Overflow) = Append(b \o q, Overflow)
    BY <1>a, PendingPut
  <2> QED BY <1>3, <2>1, <2>2
<1> QED BY <1>1, <1>2, <1>3, PutCases

\* The last event of a watch.
LEMMA EventsPutIgnored ==
    ASSUME NEW b \in Seq(Ev), NEW q \in Seq(Ev), NEW w \in SUBSET Nat, 0 \notin w,
           NEW v \in w \union {0}, EventsOf(b \o q, w)
    PROVE  EventsOf(b \o Put(q, Event(v, "ignored", <<>>)), w \ {v})
<1> DEFINE e == Event(v, "ignored", <<>>)
           s == b \o q
<1>1. e \in Ev /\ e.wd = v /\ e.kind = "ignored" /\ e # Overflow /\ (v # 0 => v \in w)
  <2>1. v \in Nat /\ "ignored" \in Kinds /\ <<>> \in Seq(Names)
    BY EmptySeq DEF Kinds
  <2>2. e \in Ev /\ e.wd = v /\ e.kind = "ignored"
    BY <2>1 DEF Event, Ev
  <2>3. e # Overflow
    BY <2>2, EventTypes
  <2> QED BY <2>2, <2>3
<1>2. EventsOf(s, w \ {v}) /\ s \in Seq(Ev)
  BY EventsFewer, PendingPut, <1>1
<1>3. CASE Put(q, e) = q
  BY <1>2, <1>3
<1>4. CASE Put(q, e) = Append(q, e) /\ e.wd # 0
  <2>1. b \o Put(q, e) = Append(s, e)
    <3>1. b \o Append(q, e) = Append(b \o q, e)
      BY <1>1, PendingPut
    <3> QED BY <1>4, <3>1
  <2>2. v \in w /\ v # 0
    BY <1>1, <1>4
  <2> HIDE DEF e, s
  <2>3. /\ DOMAIN s = 1..Len(s) /\ DOMAIN Append(s, e) = 1..(Len(s) + 1) /\ Len(s) \in Nat
        /\ \A k \in 1..Len(s) : Append(s, e)[k] = s[k]
        /\ Append(s, e)[Len(s) + 1] = e
    BY <1>1, <1>2, AppendRange
  <2>4. \A k \in 1..(Len(s) + 1) : k \in 1..Len(s) \/ k = Len(s) + 1
    BY <2>3
  <2>5. \A k \in DOMAIN s : s[k].kind = "ignored" => s[k].wd # v
    BY <2>2 DEF EventsOf, s
  <2>6. ASSUME NEW k \in DOMAIN Append(s, e), Append(s, e)[k].kind = "ignored"
        PROVE  /\ Append(s, e)[k].wd \notin w \ {v}
               /\ \A l \in DOMAIN Append(s, e) : l > k => Append(s, e)[l].wd # Append(s, e)[k].wd
    <3>1. CASE k = Len(s) + 1
      BY <1>1, <2>3, <3>1
    <3>2. CASE k \in 1..Len(s)
      <4>1. k \in DOMAIN s /\ s[k].kind = "ignored" /\ Append(s, e)[k] = s[k]
        BY <2>3, <2>6, <3>2
      <4>2. ASSUME NEW l \in DOMAIN Append(s, e), l > k PROVE Append(s, e)[l].wd # s[k].wd
        BY <1>1, <1>2, <2>3, <2>4, <2>5, <4>1, <4>2 DEF EventsOf
      <4> QED BY <1>2, <4>1, <4>2 DEF EventsOf
    <3> QED BY <2>3, <2>4, <3>1, <3>2
  <2>7. ASSUME NEW k \in DOMAIN Append(s, e)
        PROVE  /\ Append(s, e)[k].wd = 0 <=> Append(s, e)[k] = Overflow
               /\ Append(s, e)[k].kind = "overflow" <=> Append(s, e)[k] = Overflow
    BY <1>1, <1>2, <2>2, <2>3, <2>4 DEF EventsOf
  <2>8. EventsOf(Append(s, e), w \ {v})
    BY <2>6, <2>7 DEF EventsOf
  <2> QED BY <2>1, <2>8 DEF e
<1>5. CASE Put(q, e) = Append(q, Overflow)
  <2>0. Overflow \in Ev /\ w \ {v} \in SUBSET Nat /\ 0 \notin w \ {v}
    BY EventTypes
  <2>1. b \o Put(q, e) = Append(s, Overflow)
    <3>1. b \o Append(q, Overflow) = Append(b \o q, Overflow)
      BY <2>0, PendingPut
    <3> QED BY <1>5, <3>1
  <2> HIDE DEF s
  <2>2. EventsOf(Append(s, Overflow), w \ {v})
    BY <1>2, <2>0, EventsAppend
  <2> QED BY <2>1, <2>2
<1> QED BY <1>3, <1>4, <1>5, PutCases
-----------------------------------------------------------------------------
(* What the steps do *)

\* What the types say of directories, watches and events.
LEMMA Basics ==
    ASSUME TypeOK, Buffers
    PROVE  /\ Cardinality(Paths) \in Nat /\ MaxOps \in Nat /\ inodes \in Nat /\ wds \in Nat
           /\ Watches \in SUBSET (1..wds) /\ Watches \in SUBSET Nat /\ 0 \notin Watches
           /\ Pending \in Seq(Ev) /\ Range(Pending) = Range(batch) \union Range(queue)
           /\ \A p \in Paths : Exists(p) =>
                fs[p] \in Inodes /\ WatchOf(p) \in 0..wds
                /\ (WatchOf(p) # 0 => WatchOf(p) \in Watches)
<1>1. Cardinality(Paths) \in Nat /\ MaxOps \in Nat
  BY ConstAssumption, FS_CardinalityType
<1>2. inodes \in Inodes /\ wds \in Nat /\ wd \in [Inodes -> 0..wds] /\ fs \in [Paths -> 0..inodes]
  BY DEF TypeOK
<1>3. inodes \in Nat /\ inodes =< Cardinality(Paths) + MaxOps
  BY <1>1, <1>2 DEF Inodes
<1>4. Watches \in SUBSET (1..wds) /\ 0 \notin Watches
  BY <1>2 DEF Watches
<1>5. Pending \in Seq(Ev) /\ Range(Pending) = Range(batch) \union Range(queue)
  BY ConcatProperties, RangeConcatenation DEF Pending, Buffers
<1>6. ASSUME NEW p \in Paths, Exists(p)
      PROVE  /\ fs[p] \in Inodes /\ WatchOf(p) \in 0..wds
             /\ WatchOf(p) # 0 => WatchOf(p) \in Watches
  <2>1. fs[p] \in 1..inodes
    BY <1>2, <1>3, <1>6 DEF Exists
  <2>2. fs[p] \in Inodes
    BY <1>1, <1>3, <2>1 DEF Inodes
  <2> QED BY <1>2, <2>2 DEF WatchOf, Watches
<1> QED BY <1>1, <1>2, <1>3, <1>4, <1>5, <1>6

\* The parent of a path that is not the root.
LEMMA Parent ==
    ASSUME Closed, NEW p \in Paths, p # <<>>, Exists(p)
    PROVE  Front(p) \in Paths /\ Exists(Front(p)) /\ Front(p) # p
<1>1. Exists(Front(p))
  BY DEF Closed
<1>2. Front(p) # p
  <2>1. Len(Front(p)) = Len(p) - 1 /\ Len(p) \in Nat
    BY PathTypes, FrontLast
  <2> QED BY <2>1
<1> QED BY <1>1, <1>2 DEF Exists

\* watchSubdir: the directory has a watch, and the list one more item, with it.
LEMMA WatchAdded ==
    ASSUME TypeOK, Buffers, Numbers, NEW p \in Paths, Exists(p), WatchSubdir(p), fs' = fs
    PROVE  /\ wds' \in Nat /\ wds' >= wds /\ wd' \in [Inodes -> 0..wds']
           /\ WatchOf(p)' \in 1..wds'
           /\ WatchOf(p)' \in Watches \/ (WatchOf(p)' = wds + 1 /\ wds' = wds + 1)
           /\ WatchOf(p) # 0 => WatchOf(p)' = WatchOf(p)
           /\ \A i \in Inodes : wd'[i] = wd[i] \/ (i = fs[p] /\ wd[i] = 0)
           /\ Watches' = Watches \union {WatchOf(p)'}
           /\ list' = Append(list, [wd |-> WatchOf(p)', pathname |-> p])
           /\ [wd |-> WatchOf(p)', pathname |-> p] \in Item
           /\ list' \in Seq(Item) /\ Items' = Items \union {WatchOf(p)'}
           /\ Range(list') = Range(list) \union {[wd |-> WatchOf(p)', pathname |-> p]}
<1>1. /\ wds \in Nat /\ wd \in [Inodes -> 0..wds] /\ fs[p] \in Inodes /\ WatchOf(p) \in 0..wds
      /\ WatchOf(p) = wd[fs[p]] /\ WatchOf(p)' = wd'[fs[p]]
  BY Basics DEF TypeOK, WatchOf
<1>2. /\ wds' \in Nat /\ wds' >= wds /\ wd' \in [Inodes -> 0..wds']
      /\ wd'[fs[p]] \in 1..wds'
      /\ wd[fs[p]] # 0 => wd' = wd
      /\ wd'[fs[p]] = wd[fs[p]] \/ (wd'[fs[p]] = wds + 1 /\ wds' = wds + 1)
      /\ \A i \in Inodes : wd'[i] = wd[i] \/ (i = fs[p] /\ wd[i] = 0)
  <2>1. CASE WatchOf(p) = 0
    <3>1. wd' = [wd EXCEPT ![fs[p]] = wds + 1] /\ wds' = wds + 1
      BY <2>1 DEF WatchSubdir
    <3>2. wds' \in Nat /\ wds' = wds + 1 /\ wds' >= wds /\ wds + 1 \in 1..wds'
      BY <1>1, <3>1
    <3>3. wd'[fs[p]] = wds + 1 /\ \A i \in Inodes : i # fs[p] => wd'[i] = wd[i]
      BY <1>1, <3>1
    <3>4. wd' \in [Inodes -> 0..wds']
      BY <1>1, <3>1, <3>2
    <3>5. wd[fs[p]] = 0
      BY <1>1, <2>1
    <3> QED BY <3>2, <3>3, <3>4, <3>5
  <2>2. CASE WatchOf(p) # 0
    <3>1. wd' = wd /\ wds' = wds
      BY <2>2 DEF WatchSubdir
    <3> QED BY <1>1, <2>2, <3>1
  <2> QED BY <2>1, <2>2
<1>3. Watches' = Watches \union {wd'[fs[p]]}
  <2>1. wd'[fs[p]] # 0 /\ wd'[fs[p]] \in Watches'
    BY <1>1, <1>2 DEF Watches
  <2>2. Watches \subseteq Watches'
    BY <1>2 DEF Watches
  <2>3. ASSUME NEW w \in Watches' PROVE w \in Watches \/ w = wd'[fs[p]]
    BY <1>2 DEF Watches
  <2> QED BY <2>1, <2>2, <2>3
<1>4. wd'[fs[p]] \in Watches \/ (wd'[fs[p]] = wds + 1 /\ wds' = wds + 1)
  BY <1>1, <1>2 DEF Watches
<1> DEFINE item == [wd |-> wd'[fs[p]], pathname |-> p]
<1>5. list' = Append(list, item) /\ item \in Item
  BY <1>2 DEF WatchSubdir, Item
<1>6. list' \in Seq(Item) /\ Range(list') = Range(list) \union {item}
  BY <1>5, AppendRange DEF Buffers
<1>7. Items' = Items \union {wd'[fs[p]]}
  <2>1. Items' = {x.wd : x \in Range(list) \union {item}}
    BY <1>6 DEF Items
  <2>2. item.wd = wd'[fs[p]]
    OBVIOUS
  <2> HIDE DEF item
  <2> QED BY <2>1, <2>2 DEF Items
<1> QED BY <1>1, <1>2, <1>3, <1>4, <1>5, <1>6, <1>7

\* The first of the events that were read is the first that is pending.
LEMMA FirstEvent ==
    ASSUME Buffers, batch # <<>>, batch' = Tail(batch), queue' = queue
    PROVE  /\ Pending \in Seq(Ev) /\ Pending' \in Seq(Ev) /\ batch' \in Seq(Ev)
           /\ Head(batch) = Pending[1] /\ Len(Pending) \in Nat /\ Len(Pending) >= 1
           /\ Head(batch) \in Range(Pending)
           /\ Len(Pending') = Len(Pending) - 1
           /\ DOMAIN Pending = 1..Len(Pending) /\ DOMAIN Pending' = 1..(Len(Pending) - 1)
           /\ \A k \in 1..(Len(Pending) - 1) : Pending'[k] = Pending[k + 1]
           /\ Range(Pending') \subseteq Range(Pending)
           /\ Range(Pending) \subseteq Range(Pending') \union {Head(batch)}
<1>0. batch \in Seq(Ev) /\ queue \in Seq(Ev)
  BY DEF Buffers
<1>1. /\ Tail(batch) \in Seq(Ev) /\ Len(Tail(batch)) = Len(batch) - 1 /\ Len(batch) \in Nat
      /\ Len(batch) >= 1 /\ Head(batch) = batch[1] /\ Len(queue) \in Nat
      /\ \A k \in 1..(Len(batch) - 1) : Tail(batch)[k] = batch[k + 1]
  BY <1>0
<1>2. /\ Pending \in Seq(Ev) /\ Len(Pending) = Len(batch) + Len(queue)
      /\ \A k \in 1..(Len(batch) + Len(queue)) :
           Pending[k] = IF k =< Len(batch) THEN batch[k] ELSE queue[k - Len(batch)]
  BY <1>0, ConcatProperties DEF Pending
<1> DEFINE n == Len(batch) - 1
<1>3. /\ Pending' \in Seq(Ev) /\ Len(Pending') = n + Len(queue)
      /\ \A k \in 1..(n + Len(queue)) :
           Pending'[k] = IF k =< n THEN Tail(batch)[k] ELSE queue[k - n]
  BY <1>0, <1>1, ConcatProperties DEF Pending
<1>4. ASSUME NEW k \in 1..(Len(Pending) - 1) PROVE Pending'[k] = Pending[k + 1]
  <2>0. k \in 1..(n + Len(queue)) /\ k + 1 \in 1..(Len(batch) + Len(queue))
    BY <1>1, <1>2
  <2>1. CASE k =< n
    <3>1. k + 1 =< Len(batch) /\ k \in 1..n
      BY <1>1, <2>0, <2>1
    <3> QED BY <1>1, <1>2, <1>3, <2>0, <2>1, <3>1
  <2>2. CASE ~(k =< n)
    <3>1. ~(k + 1 =< Len(batch)) /\ k - n = k + 1 - Len(batch)
      BY <1>1, <2>0, <2>2
    <3> QED BY <1>2, <1>3, <2>0, <2>2, <3>1
  <2> QED BY <2>1, <2>2
<1>5. /\ Len(Pending) \in Nat /\ Len(Pending) >= 1 /\ Len(Pending') = Len(Pending) - 1
      /\ DOMAIN Pending = 1..Len(Pending) /\ DOMAIN Pending' = 1..(Len(Pending) - 1)
      /\ Head(batch) = Pending[1]
  BY <1>1, <1>2, <1>3
<1>6. Range(Pending') \subseteq Range(Pending)
  <2> SUFFICES ASSUME NEW k \in 1..(Len(Pending) - 1) PROVE Pending'[k] \in Range(Pending)
    BY <1>5 DEF Range
  <2> QED BY <1>4, <1>5 DEF Range
<1>7. Range(Pending) \subseteq Range(Pending') \union {Head(batch)}
  <2> SUFFICES ASSUME NEW k \in 1..Len(Pending), k # 1 PROVE Pending[k] \in Range(Pending')
    BY <1>5 DEF Range
  <2>1. k - 1 \in 1..(Len(Pending) - 1) /\ (k - 1) + 1 = k
    BY <1>5
  <2> QED BY <1>4, <1>5, <2>1 DEF Range
<1>8. Head(batch) \in Range(Pending)
  BY <1>5 DEF Range
<1> QED BY <1>0, <1>1, <1>2, <1>3, <1>4, <1>5, <1>6, <1>7, <1>8

\* A read moves events; what is pending and its order stay.
LEMMA ReadKeeps ==
    ASSUME TypeOK, Buffers, Read
    PROVE  /\ Pending' = Pending /\ batch' \in Seq(Ev) /\ queue' \in Seq(Ev) /\ batch' # <<>>
           /\ Bounded(queue')
<1>1. batch = <<>> /\ Pending = queue /\ Len(queue) \in Nat /\ queue \in Seq(Ev)
  BY ConcatEmptySeq DEF Buffers, Read, Pending
<1>2. PICK n \in 1..Len(queue) :
        batch' = SubSeq(queue, 1, n) /\ queue' = SubSeq(queue, n + 1, Len(queue))
  BY DEF Read
<1>3. Pending' = queue
  <2>1. 1 \in 1..(Len(queue) + 1) /\ n \in (1 - 1)..Len(queue) /\ Len(queue) \in n..Len(queue)
    BY <1>1, <1>2
  <2>2. SubSeq(queue, 1, n) \o SubSeq(queue, n + 1, Len(queue)) = SubSeq(queue, 1, Len(queue))
    BY <1>1, <2>1, ConcatAdjacentSubSeq
  <2> QED BY <1>1, <1>2, <2>2, SubSeqFull DEF Pending
<1>4. /\ batch' \in Seq(Ev) /\ Len(batch') = n
      /\ queue' \in Seq(Ev) /\ Len(queue') = Len(queue) - n
      /\ \A k \in 1..(Len(queue) - n) : queue'[k] = queue[n + k]
  BY <1>1, <1>2
<1>5. batch' # <<>>
  <2> SUFFICES ASSUME batch' = <<>> PROVE FALSE
    OBVIOUS
  <2>1. Len(batch') = 0
    OBVIOUS
  <2> QED BY <1>2, <1>4, <2>1
<1>6. Bounded(queue')
  <2>1. Len(queue') =< Len(queue) /\ n + (Len(queue) - n) = Len(queue)
    BY <1>1, <1>4
  <2>2. Len(queue') > 0 => queue'[Len(queue')] = queue[Len(queue)]
    BY <1>1, <1>4, <2>1, SMTT(30)
  <2>3. MAXQ \in Nat /\ Len(queue') \in Nat /\ Len(queue) \in Nat
    BY <1>1, <1>4, ConstAssumption
  <2>4. Len(queue) =< MAXQ + 1 /\ (Len(queue) > MAXQ => queue[Len(queue)] = Overflow)
    BY DEF Buffers, Bounded
  <2> QED BY <2>1, <2>2, <2>3, <2>4 DEF Bounded
<1> QED BY <1>1, <1>3, <1>4, <1>5, <1>6
-----------------------------------------------------------------------------
(* What the operations of others do *)

\* The queue q has become r: the events es are in it, or an overflow is.
Grown(q, r, es) ==
    /\ r \in Seq(Ev) /\ Bounded(r)
    /\ Range(q) \subseteq Range(r) /\ Range(r) \subseteq Range(q) \union es \union {Overflow}
    /\ Overflow \notin Range(r) => \A e \in es : e.wd # 0 => e \in Range(r)

\* One event more.
LEMMA GrownPut ==
    ASSUME NEW q, NEW r, NEW es, Grown(q, r, es), NEW e \in Ev
    PROVE  Grown(q, Put(r, e), es \union {e})
<1>1. /\ Put(r, e) \in Seq(Ev) /\ Bounded(Put(r, e))
      /\ Range(r) \subseteq Range(Put(r, e))
      /\ Range(Put(r, e)) \subseteq Range(r) \union {e, Overflow}
      /\ e.wd # 0 => e \in Range(Put(r, e)) \/ Overflow \in Range(Put(r, e))
  BY PutRange DEF Grown
<1> QED BY <1>1 DEF Grown

\* What an operation that puts these events does to what is pending.
LEMMA Notified ==
    ASSUME TypeOK, Buffers, Events, NEW es, NEW r, Grown(queue, r, es), Notify(r), batch' = batch
    PROVE  /\ Pending' \in Seq(Ev) /\ queue' \in Seq(Ev) /\ Bounded(queue')
           /\ Range(Pending) \subseteq Range(Pending')
           /\ Range(Pending') \subseteq Range(Pending) \union es \union {Overflow}
           /\ Overflow \in Range(Pending') => overflow'
           /\ overflow => overflow'
           /\ ~overflow' => \A e \in es : e.wd # 0 => e \in Range(Pending')
<1>1. Range(Pending) = Range(batch) \union Range(queue)
  BY Basics
<1>2. queue' = r /\ (overflow' <=> overflow \/ Overflow \in Range(queue'))
  BY DEF Notify, TypeOK
<1>3. Pending' \in Seq(Ev) /\ Range(Pending') = Range(batch) \union Range(queue')
  BY <1>2, ConcatProperties, RangeConcatenation DEF Pending, Buffers, Grown
<1> QED BY <1>1, <1>2, <1>3 DEF Grown, Events

\* Nothing has been put yet.
LEMMA GrownStart ==
    ASSUME Buffers
    PROVE  Grown(queue, queue, {})
  BY DEF Grown, Buffers

CreateEvent(p) == Event(WatchOf(Front(p)), "create", <<Last(p)>>)

\* mkdir: a directory with a number and no watch, and an event if its parent has one.
LEMMA MkdirDoes ==
    ASSUME TypeOK, Buffers, Numbers, Closed, Events, NEW p \in Paths, Mkdir(p)
    PROVE  /\ p # <<>> /\ fs[p] = 0 /\ Front(p) \in Paths /\ Exists(Front(p)) /\ Front(p) # p
           /\ ops < MaxOps /\ ops' = ops + 1
           /\ inodes + 1 \in Inodes /\ wd[inodes + 1] = 0 /\ inodes' = inodes + 1
           /\ fs' = [fs EXCEPT ![p] = inodes + 1]
           /\ CreateEvent(p) \in Ev /\ CreateEvent(p).kind = "create"
           /\ CreateEvent(p).wd = WatchOf(Front(p)) /\ CreateEvent(p).name = <<Last(p)>>
           /\ WatchOf(Front(p)) \in 0..wds
           /\ WatchOf(Front(p)) # 0 => WatchOf(Front(p)) \in Watches
           /\ Pending' \in Seq(Ev) /\ queue' \in Seq(Ev) /\ Bounded(queue')
           /\ Range(Pending) \subseteq Range(Pending')
           /\ Range(Pending') \subseteq Range(Pending) \union {CreateEvent(p), Overflow}
           /\ Overflow \in Range(Pending') => overflow'
           /\ overflow => overflow'
           /\ ~overflow' /\ WatchOf(Front(p)) # 0 => CreateEvent(p) \in Range(Pending')
           /\ EventsOf(Pending', Watches)
<1>1. /\ p # <<>> /\ fs[p] = 0 /\ Front(p) \in Paths /\ Exists(Front(p))
      /\ ops < MaxOps /\ ops' = ops + 1 /\ inodes' = inodes + 1
      /\ fs' = [fs EXCEPT ![p] = inodes + 1] /\ batch' = batch
      /\ Notify(Put(queue, CreateEvent(p)))
  BY DEF Mkdir, Operates, Exists, CreateEvent, program
<1>2. Front(p) # p
  <2>1. Len(Front(p)) = Len(p) - 1 /\ Len(p) \in Nat
    BY <1>1, PathTypes, FrontLast
  <2> QED BY <2>1
<1>3. inodes + 1 \in Inodes /\ wd[inodes + 1] = 0
  <2>1. inodes =< Cardinality(Paths) + ops /\ ops \in 0..MaxOps
    BY DEF Numbers, TypeOK
  <2>2. inodes + 1 \in Inodes
    BY <1>1, <2>1, Basics DEF Inodes
  <2>3. inodes + 1 > inodes
    BY Basics
  <2> QED BY <2>2, <2>3 DEF Numbers
<1>4. /\ WatchOf(Front(p)) \in 0..wds /\ wds \in Nat
      /\ WatchOf(Front(p)) # 0 => WatchOf(Front(p)) \in Watches
  BY <1>1, Basics
<1>5. /\ CreateEvent(p) \in Ev /\ CreateEvent(p).kind = "create"
      /\ CreateEvent(p).wd = WatchOf(Front(p)) /\ CreateEvent(p).name = <<Last(p)>>
  <2>1. Last(p) \in Names
    BY <1>1, PathTypes, FrontLast
  <2>2. WatchOf(Front(p)) \in Nat /\ "create" \in Kinds /\ <<Last(p)>> \in Seq(Names)
    BY <1>4, <2>1 DEF Kinds
  <2> QED BY <2>2 DEF CreateEvent, Event, Ev
<1>6. Grown(queue, Put(queue, CreateEvent(p)), {CreateEvent(p)})
  BY <1>5, GrownStart, GrownPut
<1>7. EventsOf(Pending', Watches)
  <2>1. Pending' = batch \o Put(queue, CreateEvent(p))
    BY <1>1 DEF Pending, Notify
  <2>2. EventsOf(batch \o queue, Watches) /\ batch \in Seq(Ev) /\ queue \in Seq(Ev)
    BY DEF Events, Pending, Buffers
  <2> QED BY <1>4, <1>5, <2>1, <2>2, Basics, EventsPut
<1>8. /\ Pending' \in Seq(Ev) /\ queue' \in Seq(Ev) /\ Bounded(queue')
      /\ Range(Pending) \subseteq Range(Pending')
      /\ Range(Pending') \subseteq Range(Pending) \union {CreateEvent(p)} \union {Overflow}
      /\ Overflow \in Range(Pending') => overflow'
      /\ overflow => overflow'
      /\ ~overflow' => \A e \in {CreateEvent(p)} : e.wd # 0 => e \in Range(Pending')
  BY <1>1, <1>6, Notified
<1> QED BY <1>1, <1>2, <1>3, <1>4, <1>5, <1>7, <1>8

IgnoredEvent(p) == Event(WatchOf(p), "ignored", <<>>)
OtherEvent(w) == Event(w, "other", <<>>)

\* These events are events.
LEMMA OtherTypes ==
    ASSUME NEW w \in Nat
    PROVE  /\ OtherEvent(w) \in Ev /\ OtherEvent(w).wd = w /\ OtherEvent(w).kind = "other"
           /\ Event(w, "ignored", <<>>) \in Ev /\ Event(w, "ignored", <<>>).wd = w
           /\ Event(w, "ignored", <<>>).kind = "ignored"
<1>1. "other" \in Kinds /\ "ignored" \in Kinds /\ <<>> \in Seq(Names)
  BY EmptySeq DEF Kinds
<1> QED BY <1>1 DEF OtherEvent, Event, Ev

\* rmdir: the directory and its watch are gone, and the parent is another one.
LEMMA RmdirDoes ==
    ASSUME TypeOK, Buffers, Numbers, Closed, Events, NEW p \in Paths, Rmdir(p)
    PROVE  LET v == IF p = <<>> THEN 0 ELSE WatchOf(Front(p)) IN
           /\ Exists(p) /\ fs[p] \in Inodes /\ Children(p) = {}
           /\ ops < MaxOps /\ ops' = ops + 1
           /\ fs' = [fs EXCEPT ![p] = 0] /\ wd' = [wd EXCEPT ![fs[p]] = 0]
           /\ WatchOf(p) \in 0..wds /\ v \in 0..wds /\ v \in Watches' \union {0}
           /\ Watches' = Watches \ {WatchOf(p)}
           /\ WatchOf(p) # 0 => WatchOf(p) \in Watches
           /\ IgnoredEvent(p) \in Ev /\ OtherEvent(v) \in Ev
           /\ IgnoredEvent(p).wd = WatchOf(p) /\ OtherEvent(v).wd = v
           /\ IgnoredEvent(p).kind = "ignored" /\ OtherEvent(v).kind = "other"
           /\ Pending' \in Seq(Ev) /\ queue' \in Seq(Ev) /\ Bounded(queue')
           /\ Range(Pending) \subseteq Range(Pending')
           /\ Range(Pending') \subseteq Range(Pending) \union {IgnoredEvent(p), OtherEvent(v)} \union {Overflow}
           /\ Overflow \in Range(Pending') => overflow'
           /\ overflow => overflow'
           /\ EventsOf(Pending', Watches')
           /\ WatchOf(p) = 0 => IgnoredEvent(p) \notin Range(Pending') \ Range(Pending)
           /\ v = 0 => OtherEvent(v) \notin Range(Pending') \ Range(Pending)
<1> DEFINE v == IF p = <<>> THEN 0 ELSE WatchOf(Front(p))
           i == fs[p]
<1>1. /\ Exists(p) /\ Children(p) = {}
      /\ ops < MaxOps /\ ops' = ops + 1 /\ batch' = batch
      /\ fs' = [fs EXCEPT ![p] = 0] /\ wd' = [wd EXCEPT ![fs[p]] = 0]
      /\ Notify(Put(Put(queue, IgnoredEvent(p)), OtherEvent(v)))
  BY DEF Rmdir, Operates, IgnoredEvent, OtherEvent, program
<1>2. /\ fs[p] \in Inodes /\ WatchOf(p) \in 0..wds /\ wds \in Nat /\ WatchOf(p) = wd[fs[p]]
      /\ WatchOf(p) # 0 => WatchOf(p) \in Watches
      /\ wd \in [Inodes -> 0..wds]
  BY <1>1, Basics DEF WatchOf, TypeOK
<1>3. Watches' = Watches \ {WatchOf(p)}
  <2>1. wd'[fs[p]] = 0 /\ \A j \in Inodes : j # fs[p] => wd'[j] = wd[j]
    BY <1>1, <1>2
  <2>2. \A j \in Inodes : wd[j] = wd[fs[p]] /\ wd[j] # 0 => j = fs[p]
    BY <1>2 DEF Numbers
  <2>3. ASSUME NEW x \in Watches' PROVE x \in Watches /\ x # WatchOf(p)
    <3>1. PICK j \in Inodes : x = wd'[j] /\ x # 0
      BY DEF Watches
    <3> QED BY <1>2, <2>1, <2>2, <3>1 DEF Watches
  <2>4. ASSUME NEW x \in Watches, x # WatchOf(p) PROVE x \in Watches'
    <3>1. PICK j \in Inodes : x = wd[j] /\ x # 0
      BY DEF Watches
    <3> QED BY <1>2, <2>1, <2>4, <3>1 DEF Watches
  <2> QED BY <2>3, <2>4
<1>4. v \in 0..wds /\ v \in Watches' \union {0}
  <2>1. CASE p = <<>>
    BY <1>2, <2>1
  <2>2. CASE p # <<>>
    <3>1. Front(p) \in Paths /\ Exists(Front(p)) /\ Front(p) # p
      BY <1>1, <2>2, Parent
    <3>2. /\ fs[Front(p)] \in Inodes /\ WatchOf(Front(p)) \in 0..wds
          /\ (WatchOf(Front(p)) # 0 => WatchOf(Front(p)) \in Watches)
          /\ WatchOf(Front(p)) = wd[fs[Front(p)]]
      BY <3>1, Basics DEF WatchOf
    <3>3. fs[Front(p)] # fs[p]
      BY <1>1, <3>1 DEF TypeOK, Exists
    <3>4. WatchOf(Front(p)) # 0 => WatchOf(Front(p)) # WatchOf(p)
      BY <1>2, <3>2, <3>3 DEF Numbers
    <3>5. v = WatchOf(Front(p))
      BY <2>2
    <3> QED BY <1>3, <3>2, <3>4, <3>5
  <2> QED BY <2>1, <2>2
<1> HIDE DEF v
<1>5. WatchOf(p) \in Nat /\ v \in Nat
  BY <1>2, <1>4
<1>6. /\ IgnoredEvent(p) \in Ev /\ OtherEvent(v) \in Ev
      /\ IgnoredEvent(p).wd = WatchOf(p) /\ OtherEvent(v).wd = v
      /\ IgnoredEvent(p).kind = "ignored" /\ OtherEvent(v).kind = "other"
  BY <1>5, OtherTypes DEF IgnoredEvent
<1>7. Grown(queue, Put(Put(queue, IgnoredEvent(p)), OtherEvent(v)), {IgnoredEvent(p), OtherEvent(v)})
  <2>1. Grown(queue, Put(queue, IgnoredEvent(p)), {} \union {IgnoredEvent(p)})
    BY <1>6, GrownStart, GrownPut
  <2>2. Grown(queue, Put(Put(queue, IgnoredEvent(p)), OtherEvent(v)),
              ({} \union {IgnoredEvent(p)}) \union {OtherEvent(v)})
    BY <1>6, <2>1, GrownPut
  <2>3. ({} \union {IgnoredEvent(p)}) \union {OtherEvent(v)} = {IgnoredEvent(p), OtherEvent(v)}
    OBVIOUS
  <2> QED BY <2>2, <2>3
<1>8. EventsOf(Pending', Watches')
  <2>1. Pending' = batch \o Put(Put(queue, IgnoredEvent(p)), OtherEvent(v))
    BY <1>1 DEF Pending, Notify
  <2>2. EventsOf(batch \o queue, Watches) /\ batch \in Seq(Ev) /\ queue \in Seq(Ev)
    BY DEF Events, Pending, Buffers
  <2>3. Watches \in SUBSET Nat /\ 0 \notin Watches /\ WatchOf(p) \in Watches \union {0}
    BY <1>2, Basics
  <2>4. EventsOf(batch \o Put(queue, IgnoredEvent(p)), Watches \ {WatchOf(p)})
    BY <2>2, <2>3, EventsPutIgnored DEF IgnoredEvent
  <2>5. Put(queue, IgnoredEvent(p)) \in Seq(Ev)
    BY <1>6, PutRange DEF Buffers
  <2>6. Watches' \in SUBSET Nat /\ 0 \notin Watches' /\ (v = 0 \/ v \in Watches')
    BY <1>3, <1>4, <2>3
  <2>7. EventsOf(batch \o Put(queue, IgnoredEvent(p)), Watches')
    BY <1>3, <2>4
  <2>8. /\ OtherEvent(v) \in Ev /\ OtherEvent(v).kind \notin {"ignored", "overflow"}
        /\ OtherEvent(v).wd = 0 \/ OtherEvent(v).wd \in Watches'
    BY <1>6, <2>6
  <2>9. EventsOf(batch \o Put(Put(queue, IgnoredEvent(p)), OtherEvent(v)), Watches')
    BY <2>2, <2>5, <2>6, <2>7, <2>8, EventsPut
  <2> QED BY <2>1, <2>9
<1>9. /\ Pending' \in Seq(Ev) /\ queue' \in Seq(Ev) /\ Bounded(queue')
      /\ Range(Pending) \subseteq Range(Pending')
      /\ Range(Pending') \subseteq Range(Pending) \union {IgnoredEvent(p), OtherEvent(v)} \union {Overflow}
      /\ Overflow \in Range(Pending') => overflow'
      /\ overflow => overflow'
  BY <1>1, <1>7, Notified
<1>10. /\ WatchOf(p) = 0 => IgnoredEvent(p) \notin Range(Pending') \ Range(Pending)
       /\ v = 0 => OtherEvent(v) \notin Range(Pending') \ Range(Pending)
  <2>1. ASSUME NEW e \in Range(Pending') \ Range(Pending), e.wd = 0 PROVE e = Overflow
    <3>1. PICK k \in DOMAIN Pending' : e = Pending'[k]
      BY DEF Range
    <3> QED BY <1>8, <2>1, <3>1 DEF EventsOf
  <2> QED BY <1>6, <2>1, EventTypes
<1> QED BY <1>1, <1>2, <1>3, <1>4, <1>6, <1>8, <1>9, <1>10 DEF v

\* rename: watches stay, and only events of watches there are are put.
LEMMA MoveDoes ==
    ASSUME TypeOK, Buffers, Closed, Events, NEW p \in Paths, NEW q \in Paths, Move(p, q)
    PROVE  /\ ops < MaxOps /\ ops' = ops + 1 /\ "rename" \in changed'
           /\ UNCHANGED <<inodes, wd, wds, list, pc, stack, dir, batch, late>>
           /\ Pending' \in Seq(Ev) /\ queue' \in Seq(Ev) /\ Bounded(queue')
           /\ \A e \in Range(Pending') : e \in Range(Pending) \/ e = Overflow \/ e.wd \in Watches
           /\ Overflow \in Range(Pending') => overflow'
           /\ overflow => overflow'
           /\ EventsOf(Pending', Watches)
<1> DEFINE u == WatchOf(Front(p))
           v == WatchOf(Front(q))
           w == WatchOf(p)
           q1 == Put(queue, OtherEvent(u))
           q2 == Put(q1, OtherEvent(v))
           q3 == Put(q2, OtherEvent(w))
           es == ({} \union {OtherEvent(u)}) \union {OtherEvent(v)} \union {OtherEvent(w)}
<1>1. /\ ops < MaxOps /\ ops' = ops + 1 /\ "rename" \in changed' /\ p # <<>> /\ q # <<>>
      /\ UNCHANGED <<inodes, wd, wds, list, pc, stack, dir, batch, late>>
      /\ Exists(p) /\ Exists(Front(q)) /\ Notify(q3)
  BY DEF Move, Operates, program, OtherEvent
<1>2. Exists(Front(p)) /\ Front(p) \in Paths /\ Front(q) \in Paths
  BY <1>1, Parent DEF Exists
<1>3. wds \in Nat /\ \A x \in {u, v, w} : x \in 0..wds /\ (x # 0 => x \in Watches)
  BY <1>1, <1>2, Basics
<1> HIDE DEF u, v, w
<1>4. u \in Nat /\ v \in Nat /\ w \in Nat
  BY <1>3
<1>5. \A x \in {u, v, w} : OtherEvent(x) \in Ev /\ OtherEvent(x).wd = x /\ OtherEvent(x).kind = "other"
  BY <1>4, OtherTypes
<1>6. Grown(queue, q1, {} \union {OtherEvent(u)})
  BY <1>5, GrownStart, GrownPut
<1>7. Grown(queue, q2, ({} \union {OtherEvent(u)}) \union {OtherEvent(v)})
  BY <1>5, <1>6, GrownPut
<1>8. Grown(queue, q3, es)
  BY <1>5, <1>7, GrownPut
<1>9. q1 \in Seq(Ev) /\ q2 \in Seq(Ev)
  BY <1>6, <1>7 DEF Grown
<1> HIDE DEF q3
<1>10. /\ Pending' \in Seq(Ev) /\ queue' \in Seq(Ev) /\ Bounded(queue')
       /\ Range(Pending') \subseteq Range(Pending) \union es \union {Overflow}
       /\ Overflow \in Range(Pending') => overflow'
       /\ overflow => overflow'
  BY <1>1, <1>8, Notified
<1>11. EventsOf(batch \o queue, Watches) /\ batch \in Seq(Ev) /\ queue \in Seq(Ev)
  BY DEF Events, Pending, Buffers
<1>12. Watches \in SUBSET Nat /\ 0 \notin Watches
  BY Basics
<1>13. \A x \in {u, v, w} : /\ OtherEvent(x).kind \notin {"ignored", "overflow"}
                            /\ OtherEvent(x).wd = 0 \/ OtherEvent(x).wd \in Watches
  BY <1>3, <1>5
<1>14. EventsOf(batch \o q1, Watches)
  BY <1>5, <1>11, <1>12, <1>13, EventsPut
<1>15. EventsOf(batch \o q2, Watches)
  BY <1>5, <1>9, <1>11, <1>12, <1>13, <1>14, EventsPut
<1>16. EventsOf(batch \o q3, Watches)
  BY <1>5, <1>9, <1>11, <1>12, <1>13, <1>15, EventsPut DEF q3
<1>17. Pending' = batch \o q3
  BY <1>1 DEF Pending, Notify
<1>18. \A e \in Range(Pending') : e \in Range(Pending) \/ e = Overflow \/ e.wd \in Watches
  <2> SUFFICES ASSUME NEW e \in Range(Pending'), e \notin Range(Pending), e # Overflow
               PROVE  e.wd \in Watches
    OBVIOUS
  <2>1. PICK x \in {u, v, w} : e = OtherEvent(x)
    BY <1>10
  <2>2. PICK k \in DOMAIN Pending' : e = Pending'[k]
    BY DEF Range
  <2>3. e.wd # 0
    BY <1>16, <1>17, <2>2 DEF EventsOf
  <2> QED BY <1>13, <2>1, <2>3
<1> QED BY <1>1, <1>10, <1>16, <1>17, <1>18
-----------------------------------------------------------------------------
(* Types, numbers, and the tree *)

\* Every step keeps the sequences.
LEMMA BuffersStep == IInv /\ [Next]_vars => Buffers'
<1> SUFFICES ASSUME IInv, [Next]_vars PROVE Buffers'
  OBVIOUS
<1>0. TypeOK /\ Buffers /\ Numbers /\ Closed /\ Events
  BY DEF IInv
<1>a. /\ batch \in Seq(Ev) /\ queue \in Seq(Ev) /\ list \in Seq(Item) /\ Bounded(queue)
      /\ pc = "handle" <=> batch # <<>> /\ pc # "exit"
      /\ pc \in {"fn", "readdir"} => stack # <<>>
      /\ pc = "readdir" => dir # 0
  BY <1>0 DEF Buffers
<1> HIDE DEF IInv
<1>1. ASSUME NEW p \in Paths, Mkdir(p) PROVE Buffers'
  BY <1>0, <1>a, <1>1, MkdirDoes DEF Mkdir, Operates, program, Buffers, Bounded
<1>2. ASSUME NEW p \in Paths, Rmdir(p) PROVE Buffers'
  BY <1>0, <1>a, <1>2, RmdirDoes DEF Rmdir, Operates, program, Buffers, Bounded
<1>3. ASSUME NEW p \in Paths, NEW q \in Paths, Move(p, q) PROVE Buffers'
  BY <1>0, <1>a, <1>3, MoveDoes DEF Buffers, Bounded
<1>4. CASE WalkStat \/ WalkDenied
  BY <1>a, <1>4 DEF WalkStat, WalkDenied, kernel, Buffers, Bounded
<1>5. CASE WalkFn
  <2>1. list' \in Seq(Item)
    BY <1>0, <1>5, WatchAdded DEF WalkFn, tree, Exists
  <2> QED BY <1>a, <1>5, <2>1 DEF WalkFn, Exists, Buffers, Bounded
<1>6. CASE WalkReaddir \/ WalkReaddirFails
  BY <1>a, <1>6 DEF WalkReaddir, WalkReaddirFails, Visit, kernel, Buffers, Bounded
<1>7. CASE WalkEnds \/ WalkFails \/ CallRefused \/ HandleUnknown
  BY <1>a, <1>7 DEF WalkEnds, WalkFails, CallRefused, HandleUnknown, kernel, Buffers, Bounded
<1>8. CASE Read
  BY <1>0, <1>a, <1>8, ReadKeeps DEF Read, Buffers, Bounded
<1>9. CASE HandleOther
  BY <1>a, <1>9, FirstEvent, <1>0 DEF HandleOther, Handles, Handled, kernel, Buffers, Bounded
<1>10. CASE HandleIgnored
  BY <1>a, <1>10, FirstEvent, RemoveItem, <1>0 DEF HandleIgnored, Handles, Handled, kernel, Buffers, Bounded
<1>11. CASE HandleCreate
  <2>1. list' \in Seq(Item)
    BY <1>0, <1>11, WatchAdded DEF HandleCreate, tree, Exists
  <2> QED BY <1>a, <1>11, <2>1, FirstEvent, <1>0 DEF HandleCreate, Handles, Handled, Buffers, Bounded
<1>12. CASE HandleCreateFails
  BY <1>a, <1>12, FirstEvent, <1>0 DEF HandleCreateFails, Handles, kernel, Buffers, Bounded
<1>13. CASE UNCHANGED vars
  BY <1>a, <1>13 DEF vars, Buffers, Bounded
<1> QED
  BY <1>1, <1>2, <1>3, <1>4, <1>5, <1>6, <1>7, <1>8, <1>9, <1>10, <1>11, <1>12, <1>13
     DEF Next, WatcherStep

\* A directory made gets the next number; a watch goes to a directory without one.
LEMMA NumbersStep == IInv /\ [Next]_vars => Numbers'
<1> SUFFICES ASSUME IInv, [Next]_vars PROVE Numbers'
  OBVIOUS
<1>0. TypeOK /\ Buffers /\ Numbers /\ Closed /\ Events
  BY DEF IInv
<1>a. /\ Cardinality(Paths) \in Nat /\ inodes \in Nat /\ ops \in Nat /\ wds \in Nat
      /\ wd \in [Inodes -> 0..wds]
  BY <1>0, Basics DEF TypeOK
<1>1. ASSUME NEW p \in Paths, Mkdir(p) PROVE Numbers'
  <2>1. inodes' = inodes + 1 /\ ops' = ops + 1 /\ wd' = wd
    BY <1>1 DEF Mkdir, Operates
  <2>2. inodes' =< Cardinality(Paths) + ops'
    BY <1>0, <1>a, <2>1 DEF Numbers
  <2>3. \A i \in Inodes : i > inodes' => i > inodes
    BY <1>a, <2>1 DEF Inodes
  <2> QED BY <1>0, <2>1, <2>2, <2>3 DEF Numbers
<1>2. ASSUME NEW p \in Paths, Rmdir(p) PROVE Numbers'
  <2>1. inodes' = inodes /\ ops' = ops + 1 /\ wd' = [wd EXCEPT ![fs[p]] = 0]
    BY <1>2 DEF Rmdir, Operates
  <2>2. inodes' =< Cardinality(Paths) + ops'
    BY <1>0, <1>a, <2>1 DEF Numbers
  <2>3. \A i \in Inodes : wd'[i] = wd[i] \/ wd'[i] = 0
    BY <1>a, <2>1
  <2> QED BY <1>0, <2>1, <2>2, <2>3 DEF Numbers
<1>3. ASSUME NEW p \in Paths, NEW q \in Paths, Move(p, q) PROVE Numbers'
  <2>1. inodes' = inodes /\ ops' = ops + 1 /\ wd' = wd
    BY <1>3 DEF Move, Operates
  <2>2. inodes' =< Cardinality(Paths) + ops'
    BY <1>0, <1>a, <2>1 DEF Numbers
  <2> QED BY <1>0, <2>1, <2>2 DEF Numbers
<1>4. ASSUME NEW p \in Paths, Exists(p), WatchSubdir(p), fs' = fs, inodes' = inodes, ops' = ops
      PROVE  Numbers'
  <2>1. /\ WatchOf(p)' = wd'[fs[p]] /\ fs[p] \in Inodes /\ fs[p] =< inodes
        /\ WatchOf(p) = wd[fs[p]]
    BY <1>0, <1>4, Basics DEF WatchOf, TypeOK
  <2>2. /\ wd'[fs[p]] \in Watches \/ wd'[fs[p]] = wds + 1
        /\ \A i \in Inodes : wd'[i] = wd[i] \/ (i = fs[p] /\ wd[i] = 0)
        /\ wd[fs[p]] # 0 => wd'[fs[p]] = wd[fs[p]]
    BY <1>0, <1>4, <2>1, WatchAdded
  <2>3. \A i \in Inodes : wd[i] # wds + 1
    BY <1>a
  <2>4. ASSUME NEW i \in Inodes, NEW j \in Inodes, wd'[i] = wd'[j], wd'[i] # 0, i # j PROVE FALSE
    <3>1. CASE wd'[fs[p]] = wd[fs[p]]
      BY <1>0, <2>2, <2>4, <3>1 DEF Numbers
    <3>2. CASE wd'[fs[p]] # wd[fs[p]]
      <4>1. wd' = [wd EXCEPT ![fs[p]] = wds + 1]
        BY <1>4, <2>1, <2>2, <3>2 DEF WatchSubdir
      <4> QED BY <1>0, <1>a, <2>3, <2>4, <4>1 DEF Numbers
    <3> QED BY <3>1, <3>2
  <2>5. \A i \in Inodes : i > inodes' => wd'[i] = 0
    <3> SUFFICES ASSUME NEW i \in Inodes, i > inodes PROVE wd'[i] = 0
      BY <1>4
    <3>1. i # fs[p] /\ wd[i] = 0
      BY <1>0, <1>a, <2>1 DEF Numbers, Inodes
    <3> QED BY <2>2, <3>1
  <2> QED BY <1>0, <1>4, <2>4, <2>5 DEF Numbers
<1>5. CASE WalkFn
  BY <1>4, <1>5 DEF WalkFn, tree, history, Exists
<1>6. CASE HandleCreate
  BY <1>4, <1>6 DEF HandleCreate, tree, history, Exists
<1>7. CASE UNCHANGED <<inodes, wd, ops>>
  BY <1>0, <1>7 DEF Numbers
<1>8. CASE \/ WalkStat \/ WalkDenied \/ WalkReaddir \/ WalkReaddirFails
           \/ WalkEnds \/ WalkFails \/ CallRefused \/ Read \/ HandleOther
           \/ HandleIgnored \/ HandleCreateFails \/ HandleUnknown \/ UNCHANGED vars
  BY <1>7, <1>8 DEF WalkStat, WalkDenied, WalkReaddir, WalkReaddirFails, WalkEnds,
                    WalkFails, CallRefused, Read, HandleOther, HandleIgnored,
                    HandleCreateFails, HandleUnknown, vars, tree, kernel, history
<1> QED
  BY <1>1, <1>2, <1>3, <1>5, <1>6, <1>8 DEF Next, WatcherStep

\* A prefix, name by name.
LEMMA Prefix ==
    ASSUME NEW p \in Seq(Names), NEW q \in Seq(Names)
    PROVE  IsPrefix(p, q) <=> Len(p) =< Len(q) /\ \A k \in 1..Len(p) : p[k] = q[k]
<1>1. Len(p) \in Nat /\ Len(q) \in Nat
  OBVIOUS
<1>2. SubSeq(p, 1, Len(p)) = p
  BY SubSeqFull
<1>3. CASE Len(p) =< Len(q)
  <2>1. /\ SubSeq(q, 1, Len(p)) \in Seq(Names) /\ Len(SubSeq(q, 1, Len(p))) = Len(p)
        /\ \A k \in 1..Len(p) : SubSeq(q, 1, Len(p))[k] = q[k]
    BY <1>1, <1>3
  <2>2. p = SubSeq(q, 1, Len(p)) <=> \A k \in 1..Len(p) : p[k] = q[k]
    BY <2>1, SeqEqual
  <2> QED BY <1>2, <1>3, <2>2 DEF IsPrefix
<1>4. CASE ~(Len(p) =< Len(q))
  BY <1>4 DEF IsPrefix
<1> QED BY <1>3, <1>4

\* A proper prefix is a prefix of the parent, and the other way round.
LEMMA PrefixFront ==
    ASSUME NEW p \in Seq(Names), NEW q \in Seq(Names), q # <<>>
    PROVE  /\ IsPrefix(p, Front(q)) => IsPrefix(p, q)
           /\ IsPrefix(p, q) => p = q \/ IsPrefix(p, Front(q))
           /\ IsPrefix(q, q)
<1>0. Len(p) \in Nat
  OBVIOUS
<1>1. /\ Front(q) \in Seq(Names) /\ Len(q) \in Nat /\ Len(p) \in Nat /\ Len(Front(q)) = Len(q) - 1
      /\ \A k \in 1..(Len(q) - 1) : Front(q)[k] = q[k]
  BY <1>0, FrontLast
<1>2. IsPrefix(p, Front(q)) => IsPrefix(p, q)
  BY <1>1, Prefix
<1>3. ASSUME IsPrefix(p, q) PROVE p = q \/ IsPrefix(p, Front(q))
  <2>1. Len(p) =< Len(q) /\ \A k \in 1..Len(p) : p[k] = q[k]
    BY <1>3, Prefix
  <2>2. CASE Len(p) = Len(q)
    BY <2>1, <2>2, SeqEqual
  <2>3. CASE Len(p) =< Len(q) - 1
    BY <1>1, <2>1, <2>3, Prefix
  <2> QED BY <1>1, <2>1, <2>2, <2>3
<1>4. IsPrefix(q, q)
  BY <1>1, Prefix
<1> QED BY <1>2, <1>3, <1>4

\* Where rename(p, q) takes what is at r.
Moved(p, q, r) == q \o SubSeq(r, Len(p) + 1, Len(r))
Below(p) == {r \in Paths : IsPrefix(p, r) /\ fs[r] # 0}

LEMMA MovedNames ==
    ASSUME NEW p \in Seq(Names), NEW q \in Seq(Names), NEW r \in Seq(Names), Len(p) =< Len(r)
    PROVE  /\ Moved(p, q, r) \in Seq(Names) /\ Len(Moved(p, q, r)) = Len(q) + (Len(r) - Len(p))
           /\ \A k \in 1..Len(q) : Moved(p, q, r)[k] = q[k]
           /\ \A k \in 1..(Len(r) - Len(p)) : Moved(p, q, r)[Len(q) + k] = r[Len(p) + k]
<1> DEFINE t == SubSeq(r, Len(p) + 1, Len(r))
<1>1. Len(p) \in Nat /\ Len(q) \in Nat /\ Len(r) \in Nat
  OBVIOUS
<1>2. /\ t \in Seq(Names) /\ Len(t) = Len(r) - Len(p)
      /\ \A k \in 1..(Len(r) - Len(p)) : t[k] = r[Len(p) + k]
  BY <1>1
<1> HIDE DEF t
<1>3. /\ q \o t \in Seq(Names) /\ Len(q \o t) = Len(q) + Len(t)
      /\ \A k \in 1..(Len(q) + Len(t)) : (q \o t)[k] = IF k =< Len(q) THEN q[k] ELSE t[k - Len(q)]
  BY <1>2, ConcatProperties
<1>4. ASSUME NEW k \in 1..(Len(r) - Len(p)) PROVE (q \o t)[Len(q) + k] = r[Len(p) + k]
  <2>1. Len(q) + k \in 1..(Len(q) + Len(t)) /\ ~(Len(q) + k =< Len(q)) /\ (Len(q) + k) - Len(q) = k
    BY <1>1, <1>2
  <2> QED BY <1>2, <1>3, <2>1
<1>5. \A k \in 1..Len(q) : (q \o t)[k] = q[k]
  BY <1>1, <1>2, <1>3
<1> QED BY <1>2, <1>3, <1>4, <1>5 DEF Moved, t

\* Different directories go to different paths, and stay in each other.
LEMMA MovedApart ==
    ASSUME NEW p \in Seq(Names), NEW q \in Seq(Names), NEW r \in Seq(Names), NEW s \in Seq(Names),
           IsPrefix(p, r), IsPrefix(p, s), Moved(p, q, r) = Moved(p, q, s)
    PROVE  r = s
<1>1. /\ Len(p) =< Len(r) /\ Len(p) =< Len(s)
      /\ \A k \in 1..Len(p) : p[k] = r[k] /\ p[k] = s[k]
      /\ Len(p) \in Nat /\ Len(q) \in Nat /\ Len(r) \in Nat /\ Len(s) \in Nat
  BY Prefix
<1>r. /\ Len(Moved(p, q, r)) = Len(q) + (Len(r) - Len(p))
      /\ \A k \in 1..(Len(r) - Len(p)) : Moved(p, q, r)[Len(q) + k] = r[Len(p) + k]
  BY <1>1, MovedNames, ZenonT(60)
<1>s. /\ Len(Moved(p, q, s)) = Len(q) + (Len(s) - Len(p))
      /\ \A k \in 1..(Len(s) - Len(p)) : Moved(p, q, s)[Len(q) + k] = s[Len(p) + k]
  BY <1>1, MovedNames, ZenonT(60)
<1>3. Len(r) = Len(s)
  BY <1>1, <1>r, <1>s
<1>4. \A k \in 1..(Len(r) - Len(p)) : r[Len(p) + k] = s[Len(p) + k]
  BY <1>3, <1>r, <1>s
<1>5. ASSUME NEW k \in 1..Len(r) PROVE r[k] = s[k]
  <2>1. CASE k =< Len(p)
    BY <1>1, <2>1
  <2>2. CASE k > Len(p)
    <3>1. k - Len(p) \in 1..(Len(r) - Len(p)) /\ Len(p) + (k - Len(p)) = k
      BY <1>1, <2>2
    <3> QED BY <1>4, <3>1
  <2> QED BY <1>1, <2>1, <2>2
<1> QED BY <1>3, <1>5, SeqEqual

LEMMA MovedFront ==
    ASSUME NEW p \in Seq(Names), NEW q \in Seq(Names), NEW r \in Seq(Names), p # <<>>, q # <<>>,
           IsPrefix(p, r)
    PROVE  /\ r = p => Moved(p, q, r) = q
           /\ r # p => IsPrefix(p, Front(r)) /\ r # <<>> /\ Front(Moved(p, q, r)) = Moved(p, q, Front(r))
<1>1. Len(p) =< Len(r) /\ Len(p) \in Nat /\ Len(q) \in Nat /\ Len(r) \in Nat /\ Len(p) >= 1 /\ Len(q) >= 1
  BY Prefix, FrontLast
<1>2. r # <<>>
  <2>1. Len(<<>>) = 0
    OBVIOUS
  <2> QED BY <1>1, <2>1
<1>3. ASSUME r = p PROVE Moved(p, q, r) = q
  <2>1. /\ Moved(p, q, r) \in Seq(Names) /\ Len(Moved(p, q, r)) = Len(q)
        /\ \A k \in 1..Len(q) : Moved(p, q, r)[k] = q[k]
    BY <1>1, <1>3, MovedNames
  <2> QED BY <2>1, SeqEqual
<1>4. ASSUME r # p PROVE IsPrefix(p, Front(r)) /\ Front(Moved(p, q, r)) = Moved(p, q, Front(r))
  <2>1. IsPrefix(p, Front(r))
    BY <1>2, <1>4, PrefixFront
  <2> DEFINE m == Moved(p, q, r)
             n == Moved(p, q, Front(r))
             d == Len(r) - Len(p)
  <2>2. /\ Front(r) \in Seq(Names) /\ Len(Front(r)) = Len(r) - 1
        /\ \A k \in 1..(Len(r) - 1) : Front(r)[k] = r[k]
    BY <1>2, FrontLast
  <2>3. Len(p) =< Len(r) - 1
    BY <2>1, <2>2, Prefix
  <2>4. d \in Nat /\ d >= 1 /\ d - 1 = (Len(r) - 1) - Len(p)
    BY <1>1, <2>3
  <2>5. /\ m \in Seq(Names) /\ Len(m) = Len(q) + d
        /\ \A k \in 1..Len(q) : m[k] = q[k]
        /\ \A k \in 1..d : m[Len(q) + k] = r[Len(p) + k]
    BY <1>1, MovedNames
  <2>6. /\ n \in Seq(Names) /\ Len(n) = Len(q) + (d - 1)
        /\ \A k \in 1..Len(q) : n[k] = q[k]
        /\ \A k \in 1..(d - 1) : n[Len(q) + k] = Front(r)[Len(p) + k]
    <3>1. Len(Front(r)) - Len(p) = d - 1 /\ Len(p) =< Len(Front(r))
      BY <2>2, <2>3, <2>4
    <3> HIDE DEF d
    <3>2. /\ n \in Seq(Names) /\ Len(n) = Len(q) + (Len(Front(r)) - Len(p))
          /\ \A k \in 1..Len(q) : n[k] = q[k]
          /\ \A k \in 1..(Len(Front(r)) - Len(p)) : n[Len(q) + k] = Front(r)[Len(p) + k]
      BY <2>2, <3>1, MovedNames
    <3> QED BY <3>1, <3>2
  <2>7. \A k \in 1..(d - 1) : Front(r)[Len(p) + k] = r[Len(p) + k]
    BY <1>1, <2>2
  <2> HIDE DEF m, n, d
  <2>8. m # <<>>
    <3>1. Len(<<>>) = 0 /\ Len(m) # 0
      BY <1>1, <2>4, <2>5
    <3> QED BY <3>1
  <2>9. /\ Front(m) \in Seq(Names) /\ Len(Front(m)) = Len(m) - 1
        /\ \A k \in 1..(Len(m) - 1) : Front(m)[k] = m[k]
    BY <2>5, <2>8, FrontLast
  <2>10. Len(Front(m)) = Len(n)
    BY <1>1, <2>4, <2>5, <2>6, <2>9
  <2>11. ASSUME NEW k \in 1..Len(n) PROVE Front(m)[k] = n[k]
    <3>1. k \in 1..(Len(m) - 1) /\ Front(m)[k] = m[k] /\ k \in Nat
      BY <1>1, <2>4, <2>5, <2>6, <2>9
    <3>2. CASE k =< Len(q)
      BY <1>1, <2>5, <2>6, <3>1, <3>2
    <3>3. CASE k > Len(q)
      <4>1. k - Len(q) \in 1..(d - 1) /\ k - Len(q) \in 1..d /\ Len(q) + (k - Len(q)) = k
        BY <1>1, <2>4, <2>6, <3>3
      <4> QED BY <2>5, <2>6, <2>7, <3>1, <4>1
    <3> QED BY <1>1, <3>1, <3>2, <3>3
  <2>12. Front(m) = n
    BY <2>6, <2>9, <2>10, <2>11, SeqEqual
  <2> QED BY <2>1, <2>12 DEF m, n
<1> QED BY <1>2, <1>3, <1>4

\* The tree after rename(p, q): everything below p is below q, the rest stays.
LEMMA TreeMoved ==
    ASSUME TypeOK, Closed, NEW p \in Paths, NEW q \in Paths, Move(p, q)
    PROVE  /\ p # <<>> /\ q # <<>> /\ Exists(Front(q)) /\ ~IsPrefix(p, q)
           /\ DOMAIN fs' = Paths
           /\ \A b \in Below(p) : Moved(p, q, b) \in Paths /\ fs'[Moved(p, q, b)] = fs[b]
           /\ \A r \in Paths :
                (\A b \in Below(p) : Moved(p, q, b) # r) =>
                    fs'[r] = IF r \in Below(p) THEN 0 ELSE fs[r]
<1>1. /\ p # <<>> /\ q # <<>> /\ Exists(Front(q)) /\ ~IsPrefix(p, q)
      /\ \A b \in Below(p) : Moved(p, q, b) \in Paths
      /\ fs' = [r \in Paths |->
                  IF \E b \in Below(p) : Moved(p, q, b) = r
                  THEN fs[CHOOSE b \in Below(p) : Moved(p, q, b) = r]
                  ELSE IF r \in Below(p) THEN 0 ELSE fs[r]]
  BY DEF Move, Below, Moved
<1>2. ASSUME NEW b \in Below(p) PROVE fs'[Moved(p, q, b)] = fs[b]
  <2>1. PICK c \in Below(p) :
          Moved(p, q, c) = Moved(p, q, b) /\ fs'[Moved(p, q, b)] = fs[c]
    BY <1>1
  <2>2. c = b
    BY <2>1, PathTypes, MovedApart DEF Below
  <2> QED BY <2>1, <2>2
<1> QED BY <1>1, <1>2

\* Every step keeps a directory in a directory.
LEMMA ClosedStep == IInv /\ [Next]_vars => Closed'
<1> SUFFICES ASSUME IInv, [Next]_vars PROVE Closed'
  OBVIOUS
<1>0. TypeOK /\ Buffers /\ Numbers /\ Closed /\ Events /\ fs \in [Paths -> 0..inodes]
  BY DEF IInv, TypeOK
<1>a. \A r \in Paths \ {<<>>} : fs[r] # 0 => Front(r) \in Paths /\ fs[Front(r)] # 0
  BY <1>0 DEF Closed, Exists
<1> HIDE DEF IInv
<1>1. ASSUME NEW p \in Paths, Mkdir(p) PROVE Closed'
  <2>1. /\ fs' = [fs EXCEPT ![p] = inodes + 1] /\ Front(p) \in Paths /\ Exists(Front(p))
        /\ inodes + 1 # 0
    BY <1>0, <1>1, MkdirDoes, Basics
  <2>2. ASSUME NEW r \in Paths \ {<<>>}, fs'[r] # 0 PROVE Front(r) \in Paths /\ fs'[Front(r)] # 0
    BY <1>0, <1>a, <2>1, <2>2 DEF Exists
  <2> QED BY <2>2 DEF Closed, Exists
<1>2. ASSUME NEW p \in Paths, Rmdir(p) PROVE Closed'
  <2>1. fs' = [fs EXCEPT ![p] = 0] /\ Children(p) = {}
    BY <1>0, <1>2, RmdirDoes
  <2>2. ASSUME NEW r \in Paths \ {<<>>}, fs'[r] # 0 PROVE Front(r) \in Paths /\ fs'[Front(r)] # 0
    <3>1. fs[r] # 0
      BY <1>0, <2>1, <2>2
    <3>2. Front(r) # p
      BY <2>1, <3>1 DEF Children
    <3> QED BY <1>0, <1>a, <2>1, <3>1, <3>2
  <2> QED BY <2>2 DEF Closed, Exists
<1>3. ASSUME NEW p \in Paths, NEW q \in Paths, Move(p, q) PROVE Closed'
  <2>1. /\ p # <<>> /\ q # <<>> /\ Exists(Front(q)) /\ ~IsPrefix(p, q)
        /\ \A b \in Below(p) : Moved(p, q, b) \in Paths /\ fs'[Moved(p, q, b)] = fs[b]
        /\ \A r \in Paths :
             (\A b \in Below(p) : Moved(p, q, b) # r) =>
                 fs'[r] = IF r \in Below(p) THEN 0 ELSE fs[r]
    BY <1>0, <1>3, TreeMoved
  <2>2. ASSUME NEW r \in Paths, fs[r] # 0, r \notin Below(p) PROVE fs'[r] # 0
    BY <2>1, <2>2 DEF Below
  <2>3. ASSUME NEW r \in Paths \ {<<>>}, fs'[r] # 0 PROVE Front(r) \in Paths /\ fs'[Front(r)] # 0
    <3>0. \A x \in Paths : x \in Seq(Names)
      BY PathTypes
    <3>1. CASE \E b \in Below(p) : Moved(p, q, b) = r
      <4>1. PICK b \in Below(p) : Moved(p, q, b) = r
        BY <3>1
      <4>2. b \in Paths /\ IsPrefix(p, b) /\ fs[b] # 0
        BY DEF Below
      <4>3. CASE b = p
        <5>1. r = q
          BY <2>1, <3>0, <4>1, <4>2, <4>3, MovedFront
        <5>2. Front(q) \in Paths /\ fs[Front(q)] # 0
          BY <2>1 DEF Exists
        <5>3. Front(q) \notin Below(p)
          BY <2>1, <3>0, PrefixFront DEF Below
        <5> QED BY <2>2, <5>1, <5>2, <5>3
      <4>4. CASE b # p
        <5>1. IsPrefix(p, Front(b)) /\ b # <<>> /\ Front(r) = Moved(p, q, Front(b))
          BY <2>1, <3>0, <4>1, <4>2, <4>4, MovedFront
        <5>2. Front(b) \in Paths /\ fs[Front(b)] # 0
          BY <1>a, <4>2, <5>1
        <5>3. Front(b) \in Below(p)
          BY <5>1, <5>2 DEF Below
        <5> QED BY <2>1, <5>1, <5>2, <5>3
      <4> QED BY <4>3, <4>4
    <3>2. CASE \A b \in Below(p) : Moved(p, q, b) # r
      <4>1. fs[r] # 0 /\ r \notin Below(p)
        BY <2>1, <2>3, <3>2
      <4>2. Front(r) \in Paths /\ fs[Front(r)] # 0
        BY <1>a, <4>1
      <4>3. Front(r) \notin Below(p)
        <5>1. ~IsPrefix(p, r)
          BY <4>1 DEF Below
        <5> QED BY <3>0, <5>1, PrefixFront DEF Below
      <4> QED BY <2>2, <4>2, <4>3
    <3> QED BY <3>1, <3>2
  <2> QED BY <2>3 DEF Closed, Exists
<1>4. CASE fs' = fs
  BY <1>0, <1>4 DEF Closed, Exists
<1>5. CASE WatcherStep \/ UNCHANGED vars
  BY <1>4, <1>5 DEF WatcherStep, WalkStat, WalkFn, WalkDenied, WalkReaddir, WalkReaddirFails, WalkEnds, WalkFails,
       CallRefused, Read, HandleOther,
       HandleIgnored, HandleCreate, HandleCreateFails, HandleUnknown, vars, tree
<1> QED BY <1>1, <1>2, <1>3, <1>5 DEF Next

\* The walk goes to every entry of the directory, and to what it had to visit.
LEMMA Listed ==
    ASSUME TypeOK, stack # <<>>, NEW T \in SUBSET Members, Visit(T)
    PROVE  /\ stack' \in Seq(Seq(Names))
           /\ \A k \in DOMAIN stack : k # 1 => \E j \in DOMAIN stack' : stack'[j] = stack[k]
           /\ \A x \in T : \E j \in DOMAIN stack' : stack'[j] = Append(stack[1], x)
<1> DEFINE A == UNION {Children(p) : p \in {r \in Paths : fs[r] = dir}}
           n == Cardinality(T)
<1>1. stack \in Seq(Seq(Names)) /\ stack # <<>>
  BY DEF TypeOK
<1>2. PICK names \in SetToSeqs(T) :
        stack' = [k \in DOMAIN names |-> Append(Head(stack), names[k])] \o Tail(stack)
  BY DEF Visit
<1>3. A \subseteq Paths /\ \A q \in A : q # <<>>
  BY DEF Children
<1>4. IsFiniteSet(T)
  <2> DEFINE f == [q \in A |-> Last(q)]
  <2>1. IsFiniteSet(A)
    BY <1>3, ConstAssumption, FS_Subset
  <2>2. Members = {Last(q) : q \in A}
    BY DEF Members
  <2>3. f \in Surjection(A, Members)
    <3> HIDE DEF A
    <3> QED BY <2>2 DEF Surjection
  <2>4. IsFiniteSet(Members)
    BY <2>1, <2>3, FS_Surjection
  <2> QED BY <2>4, FS_Subset
<1>5. T \subseteq Names
  <2>1. Members = {Last(q) : q \in A}
    BY DEF Members
  <2>2. \A q \in A : Last(q) \in Names
    BY <1>3, PathTypes, FrontLast
  <2> HIDE DEF A
  <2>3. \A x \in Members : x \in Names
    BY <2>1, <2>2
  <2>4. \A x \in T : x \in Members
    OBVIOUS
  <2> QED BY <2>3, <2>4
<1> HIDE DEF A
<1>6. n \in Nat /\ IsFiniteSet(1..n) /\ Cardinality(1..n) = n
  BY <1>4, FS_CardinalityType, FS_Interval
<1> HIDE DEF n
<1>7. names \in [1..n -> T] /\ \A i, j \in 1..n : i # j => names[i] # names[j]
  BY <1>2 DEF SetToSeqs, n
<1>8. names \in Injection(1..n, T)
  BY <1>7 DEF Injection, IsInjective
<1>9. names \in Surjection(1..n, T)
  BY <1>4, <1>6, <1>8, FS_Injection DEF n
<1>10. \A x \in T : \E k \in 1..n : names[k] = x
  BY <1>9 DEF Surjection
<1> DEFINE new == [k \in DOMAIN names |-> Append(Head(stack), names[k])]
           t == Tail(stack)
<1>11. /\ Head(stack) = stack[1] /\ stack[1] \in Seq(Names) /\ t \in Seq(Seq(Names))
       /\ Len(stack) \in Nat /\ Len(stack) >= 1 /\ Len(t) = Len(stack) - 1
       /\ \A k \in 1..(Len(stack) - 1) : t[k] = stack[k + 1]
  BY <1>1
<1>12. \A k \in 1..n : names[k] \in Names
  BY <1>5, <1>7
<1>13. /\ new \in Seq(Seq(Names)) /\ Len(new) = n
       /\ \A k \in 1..n : new[k] = Append(stack[1], names[k])
  <2>1. DOMAIN new = 1..n /\ \A k \in 1..n : new[k] = Append(stack[1], names[k])
    BY <1>7, <1>11
  <2>2. \A k \in 1..n : new[k] \in Seq(Names)
    BY <1>11, <1>12, <2>1
  <2>3. new = [k \in 1..n |-> new[k]]
    BY <1>7
  <2> HIDE DEF new
  <2>4. new \in Seq(Seq(Names))
    BY <1>6, <2>2, <2>3
  <2> QED BY <1>6, <2>1, <2>4, LenProperties
<1> HIDE DEF new, t
<1>14. /\ stack' \in Seq(Seq(Names)) /\ Len(stack') = n + Len(t)
       /\ \A k \in 1..(n + Len(t)) : stack'[k] = IF k =< n THEN new[k] ELSE t[k - n]
  <2>1. stack' = new \o t
    BY <1>2 DEF new, t
  <2>2. /\ new \o t \in Seq(Seq(Names)) /\ Len(new \o t) = Len(new) + Len(t)
        /\ \A k \in 1..(Len(new) + Len(t)) :
             (new \o t)[k] = IF k =< Len(new) THEN new[k] ELSE t[k - Len(new)]
    <3> DEFINE S == Seq(Names)
    <3>1. new \in Seq(S) /\ t \in Seq(S)
      BY <1>11, <1>13
    <3> HIDE DEF S
    <3>2. /\ new \o t \in Seq(S) /\ Len(new \o t) = Len(new) + Len(t)
          /\ \A k \in 1..(Len(new) + Len(t)) :
               (new \o t)[k] = IF k =< Len(new) THEN new[k] ELSE t[k - Len(new)]
      BY <3>1, ConcatProperties
    <3> QED BY <3>2 DEF S
  <2> QED BY <1>13, <2>1, <2>2
<1>15. DOMAIN stack' = 1..(n + Len(t)) /\ DOMAIN stack = 1..Len(stack)
  BY <1>1, <1>14
<1>16. ASSUME NEW k \in DOMAIN stack, k # 1 PROVE \E j \in DOMAIN stack' : stack'[j] = stack[k]
  <2>1. k - 1 \in 1..(Len(stack) - 1) /\ (k - 1) + 1 = k
    BY <1>11, <1>15, <1>16
  <2>2. n + (k - 1) \in 1..(n + Len(t)) /\ ~(n + (k - 1) =< n) /\ (n + (k - 1)) - n = k - 1
    BY <1>6, <1>11, <2>1
  <2>3. stack'[n + (k - 1)] = stack[k]
    BY <1>11, <1>14, <2>1, <2>2
  <2> QED BY <1>15, <2>2, <2>3
<1>17. ASSUME NEW x \in T
       PROVE  \E j \in DOMAIN stack' : stack'[j] = Append(stack[1], x)
  <2>1. PICK k \in 1..n : names[k] = x
    BY <1>10
  <2>2. k \in 1..(n + Len(t)) /\ k =< n
    BY <1>6, <1>11
  <2> QED BY <1>13, <1>14, <1>15, <2>1, <2>2
<1> QED BY <1>14, <1>16, <1>17

\* The entries are visited behind the directory they are in.
LEMMA ListedAll ==
    ASSUME NEW r \in Paths, fs[r] = dir, NEW q \in Children(r)
    PROVE  Last(q) \in Members
  BY DEF Members

\* What the types say of events, in terms of those that are pending.
LEMMA EventRange ==
    ASSUME NEW w \in Nat
    PROVE  /\ Overflow.wd \in 0..w /\ Overflow.kind \in Kinds
           /\ "create" \in Kinds /\ "ignored" \in Kinds /\ "other" \in Kinds
  BY EventTypes DEF Kinds

\* Every step keeps the types.
LEMMA TypeStep == IInv /\ [Next]_vars => TypeOK'
<1> SUFFICES ASSUME IInv, [Next]_vars PROVE TypeOK'
  OBVIOUS
<1>0. TypeOK /\ Buffers /\ Numbers /\ Closed /\ Events
  BY DEF IInv
<1>b. Buffers'
  BY BuffersStep
<1>a. /\ fs \in [Paths -> 0..inodes] /\ inodes \in Inodes
      /\ \A p, q \in Paths : fs[p] = fs[q] /\ fs[p] # 0 => p = q
      /\ wd \in [Inodes -> 0..wds] /\ wds \in Nat
      /\ \A e \in Range(Pending) : e.wd \in 0..wds /\ e.kind \in Kinds
      /\ Len(queue) =< MAXQ + 1
      /\ \A item \in Range(list) : item.wd \in 1..wds /\ item.pathname \in Paths
      /\ pc \in {"walk", "fn", "readdir", "read", "handle", "exit"}
      /\ stack \in Seq(Seq(Names)) /\ dir \in 0..inodes
      /\ ops \in 0..MaxOps /\ late \subseteq Inodes /\ overflow \in BOOLEAN
      /\ unread \subseteq Inodes /\ refused \in BOOLEAN
  BY <1>0 DEF TypeOK
<1>c. MaxOps \in Nat /\ inodes \in Nat /\ ops \in Nat /\ Len(queue') =< MAXQ + 1
  BY <1>0, <1>b, Basics DEF Buffers, Bounded, TypeOK
<1>d. ops < MaxOps => ops + 1 \in 0..MaxOps
  BY <1>a, <1>c
<1> HIDE DEF IInv
<1>1. ASSUME NEW p \in Paths, Mkdir(p) PROVE TypeOK'
  <2>1. /\ fs[p] = 0 /\ ops < MaxOps /\ ops' = ops + 1
        /\ inodes + 1 \in Inodes /\ inodes' = inodes + 1 /\ fs' = [fs EXCEPT ![p] = inodes + 1]
        /\ CreateEvent(p).kind = "create" /\ CreateEvent(p).wd \in 0..wds
        /\ Range(Pending') \subseteq Range(Pending) \union {CreateEvent(p), Overflow}
    BY <1>0, <1>1, MkdirDoes
  <2>2. /\ UNCHANGED <<wd, wds, list, pc, stack, dir>>
        /\ late' = late \/ late' = late \union {inodes + 1}
        /\ overflow' \in BOOLEAN /\ UNCHANGED <<unread, refused>>
    BY <1>1, <1>a DEF Mkdir, Notify, program, failures
  <2>3. fs' \in [Paths -> 0..inodes'] /\ dir \in 0..inodes'
    BY <1>a, <1>c, <2>1
  <2>4. \A r, s \in Paths : fs'[r] = fs'[s] /\ fs'[r] # 0 => r = s
    <3>1. \A r \in Paths : fs[r] # inodes + 1
      BY <1>a, <1>c
    <3> QED BY <1>a, <2>1, <3>1
  <2>5. \A e \in Range(Pending') : e.wd \in 0..wds /\ e.kind \in Kinds
    BY <1>a, <2>1, EventRange
  <2> QED BY <1>a, <1>c, <1>d, <2>1, <2>2, <2>3, <2>4, <2>5 DEF TypeOK
<1>2. ASSUME NEW p \in Paths, Rmdir(p) PROVE TypeOK'
  <2> DEFINE v == IF p = <<>> THEN 0 ELSE WatchOf(Front(p))
  <2>1. /\ ops < MaxOps /\ ops' = ops + 1
        /\ fs' = [fs EXCEPT ![p] = 0] /\ wd' = [wd EXCEPT ![fs[p]] = 0]
        /\ IgnoredEvent(p).wd \in 0..wds /\ OtherEvent(v).wd \in 0..wds
        /\ IgnoredEvent(p).kind = "ignored" /\ OtherEvent(v).kind = "other"
        /\ Range(Pending') \subseteq Range(Pending) \union {IgnoredEvent(p), OtherEvent(v)} \union {Overflow}
    BY <1>0, <1>2, RmdirDoes
  <2>2. /\ UNCHANGED <<inodes, wds, list, pc, stack, dir, late>>
        /\ overflow' \in BOOLEAN /\ UNCHANGED <<unread, refused>>
    BY <1>2, <1>a DEF Rmdir, Notify, program, failures
  <2>a. 0 \in 0..inodes /\ 0 \in 0..wds
    BY <1>a, <1>c
  <2>b. fs' \in [Paths -> 0..inodes]
    BY <1>a, <2>1, <2>a
  <2>c. wd' \in [Inodes -> 0..wds]
    BY <1>a, <2>1, <2>a
  <2>3. fs' \in [Paths -> 0..inodes] /\ wd' \in [Inodes -> 0..wds]
    BY <2>b, <2>c
  <2>4. \A r, s \in Paths : fs'[r] = fs'[s] /\ fs'[r] # 0 => r = s
    BY <1>a, <2>1
  <2> HIDE DEF v
  <2>5. \A e \in Range(Pending') : e.wd \in 0..wds /\ e.kind \in Kinds
    BY <1>a, <2>1, EventRange
  <2> QED BY <1>a, <1>c, <1>d, <2>1, <2>2, <2>3, <2>4, <2>5 DEF TypeOK
<1>3. ASSUME NEW p \in Paths, NEW q \in Paths, Move(p, q) PROVE TypeOK'
  <2>1. /\ ops < MaxOps /\ ops' = ops + 1
        /\ UNCHANGED <<inodes, wd, wds, list, pc, stack, dir, late>>
        /\ \A e \in Range(Pending') : e \in Range(Pending) \/ e = Overflow \/ e.wd \in Watches
        /\ Pending' \in Seq(Ev)
    BY <1>0, <1>3, MoveDoes
  <2>2. /\ DOMAIN fs' = Paths
        /\ \A b \in Below(p) : Moved(p, q, b) \in Paths /\ fs'[Moved(p, q, b)] = fs[b]
        /\ \A r \in Paths :
             (\A b \in Below(p) : Moved(p, q, b) # r) =>
                 fs'[r] = IF r \in Below(p) THEN 0 ELSE fs[r]
    BY <1>0, <1>3, TreeMoved
  <2>3. ASSUME NEW r \in Paths
        PROVE  \/ \E b \in Below(p) : Moved(p, q, b) = r /\ fs'[r] = fs[b]
               \/ fs'[r] = 0 \/ (fs'[r] = fs[r] /\ r \notin Below(p))
    BY <2>2
  <2>4. \A b \in Below(p) : b \in Paths /\ fs[b] # 0
    BY DEF Below
  <2>5. fs' \in [Paths -> 0..inodes]
    <3>1. ASSUME NEW r \in Paths PROVE fs'[r] \in 0..inodes
      <4>1. \A x \in Paths : fs[x] \in 0..inodes
        BY <1>a
      <4>2. 0 \in 0..inodes
        BY <1>c
      <4>3. CASE \E b \in Below(p) : Moved(p, q, b) = r /\ fs'[r] = fs[b]
        BY <2>4, <4>1, <4>3
      <4> QED BY <2>3, <4>1, <4>2, <4>3
    <3>2. fs' = [r \in Paths |-> fs'[r]]
      BY <1>3 DEF Move
    <3> QED BY <3>1, <3>2
  <2>6. ASSUME NEW r \in Paths, NEW s \in Paths, fs'[r] = fs'[s], fs'[r] # 0 PROVE r = s
    <3>0. \A x, y \in Paths : fs[x] = fs[y] /\ fs[x] # 0 => x = y
      BY <1>a
    <3>s. \/ \E b \in Below(p) : Moved(p, q, b) = s /\ fs'[s] = fs[b]
          \/ fs'[s] = fs[s] /\ s \notin Below(p)
      BY <2>3, <2>6
    <3>1. CASE \E b \in Below(p) : Moved(p, q, b) = r /\ fs'[r] = fs[b]
      <4>1. PICK b \in Below(p) : Moved(p, q, b) = r /\ fs'[r] = fs[b]
        BY <3>1
      <4> QED BY <3>0, <3>s, <2>4, <2>6, <4>1
    <3>2. CASE fs'[r] = fs[r] /\ r \notin Below(p)
      BY <3>0, <3>s, <2>4, <2>6, <3>2
    <3> QED BY <2>3, <2>6, <3>1, <3>2
  <2>7. Watches \in SUBSET (1..wds)
    BY <1>0, Basics
  <2>8. ASSUME NEW e \in Range(Pending') PROVE e.wd \in 0..wds /\ e.kind \in Kinds
    <3>1. e \in Ev
      BY <2>1 DEF Range
    <3>2. CASE e.wd \in Watches
      BY <2>7, <3>1, <3>2 DEF Ev
    <3> QED BY <1>a, <2>1, <3>2, EventRange
  <2>9. overflow' \in BOOLEAN /\ UNCHANGED <<unread, refused>>
    BY <1>3, <1>a DEF Move, Notify, failures
  <2> QED BY <1>a, <1>c, <1>d, <2>1, <2>5, <2>6, <2>8, <2>9 DEF TypeOK
<1>4. ASSUME NEW p \in Paths, Exists(p), WatchSubdir(p), Range(Pending') \subseteq Range(Pending),
             UNCHANGED <<fs, inodes, history, failures>>,
             pc' \in {"walk", "fn", "readdir", "read", "handle", "exit"}, stack' = stack,
             dir' \in 0..inodes
      PROVE  TypeOK'
  <2>1. /\ wds' \in Nat /\ wds' >= wds /\ wd' \in [Inodes -> 0..wds']
        /\ WatchOf(p)' \in 1..wds'
        /\ Range(list') = Range(list) \union {[wd |-> WatchOf(p)', pathname |-> p]}
    BY <1>0, <1>4, WatchAdded
  <2>2. \A e \in Range(Pending') : e.wd \in 0..wds' /\ e.kind \in Kinds
    BY <1>a, <1>4, <2>1
  <2>3. \A item \in Range(list') : item.wd \in 1..wds' /\ item.pathname \in Paths
    BY <1>a, <2>1
  <2> QED BY <1>a, <1>c, <1>4, <2>1, <2>2, <2>3 DEF TypeOK, history, failures
<1>5. CASE WalkFn
  <2>1. fs[Head(stack)] \in 0..inodes /\ Pending' = Pending
    BY <1>a, <1>5 DEF WalkFn, Exists, Pending
  <2> QED BY <1>4, <1>5, <2>1 DEF WalkFn, Exists, tree
<1>6. CASE HandleCreate
  <2>1. Range(Pending') \subseteq Range(Pending)
    BY <1>0, <1>6, FirstEvent DEF HandleCreate, Handles, Buffers
  <2> QED BY <1>a, <1>4, <1>6, <2>1 DEF HandleCreate, Handled, Exists, tree
<1>7. ASSUME UNCHANGED <<fs, inodes, wd, wds, history>>,
             unread' \subseteq Inodes, refused' \in BOOLEAN, Range(Pending') \subseteq Range(Pending),
             Range(list') \subseteq Range(list), stack' \in Seq(Seq(Names)), dir' \in 0..inodes,
             pc' \in {"walk", "fn", "readdir", "read", "handle", "exit"}
      PROVE  TypeOK'
  BY <1>a, <1>c, <1>7 DEF TypeOK, history
<1>8. CASE WalkStat \/ WalkDenied
  <2>1. stack' \in Seq(Seq(Names))
    <3> DEFINE S == Seq(Names)
    <3>1. stack \in Seq(S) /\ stack # <<>> /\ (stack' = stack \/ stack' = Tail(stack))
      BY <1>a, <1>8 DEF WalkStat, WalkDenied
    <3> HIDE DEF S
    <3>2. stack' \in Seq(S)
      BY <3>1
    <3> QED BY <3>2 DEF S
  <2>2. WalkDenied => fs[Head(stack)] \in Inodes
    BY <1>0, Basics DEF WalkDenied, Exists
  <2>3. unread' \subseteq Inodes /\ refused' \in BOOLEAN
    BY <1>a, <1>8, <2>2 DEF WalkStat, WalkDenied, failures
  <2> QED BY <1>a, <1>7, <1>8, <2>1, <2>3 DEF WalkStat, WalkDenied, tree, kernel, history, Pending
<1>9. CASE WalkReaddir \/ WalkReaddirFails
  <2>1. PICK T \in SUBSET Members : Visit(T)
    BY <1>9 DEF WalkReaddir, WalkReaddirFails
  <2>2. stack' \in Seq(Seq(Names))
    BY <1>0, <1>9, <2>1, Listed DEF Buffers, WalkReaddir, WalkReaddirFails
  <2>a. pc = "readdir"
    BY <1>9 DEF WalkReaddir, WalkReaddirFails
  <2>b. dir # 0 /\ dir \in 0..inodes /\ inodes \in Inodes
    BY <1>0, <1>a, <2>a DEF Buffers
  <2>c. Cardinality(Paths) \in Nat /\ MaxOps \in Nat
    BY <1>0, Basics
  <2>3. dir \in Inodes
    BY <2>b, <2>c DEF Inodes
  <2>4. unread' \subseteq Inodes /\ refused' \in BOOLEAN
    BY <1>a, <1>9, <2>3 DEF WalkReaddir, WalkReaddirFails, failures
  <2> QED BY <1>a, <1>c, <1>7, <1>9, <2>1, <2>2, <2>4
             DEF WalkReaddir, WalkReaddirFails, Visit, tree, kernel, history, Pending
<1>10. CASE WalkEnds \/ WalkFails \/ CallRefused \/ HandleUnknown
  BY <1>a, <1>7, <1>10 DEF WalkEnds, WalkFails, CallRefused, HandleUnknown, tree, kernel, history,
     failures, Pending
<1>11. CASE Read
  BY <1>0, <1>a, <1>7, <1>11, ReadKeeps DEF Read, tree, history, failures
<1>12. CASE HandleOther \/ HandleCreateFails
  <2>1. Range(Pending') \subseteq Range(Pending)
    BY <1>0, <1>12, FirstEvent DEF HandleOther, HandleCreateFails, Handles, Buffers, kernel
  <2> QED BY <1>a, <1>7, <1>12, <2>1 DEF HandleOther, HandleCreateFails, Handled, tree, kernel, failures
<1>13. CASE HandleIgnored
  <2>1. Range(Pending') \subseteq Range(Pending)
    BY <1>0, <1>13, FirstEvent DEF HandleIgnored, Handles, Buffers, kernel
  <2>2. Range(list') \subseteq Range(list)
    BY <1>0, <1>13, RemoveItem DEF HandleIgnored, Buffers
  <2> QED BY <1>a, <1>7, <1>13, <2>1, <2>2 DEF HandleIgnored, Handled, tree, kernel, failures
<1>14. CASE UNCHANGED vars
  BY <1>a, <1>7, <1>14 DEF vars, history, failures, Pending
<1> QED
  BY <1>1, <1>2, <1>3, <1>5, <1>6, <1>8, <1>9, <1>10, <1>11, <1>12, <1>13, <1>14 DEF Next, WatcherStep
-----------------------------------------------------------------------------
(* Events, the list, and its paths *)

\* A handled event leaves the rest in order.
LEMMA EventsTail ==
    ASSUME Buffers, Events, batch # <<>>, batch' = Tail(batch), queue' = queue
    PROVE  EventsOf(Pending', Watches)
<1>1. /\ DOMAIN Pending = 1..Len(Pending) /\ DOMAIN Pending' = 1..(Len(Pending) - 1)
      /\ \A k \in 1..(Len(Pending) - 1) : Pending'[k] = Pending[k + 1]
      /\ Len(Pending) \in Nat
  BY FirstEvent
<1>2. EventsOf(Pending, Watches)
  BY DEF Events
<1>3. \A k \in DOMAIN Pending' : k + 1 \in DOMAIN Pending /\ Pending'[k] = Pending[k + 1]
  BY <1>1
<1>4. ASSUME NEW k \in DOMAIN Pending', Pending'[k].kind = "ignored"
      PROVE  /\ Pending'[k].wd \notin Watches
             /\ \A l \in DOMAIN Pending' : l > k => Pending'[l].wd # Pending'[k].wd
  <2>1. \A l \in DOMAIN Pending' : l > k => l + 1 > k + 1
    BY <1>1
  <2> QED BY <1>2, <1>3, <1>4, <2>1 DEF EventsOf
<1>5. ASSUME NEW k \in DOMAIN Pending'
      PROVE  /\ Pending'[k].wd = 0 <=> Pending'[k] = Overflow
             /\ Pending'[k].kind = "overflow" <=> Pending'[k] = Overflow
  BY <1>2, <1>3 DEF EventsOf
<1> HIDE DEF Pending
<1> QED BY <1>4, <1>5 DEF EventsOf

\* A watch that is new, or that there was already, has no IN_IGNORED pending.
LEMMA EventsWatched ==
    ASSUME NEW s, NEW w, NEW v, EventsOf(s, w), v \in w \/ \A k \in DOMAIN s : s[k].wd # v
    PROVE  EventsOf(s, w \union {v})
  BY DEF EventsOf

\* Every step keeps what the events stand for.
LEMMA EventsStep == IInv /\ [Next]_vars => Events'
<1> SUFFICES ASSUME IInv, [Next]_vars PROVE Events'
  OBVIOUS
<1>0. /\ TypeOK /\ Buffers /\ Numbers /\ Closed /\ Events
      /\ EventsOf(Pending, Watches) /\ (Overflow \in Range(Pending) => overflow)
  BY DEF IInv, Events
<1> HIDE DEF IInv
<1>1. ASSUME NEW p \in Paths, Mkdir(p) PROVE Events'
  <2>1. /\ Overflow \in Range(Pending') => overflow'
        /\ EventsOf(Pending', Watches)
    BY <1>0, <1>1, MkdirDoes
  <2>2. Watches' = Watches
    BY <1>1 DEF Mkdir, Watches
  <2> QED BY <2>1, <2>2 DEF Events
<1>2. ASSUME NEW p \in Paths, Rmdir(p) PROVE Events'
  BY <1>0, <1>2, RmdirDoes DEF Events
<1>3. ASSUME NEW p \in Paths, NEW q \in Paths, Move(p, q) PROVE Events'
  <2>1. /\ Overflow \in Range(Pending') => overflow'
        /\ EventsOf(Pending', Watches) /\ wd' = wd
    BY <1>0, <1>3, MoveDoes
  <2> QED BY <2>1 DEF Events, Watches
<1>4. ASSUME Pending' = Pending, wd' = wd, overflow' = overflow PROVE Events'
  BY <1>0, <1>4 DEF Events, Watches
<1>5. ASSUME NEW p \in Paths, Exists(p), WatchSubdir(p), fs' = fs, overflow' = overflow,
             Range(Pending') \subseteq Range(Pending), EventsOf(Pending', Watches)
      PROVE  Events'
  <2>1. /\ WatchOf(p)' \in Watches \/ (WatchOf(p)' = wds + 1 /\ wds' = wds + 1)
        /\ Watches' = Watches \union {WatchOf(p)'}
    BY <1>0, <1>5, WatchAdded
  <2>2. \A k \in DOMAIN Pending' : Pending'[k].wd # wds + 1
    <3>1. \A e \in Range(Pending) : e.wd \in 0..wds
      BY <1>0 DEF TypeOK
    <3>2. \A k \in DOMAIN Pending' : Pending'[k] \in Range(Pending)
      BY <1>5 DEF Range
    <3>3. \A n \in 0..wds : n # wds + 1
      BY <1>0 DEF TypeOK
    <3> HIDE DEF Pending
    <3> QED BY <3>1, <3>2, <3>3
  <2>3. EventsOf(Pending', Watches \union {WatchOf(p)'})
    BY <1>5, <2>1, <2>2, EventsWatched
  <2> QED BY <1>0, <1>5, <2>1, <2>3 DEF Events
<1>6. CASE WalkFn
  <2>1. Pending' = Pending
    BY <1>6 DEF WalkFn, Pending
  <2> QED BY <1>0, <1>5, <1>6, <2>1 DEF WalkFn, Exists, tree, history
<1>7. CASE HandleCreate
  <2>1. Range(Pending') \subseteq Range(Pending) /\ EventsOf(Pending', Watches)
    BY <1>0, <1>7, FirstEvent, EventsTail DEF HandleCreate, Handles, Buffers
  <2> QED BY <1>5, <1>7, <2>1 DEF HandleCreate, Exists, tree, history
<1>8. CASE \/ WalkStat \/ WalkDenied \/ WalkReaddir \/ WalkReaddirFails
           \/ WalkEnds \/ WalkFails \/ CallRefused \/ HandleUnknown \/ UNCHANGED vars
  BY <1>4, <1>8 DEF WalkStat, WalkDenied, WalkReaddir, WalkReaddirFails, WalkEnds,
                    WalkFails, CallRefused, HandleUnknown, vars, kernel,
                    history, Pending
<1>9. CASE Read
  BY <1>0, <1>4, <1>9, ReadKeeps DEF Read, history
<1>10. CASE HandleOther \/ HandleIgnored \/ HandleCreateFails
  <2>1. /\ batch # <<>> /\ batch' = Tail(batch) /\ queue' = queue /\ wd' = wd /\ overflow' = overflow
    BY <1>0, <1>10 DEF HandleOther, HandleIgnored, HandleCreateFails, Handles, kernel, history, Buffers
  <2>2. Range(Pending') \subseteq Range(Pending) /\ EventsOf(Pending', Watches)
    BY <1>0, <2>1, FirstEvent, EventsTail
  <2>3. Watches' = Watches
    BY <2>1 DEF Watches
  <2> QED BY <1>0, <2>1, <2>2, <2>3 DEF Events
<1> QED
  BY <1>1, <1>2, <1>3, <1>6, <1>7, <1>8, <1>9, <1>10 DEF Next, WatcherStep

\* Only an overflow has no watch.
LEMMA Watched ==
    ASSUME NEW s, NEW w, EventsOf(s, w), NEW e \in Range(s), e.kind # "overflow"
    PROVE  e.wd # 0 /\ e # Overflow
<1>1. PICK k \in DOMAIN s : e = s[k]
  BY DEF Range
<1> QED BY <1>1, EventTypes DEF EventsOf

\* Every step keeps an item for every watch and every event.
LEMMA CoversStep == IInv /\ [Next]_vars => Covers'
<1> SUFFICES ASSUME IInv, [Next]_vars PROVE Covers'
  OBVIOUS
<1>0. /\ TypeOK /\ Buffers /\ Numbers /\ Closed /\ Events /\ EventsOf(Pending, Watches)
      /\ Watches \subseteq Items
      /\ \A e \in Range(Pending) : e.kind # "overflow" => e.wd \in Items
  BY DEF IInv, Events, Covers
<1> HIDE DEF IInv
<1>1. ASSUME NEW p \in Paths, Mkdir(p) PROVE Covers'
  <2>1. /\ Range(Pending') \subseteq Range(Pending) \union {CreateEvent(p), Overflow}
        /\ EventsOf(Pending', Watches)
        /\ CreateEvent(p).wd = WatchOf(Front(p))
        /\ WatchOf(Front(p)) # 0 => WatchOf(Front(p)) \in Watches
    BY <1>0, <1>1, MkdirDoes
  <2>2. Watches' = Watches /\ Items' = Items
    BY <1>1 DEF Mkdir, Watches, Items, program
  <2>3. ASSUME NEW e \in Range(Pending'), e.kind # "overflow" PROVE e.wd \in Items
    <3>1. e.wd # 0 /\ e # Overflow
      BY <2>1, <2>3, Watched
    <3> QED BY <1>0, <2>1, <2>3, <3>1
  <2> QED BY <1>0, <2>2, <2>3 DEF Covers
<1>2. ASSUME NEW p \in Paths, Rmdir(p) PROVE Covers'
  <2> DEFINE v == IF p = <<>> THEN 0 ELSE WatchOf(Front(p))
  <2>1. /\ Range(Pending') \subseteq Range(Pending) \union {IgnoredEvent(p), OtherEvent(v)} \union {Overflow}
        /\ EventsOf(Pending', Watches')
        /\ Watches' = Watches \ {WatchOf(p)}
        /\ WatchOf(p) # 0 => WatchOf(p) \in Watches
        /\ v \in Watches' \union {0}
        /\ IgnoredEvent(p).wd = WatchOf(p) /\ OtherEvent(v).wd = v
    BY <1>0, <1>2, RmdirDoes
  <2> HIDE DEF v
  <2>2. Items' = Items
    BY <1>2 DEF Rmdir, Items, program
  <2>3. ASSUME NEW e \in Range(Pending'), e.kind # "overflow" PROVE e.wd \in Items
    <3>1. e.wd # 0 /\ e # Overflow
      BY <2>1, <2>3, Watched
    <3>2. e \in Range(Pending) \/ e = IgnoredEvent(p) \/ e = OtherEvent(v)
      BY <2>1, <3>1
    <3> QED BY <1>0, <2>1, <2>3, <3>1, <3>2
  <2> QED BY <1>0, <2>1, <2>2, <2>3 DEF Covers
<1>3. ASSUME NEW p \in Paths, NEW q \in Paths, Move(p, q) PROVE Covers'
  <2>1. /\ \A e \in Range(Pending') : e \in Range(Pending) \/ e = Overflow \/ e.wd \in Watches
        /\ wd' = wd /\ list' = list
    BY <1>0, <1>3, MoveDoes
  <2>2. Watches' = Watches /\ Items' = Items
    BY <2>1 DEF Watches, Items
  <2> QED BY <1>0, <2>1, <2>2, EventTypes DEF Covers
<1>4. ASSUME NEW p \in Paths, Exists(p), WatchSubdir(p), fs' = fs,
             Range(Pending') \subseteq Range(Pending)
      PROVE  Covers'
  <2>1. Watches' = Watches \union {WatchOf(p)'} /\ Items' = Items \union {WatchOf(p)'}
    BY <1>0, <1>4, WatchAdded
  <2> QED BY <1>0, <1>4, <2>1 DEF Covers
<1>5. ASSUME wd' = wd, list' = list, Range(Pending') \subseteq Range(Pending) PROVE Covers'
  BY <1>0, <1>5 DEF Covers, Watches, Items
<1>6. CASE WalkFn
  BY <1>4, <1>6 DEF WalkFn, Exists, tree, Pending
<1>7. CASE HandleCreate
  <2>1. Range(Pending') \subseteq Range(Pending)
    BY <1>0, <1>7, FirstEvent DEF HandleCreate, Handles, Buffers
  <2> QED BY <1>4, <1>7, <2>1 DEF HandleCreate, Exists, tree
<1>8. CASE \/ WalkStat \/ WalkDenied \/ WalkReaddir \/ WalkReaddirFails
           \/ WalkEnds \/ WalkFails \/ CallRefused \/ HandleUnknown \/ UNCHANGED vars
  BY <1>5, <1>8 DEF WalkStat, WalkDenied, WalkReaddir, WalkReaddirFails, WalkEnds,
                    WalkFails, CallRefused, HandleUnknown, vars, kernel, Pending
<1>9. CASE Read
  BY <1>0, <1>5, <1>9, ReadKeeps DEF Read
<1>10. CASE HandleOther \/ HandleCreateFails
  <2>1. Range(Pending') \subseteq Range(Pending)
    BY <1>0, <1>10, FirstEvent DEF HandleOther, HandleCreateFails, Handles, Buffers, kernel
  <2> QED BY <1>5, <1>10, <2>1 DEF HandleOther, HandleCreateFails, kernel
<1>11. CASE HandleIgnored
  <2> DEFINE w == Head(batch).wd
  <2>1. /\ batch # <<>> /\ batch' = Tail(batch) /\ queue' = queue /\ wd' = wd
        /\ Head(batch).kind = "ignored" /\ RmWatchSubdir(w)
    BY <1>0, <1>11 DEF HandleIgnored, Handles, kernel, Buffers
  <2>2. /\ Head(batch) = Pending[1] /\ Len(Pending) \in Nat /\ Len(Pending) >= 1
        /\ DOMAIN Pending = 1..Len(Pending) /\ DOMAIN Pending' = 1..(Len(Pending) - 1)
        /\ \A k \in 1..(Len(Pending) - 1) : Pending'[k] = Pending[k + 1]
        /\ Range(Pending') \subseteq Range(Pending)
    BY <1>0, <2>1, FirstEvent
  <2>3. w \notin Watches /\ \A k \in DOMAIN Pending : k > 1 => Pending[k].wd # w
    BY <1>0, <2>1, <2>2 DEF EventsOf
  <2>4. \A e \in Range(Pending') : e.wd # w
    <3> SUFFICES ASSUME NEW k \in DOMAIN Pending' PROVE Pending'[k].wd # w
      BY DEF Range
    <3>1. k + 1 \in DOMAIN Pending /\ k + 1 > 1 /\ Pending'[k] = Pending[k + 1]
      BY <2>2
    <3> QED BY <2>3, <3>1
  <2>5. \A item \in Range(list) : item.wd # w => item \in Range(list')
    BY <1>0, <2>1, RemoveItem DEF Buffers
  <2>6. \A x \in Items : x # w => x \in Items'
    BY <2>5 DEF Items
  <2>7. Watches' = Watches
    BY <2>1 DEF Watches
  <2> HIDE DEF w
  <2> QED BY <1>0, <2>2, <2>3, <2>4, <2>6, <2>7 DEF Covers
<1> QED
  BY <1>1, <1>2, <1>3, <1>6, <1>7, <1>8, <1>9, <1>10, <1>11 DEF Next, WatcherStep

\* parentPath gives the path in an item with that watch.
LEMMA ParentFound ==
    ASSUME Buffers, NEW w
    PROVE  /\ ParentPaths(w) # {} => \E item \in Range(list) :
                                        item.wd = w /\ item.pathname = ParentPath(w)
           /\ ParentPaths(w) = {} => w \notin Items
<1>1. list \in Seq(Item) /\ DOMAIN list = 1..Len(list) /\ Len(list) \in Nat
  BY DEF Buffers
<1>2. ASSUME ParentPaths(w) # {}
      PROVE  \E item \in Range(list) : item.wd = w /\ item.pathname = ParentPath(w)
  <2> DEFINE Least(n) == \A m \in ParentPaths(w) : n =< m
  <2>1. ParentPaths(w) \in SUBSET Nat
    BY <1>1 DEF ParentPaths
  <2>2. \E n \in ParentPaths(w) : Least(n)
    BY <1>2, <2>1, LeastNumber
  <2>3. (CHOOSE n \in ParentPaths(w) : Least(n)) \in ParentPaths(w)
    <3> HIDE DEF Least
    <3> QED BY <2>2
  <2>4. PICK k \in ParentPaths(w) : ParentPath(w) = list[k].pathname
    BY <2>3 DEF ParentPath
  <2>5. k \in DOMAIN list /\ list[k].wd = w
    BY DEF ParentPaths
  <2> QED BY <2>4, <2>5 DEF Range
<1>3. ASSUME w \in Items PROVE ParentPaths(w) # {}
  <2>1. PICK k \in DOMAIN list : list[k].wd = w
    BY <1>3 DEF Items, Range
  <2> QED BY <2>1 DEF ParentPaths
<1> QED BY <1>2, <1>3

\* One directory for each watch.
LEMMA SameWatch ==
    ASSUME TypeOK, Buffers, Numbers, NEW p \in Paths, NEW q \in Paths, Exists(p), Exists(q),
           WatchOf(p) = WatchOf(q), WatchOf(p) # 0
    PROVE  p = q
<1>1. fs[p] \in Inodes /\ fs[q] \in Inodes
  BY Basics
<1>2. fs[p] = fs[q]
  BY <1>1 DEF Numbers, WatchOf
<1> QED BY <1>2 DEF TypeOK, Exists

\* An item has a number and a path.
LEMMA ItemTypes ==
    ASSUME TypeOK, NEW item \in Range(list)
    PROVE  /\ item.wd \in 1..wds /\ item.pathname \in Paths /\ item.wd \in Items
           /\ item.wd # wds + 1 /\ item.wd # 0
<1>1. item.wd \in 1..wds /\ item.pathname \in Paths /\ wds \in Nat
  BY DEF TypeOK
<1>2. \A n \in 1..wds : n # wds + 1 /\ n # 0
  BY <1>1
<1> QED BY <1>1, <1>2 DEF Items

\* Every step but a rename keeps the path in an item that of its watch.
LEMMA PathsStep == IInv /\ [Next]_vars => PathsCurrent'
<1> SUFFICES ASSUME IInv, [Next]_vars, "rename" \notin changed',
                    NEW item \in Range(list'), item.wd \in Watches'
             PROVE  Exists(item.pathname)' /\ wd'[fs'[item.pathname]] = item.wd
  BY DEF PathsCurrent, WatchOf
<1>0. /\ TypeOK /\ Buffers /\ Numbers /\ Closed /\ Events
      /\ fs \in [Paths -> 0..inodes] /\ wd \in [Inodes -> 0..wds]
  BY DEF IInv, TypeOK
<1>a. ASSUME "rename" \notin changed, item \in Range(list), item.wd \in Watches
      PROVE  /\ item.pathname \in Paths /\ fs[item.pathname] # 0 /\ fs[item.pathname] \in Inodes
             /\ wd[fs[item.pathname]] = item.wd /\ item.wd # 0
  <2>1. Exists(item.pathname) /\ WatchOf(item.pathname) = item.wd
    BY <1>a DEF IInv, PathsCurrent
  <2> QED BY <1>0, <1>a, <2>1, Basics DEF Exists, WatchOf
<1> HIDE DEF IInv
<1>1. ASSUME NEW p \in Paths, Mkdir(p)
      PROVE  Exists(item.pathname)' /\ wd'[fs'[item.pathname]] = item.wd
  <2>1. fs[p] = 0 /\ fs' = [fs EXCEPT ![p] = inodes + 1]
    BY <1>0, <1>1, MkdirDoes
  <2>2. wd' = wd /\ list' = list /\ changed' = changed /\ Watches' = Watches
    BY <1>1 DEF Mkdir, program, Watches
  <2>3. item.pathname # p
    BY <1>a, <2>1, <2>2
  <2> QED BY <1>0, <1>a, <2>1, <2>2, <2>3 DEF Exists
<1>2. ASSUME NEW p \in Paths, Rmdir(p)
      PROVE  Exists(item.pathname)' /\ wd'[fs'[item.pathname]] = item.wd
  <2>1. /\ fs' = [fs EXCEPT ![p] = 0] /\ wd' = [wd EXCEPT ![fs[p]] = 0]
        /\ Watches' = Watches \ {WatchOf(p)} /\ Exists(p)
    BY <1>0, <1>2, RmdirDoes
  <2>2. list' = list /\ "rename" \notin changed
    BY <1>2 DEF Rmdir, program
  <2>3. item.pathname # p
    BY <1>a, <2>1, <2>2 DEF WatchOf
  <2>4. fs[item.pathname] # fs[p]
    BY <1>0, <1>a, <2>1, <2>2, <2>3 DEF TypeOK
  <2> QED BY <1>0, <1>a, <2>1, <2>2, <2>3, <2>4 DEF Exists
<1>3. ASSUME NEW p \in Paths, NEW q \in Paths, Move(p, q) PROVE FALSE
  BY <1>3 DEF Move
<1>4. ASSUME NEW p \in Paths, Exists(p), WatchSubdir(p), fs' = fs, changed' = changed
      PROVE  Exists(item.pathname)' /\ wd'[fs'[item.pathname]] = item.wd
  <2>1. /\ WatchOf(p)' \in Watches \/ WatchOf(p)' = wds + 1
        /\ \A i \in Inodes : wd'[i] = wd[i] \/ (i = fs[p] /\ wd[i] = 0)
        /\ Watches' = Watches \union {WatchOf(p)'}
        /\ Range(list') = Range(list) \union {[wd |-> WatchOf(p)', pathname |-> p]}
    BY <1>0, <1>4, WatchAdded
  <2>2. CASE item \in Range(list)
    <3>1. item.wd # wds + 1
      BY <1>0, <2>2, ItemTypes
    <3>2. item.wd \in Watches
      BY <2>1, <3>1
    <3> QED BY <1>a, <1>4, <2>1, <2>2, <3>2 DEF Exists
  <2>3. CASE item = [wd |-> WatchOf(p)', pathname |-> p]
    <3>1. item.wd = WatchOf(p)' /\ item.pathname = p
      BY <2>3
    <3> QED BY <1>4, <3>1 DEF Exists, WatchOf
  <2> QED BY <2>1, <2>2, <2>3
<1>5. ASSUME wd' = wd, fs' = fs, changed' = changed, Range(list') \subseteq Range(list)
      PROVE  Exists(item.pathname)' /\ wd'[fs'[item.pathname]] = item.wd
  <2>1. Watches' = Watches
    BY <1>5 DEF Watches
  <2> QED BY <1>a, <1>5, <2>1 DEF Exists
<1>6. CASE WalkFn
  BY <1>4, <1>6 DEF WalkFn, Exists, tree, history
<1>7. CASE HandleCreate
  BY <1>4, <1>7 DEF HandleCreate, Exists, tree, history
<1>8. CASE \/ WalkStat \/ WalkDenied \/ WalkReaddir \/ WalkReaddirFails
           \/ WalkEnds \/ WalkFails \/ CallRefused \/ Read \/ HandleOther
           \/ HandleCreateFails \/ HandleUnknown \/ UNCHANGED vars
  BY <1>5, <1>8 DEF WalkStat, WalkDenied, WalkReaddir, WalkReaddirFails, WalkEnds,
                    WalkFails, CallRefused, Read, HandleOther,
                    HandleCreateFails, HandleUnknown, vars, tree, kernel, history
<1>9. CASE HandleIgnored
  <2>1. Range(list') \subseteq Range(list)
    BY <1>0, <1>9, RemoveItem DEF HandleIgnored, Buffers
  <2> QED BY <1>5, <1>9, <2>1 DEF HandleIgnored, tree, kernel, history
<1> QED
  BY <1>1, <1>2, <1>3, <1>6, <1>7, <1>8, <1>9 DEF Next, WatcherStep
-----------------------------------------------------------------------------
(* New directories alone do not stop the watcher *)

\* Making directories keeps the watcher undisturbed.
LEMMA UndisturbedStep == IInv /\ [Next]_vars => Undisturbed'
<1> SUFFICES ASSUME IInv, [Next]_vars, changed' = {}
             PROVE  /\ Exists(<<>>)' /\ Items' \subseteq Watches'
                    /\ pc' = "fn" => Exists(Head(stack))'
                    /\ \A e \in Range(Pending') : e.kind # "ignored"
                    /\ \A e \in Range(Pending') : e.kind = "create" =>
                         \A item \in Range(list') : item.wd = e.wd => Exists(item.pathname \o e.name)'
  BY DEF Undisturbed
<1>0. /\ TypeOK /\ Buffers /\ Numbers /\ Closed /\ Events
      /\ fs \in [Paths -> 0..inodes] /\ wd \in [Inodes -> 0..wds] /\ wds \in Nat /\ inodes \in Nat
      /\ EventsOf(Pending, Watches)
  BY Basics DEF IInv, TypeOK, Events
<1>a. ASSUME changed = {}
      PROVE  /\ Exists(<<>>) /\ Items \subseteq Watches
             /\ pc = "fn" => Exists(Head(stack))
             /\ \A e \in Range(Pending) : e.kind # "ignored"
             /\ \A e \in Range(Pending) : e.kind = "create" =>
                  \A item \in Range(list) : item.wd = e.wd => Exists(item.pathname \o e.name)
             /\ \A item \in Range(list) :
                  Exists(item.pathname) /\ WatchOf(item.pathname) = item.wd
  BY <1>a DEF IInv, Undisturbed, PathsCurrent, Items
<1>c. \A e \in Range(Pending) : e.kind # "overflow" => e.wd \in Items
  BY DEF IInv, Covers
<1> HIDE DEF IInv
<1> DEFINE Goal == /\ Exists(<<>>)' /\ Items' \subseteq Watches'
                   /\ pc' = "fn" => Exists(Head(stack))'
                   /\ \A e \in Range(Pending') : e.kind # "ignored"
                   /\ \A e \in Range(Pending') : e.kind = "create" =>
                        \A item \in Range(list') :
                          item.wd = e.wd => Exists(item.pathname \o e.name)'
<1>1. ASSUME NEW p \in Paths, Mkdir(p) PROVE Goal
  <2>1. /\ p # <<>> /\ fs[p] = 0 /\ fs' = [fs EXCEPT ![p] = inodes + 1]
        /\ Front(p) \in Paths /\ Exists(Front(p))
        /\ Range(Pending') \subseteq Range(Pending) \union {CreateEvent(p), Overflow}
        /\ CreateEvent(p).kind = "create" /\ CreateEvent(p).wd = WatchOf(Front(p))
        /\ CreateEvent(p).name = <<Last(p)>>
    BY <1>0, <1>1, MkdirDoes
  <2>2. changed = {} /\ UNCHANGED <<wd, list, pc, stack>> /\ Watches' = Watches /\ Items' = Items
    BY <1>1 DEF Mkdir, program, Watches, Items
  <2>3. \A r : Exists(r) => Exists(r)'
    BY <1>0, <2>1 DEF Exists
  <2>4. Exists(p)'
    BY <1>0, <2>1 DEF Exists
  <2>5. \A e \in Range(Pending') : e.kind # "ignored"
    BY <1>a, <2>1, <2>2, EventTypes
  <2>6. ASSUME NEW e \in Range(Pending'), e.kind = "create", NEW item \in Range(list),
               item.wd = e.wd
        PROVE  Exists(item.pathname \o e.name)'
    <3>1. CASE e \in Range(Pending)
      BY <1>a, <2>2, <2>3, <2>6, <3>1
    <3>2. CASE e = CreateEvent(p)
      <4>1. Exists(item.pathname) /\ WatchOf(item.pathname) = WatchOf(Front(p)) /\ item.wd # 0
        BY <1>0, <1>a, <2>1, <2>2, <2>6, <3>2, ItemTypes
      <4>2. item.pathname = Front(p)
        BY <1>0, <1>a, <2>1, <2>2, <4>1, SameWatch DEF Exists
      <4>3. Front(p) \o <<Last(p)>> = p
        BY <2>1, PathTypes, FrontLast
      <4> QED BY <2>1, <2>4, <3>2, <4>2, <4>3
    <3> QED BY <2>1, <2>6, <3>1, <3>2, EventTypes
  <2> QED BY <1>a, <2>2, <2>3, <2>5, <2>6
<1>2. ASSUME NEW p \in Paths, Rmdir(p) PROVE FALSE
  BY <1>2 DEF Rmdir
<1>3. ASSUME NEW p \in Paths, NEW q \in Paths, Move(p, q) PROVE FALSE
  BY <1>3 DEF Move
<1>4. ASSUME NEW p \in Paths, Exists(p), WatchSubdir(p), fs' = fs, changed' = changed,
             Range(Pending') \subseteq Range(Pending), pc' # "fn"
      PROVE  Goal
  <2>1. /\ WatchOf(p)' \in Watches \/ WatchOf(p)' = wds + 1
        /\ WatchOf(p) # 0 => WatchOf(p)' = WatchOf(p)
        /\ WatchOf(p)' \in 1..wds'
        /\ Watches' = Watches \union {WatchOf(p)'} /\ Items' = Items \union {WatchOf(p)'}
        /\ Range(list') = Range(list) \union {[wd |-> WatchOf(p)', pathname |-> p]}
    BY <1>0, <1>4, WatchAdded
  <2>2. \A r : Exists(r) => Exists(r)'
    BY <1>4 DEF Exists
  <2>3. ASSUME NEW e \in Range(Pending'), e.kind = "create", NEW item \in Range(list'),
               item.wd = e.wd
        PROVE  Exists(item.pathname \o e.name)'
    <3>1. CASE item \in Range(list)
      BY <1>a, <1>4, <2>2, <2>3, <3>1
    <3>2. CASE item = [wd |-> WatchOf(p)', pathname |-> p]
      <4>1. item.wd = WatchOf(p)' /\ item.pathname = p
        BY <3>2
      <4>2. e \in Range(Pending) /\ e.wd \in Items
        BY <1>c, <1>4, <2>3
      <4>3. PICK old \in Range(list) : old.wd = e.wd
        BY <4>2 DEF Items
      <4>4. Exists(old.pathname) /\ WatchOf(old.pathname) = e.wd /\ e.wd # 0 /\ e.wd # wds + 1
        BY <1>0, <1>a, <1>4, <4>3, ItemTypes
      <4>5. old.pathname = p
        <5>1. old.pathname \in Paths
          BY <4>4 DEF Exists
        <5>2. fs[old.pathname] \in Inodes /\ wd[fs[old.pathname]] = e.wd
          BY <1>0, <4>4, <5>1, Basics DEF WatchOf
        <5>3. wd'[fs[old.pathname]] = e.wd
          <6>1. \A i \in Inodes : wd'[i] = wd[i] \/ (i = fs[p] /\ wd[i] = 0)
            BY <1>0, <1>4, WatchAdded
          <6> QED BY <4>4, <5>2, <6>1
        <5>4. wd'[fs[p]] = e.wd /\ fs[p] \in Inodes
          BY <1>0, <1>4, <2>3, <4>1, Basics DEF WatchOf
        <5>5. Numbers'
          BY NumbersStep
        <5>6. fs[old.pathname] = fs[p]
          BY <4>4, <5>2, <5>3, <5>4, <5>5 DEF Numbers
        <5> QED BY <1>0, <1>4, <5>1, <5>6 DEF TypeOK, Exists
      <4>6. Exists(p \o e.name)
        BY <1>a, <1>4, <2>3, <4>2, <4>3, <4>5
      <4> QED BY <2>2, <4>1, <4>6
    <3> QED BY <2>1, <3>1, <3>2
  <2>4. Exists(<<>>)'
    BY <1>a, <1>4, <2>2
  <2>5. Items' \subseteq Watches'
    BY <1>a, <1>4, <2>1
  <2>6. \A e \in Range(Pending') : e.kind # "ignored"
    BY <1>a, <1>4
  <2> QED BY <1>4, <2>3, <2>4, <2>5, <2>6
<1>5. ASSUME wd' = wd, fs' = fs, changed' = changed, Range(list') \subseteq Range(list),
             Range(Pending') \subseteq Range(Pending), pc' = "fn" => Exists(Head(stack'))
      PROVE  Goal
  <2>1. Watches' = Watches /\ Items' \subseteq Items
    BY <1>5 DEF Watches, Items
  <2>2. \A r : Exists(r) => Exists(r)'
    BY <1>5 DEF Exists
  <2> QED BY <1>a, <1>5, <2>1, <2>2
<1> SUFFICES Goal
  OBVIOUS
<1> HIDE DEF Goal
<1>6. CASE WalkFn
  BY <1>4, <1>6 DEF WalkFn, Exists, tree, history, Pending
<1>7. CASE HandleCreate
  <2>1. Range(Pending') \subseteq Range(Pending)
    BY <1>0, <1>7, FirstEvent DEF HandleCreate, Handles, Buffers
  <2> QED BY <1>4, <1>7, <2>1 DEF HandleCreate, Handled, Exists, tree, history
<1>8. CASE \/ WalkStat \/ WalkDenied \/ WalkReaddir \/ WalkReaddirFails
           \/ WalkEnds \/ WalkFails \/ CallRefused \/ HandleUnknown
  BY <1>5, <1>8 DEF WalkStat, WalkDenied, WalkReaddir, WalkReaddirFails, Visit, WalkEnds,
                    WalkFails, CallRefused, HandleUnknown, Exists,
                    tree, kernel, history, Pending
<1>9. CASE Read
  BY <1>0, <1>5, <1>9, ReadKeeps DEF Read, tree, history
<1>10. CASE HandleOther \/ HandleCreateFails
  <2>1. Range(Pending') \subseteq Range(Pending)
    BY <1>0, <1>10, FirstEvent DEF HandleOther, HandleCreateFails, Handles, Buffers, kernel
  <2> QED BY <1>5, <1>10, <2>1 DEF HandleOther, HandleCreateFails, Handled, tree, kernel, history
<1>11. CASE HandleIgnored
  <2>1. Range(Pending') \subseteq Range(Pending)
    BY <1>0, <1>11, FirstEvent DEF HandleIgnored, Handles, Buffers, kernel
  <2>2. Range(list') \subseteq Range(list)
    BY <1>0, <1>11, RemoveItem DEF HandleIgnored, Buffers
  <2> QED BY <1>5, <1>11, <2>1, <2>2 DEF HandleIgnored, Handled, tree, kernel, history
<1>12. CASE UNCHANGED vars
  <2>1. changed = {}
    BY <1>12 DEF vars
  <2> QED BY <1>5, <1>12, <1>a, <2>1 DEF vars, Pending
<1> QED
  BY <1>1, <1>2, <1>3, <1>6, <1>7, <1>8, <1>9, <1>10, <1>11, <1>12 DEF Next, WatcherStep

\* The watcher exits only when its view of the tree is wrong.
LEMMA ExitStep == IInv /\ [Next]_vars => ExitsExplained'
<1> SUFFICES ASSUME IInv, [Next]_vars, pc' = "exit" PROVE changed' # {} \/ overflow' \/ refused'
  BY DEF ExitsExplained
<1>0. /\ TypeOK /\ Buffers /\ Events /\ EventsOf(Pending, Watches)
      /\ Overflow \in Range(Pending) => overflow
      /\ \A e \in Range(Pending) : e.kind # "overflow" => e.wd \in Items
      /\ pc = "exit" => changed # {} \/ overflow \/ refused
  BY DEF IInv, Events, Covers, ExitsExplained
<1>a. ASSUME changed = {}
      PROVE  /\ Exists(<<>>)
             /\ pc = "fn" => Exists(Head(stack))
             /\ \A e \in Range(Pending) : e.kind = "create" =>
                  \A item \in Range(list) : item.wd = e.wd => Exists(item.pathname \o e.name)
  BY <1>a DEF IInv, Undisturbed
<1>b. pc = "handle" => Head(batch) \in Range(Pending)
  <2> SUFFICES ASSUME pc = "handle" PROVE Head(batch) \in Range(Pending)
    OBVIOUS
  <2>1. batch # <<>> /\ batch \in Seq(Ev)
    BY <1>0 DEF Buffers
  <2>2. Head(batch) = batch[1] /\ 1 \in DOMAIN batch
    BY <2>1
  <2>3. Head(batch) \in Range(batch)
    BY <2>2 DEF Range
  <2> QED BY <1>0, <2>3, Basics
<1> HIDE DEF IInv
<1>1. CASE pc = "exit"
  BY <1>0, <1>1 DEF Next, WatcherStep, WalkStat, WalkFn, WalkDenied, WalkReaddir,
       WalkReaddirFails, WalkEnds, WalkFails, CallRefused, Read,
       HandleOther, HandleIgnored, HandleCreate, HandleCreateFails, HandleUnknown, Handles, Handled,
       Mkdir, Rmdir, Move, Operates, vars, history, failures
<1>2. CASE WalkFails
  BY <1>a, <1>2 DEF WalkFails, history
<1>3. CASE HandleCreateFails
  <2> DEFINE e == Head(batch)
  <2>1. e.kind = "create" /\ ParentPaths(e.wd) # {} /\ e \in Range(Pending) /\ ~Exists(FullPathname)
    BY <1>b, <1>3 DEF HandleCreateFails, Handles
  <2>2. PICK item \in Range(list) : item.wd = e.wd /\ item.pathname = ParentPath(e.wd)
    BY <1>0, <2>1, ParentFound
  <2>3. FullPathname = item.pathname \o e.name
    BY <2>2 DEF FullPathname
  <2>4. changed # {}
    BY <1>a, <2>1, <2>2, <2>3
  <2> QED BY <1>3, <2>4 DEF HandleCreateFails, history
<1>4. CASE HandleUnknown
  <2> DEFINE e == Head(batch)
  <2>1. e \in Range(Pending) /\ e.wd \notin Items
    BY <1>0, <1>b, <1>4, ParentFound DEF HandleUnknown
  <2>2. e.kind = "overflow"
    BY <1>0, <2>1
  <2>3. e = Overflow
    <3>1. PICK k \in DOMAIN Pending : e = Pending[k]
      BY <2>1 DEF Range
    <3> HIDE DEF e
    <3> QED BY <1>0, <2>2, <3>1 DEF EventsOf
  <2> QED BY <1>0, <1>4, <2>1, <2>3 DEF HandleUnknown, history
<1>6. CASE CallRefused
  BY <1>6 DEF CallRefused
<1>5. CASE pc # "exit" /\ ~CallRefused /\ ~WalkFails /\ ~HandleCreateFails /\ ~HandleUnknown
  BY <1>5 DEF Next, WatcherStep, WalkStat, WalkFn, WalkDenied, WalkReaddir, WalkReaddirFails,
       Visit, WalkEnds, Read, HandleOther, HandleIgnored, HandleCreate, Handles, Handled,
       Mkdir, Rmdir, Move, Operates, vars, program
<1> QED BY <1>1, <1>2, <1>3, <1>4, <1>5, <1>6
-----------------------------------------------------------------------------
(* Nothing else is missed *)

\* On the way to a directory there are only directories, each in the next.
LEMMA OnPath ==
    ASSUME Closed, NEW p \in Paths, Exists(p), NEW s \in Seq(Names), IsPrefix(s, p)
    PROVE  /\ s \in Paths /\ Exists(s)
           /\ s # p => \E c \in Children(s) : IsPrefix(c, p) /\ Append(s, Last(c)) = c
<1>0. \A x \in Paths : x \in Seq(Names) /\ Len(x) \in Nat
  BY PathTypes
<1> DEFINE T == {n \in Nat : \E r \in Paths : /\ Exists(r) /\ IsPrefix(s, r) /\ IsPrefix(r, p)
                                              /\ r # s /\ Len(r) = n}
<1>1. CASE s = p
  BY <1>1 DEF Exists
<1>2. CASE s # p
  <2>0. p # <<>>
    <3> SUFFICES ASSUME p = <<>> PROVE FALSE
      OBVIOUS
    <3>1. Len(s) =< Len(p) /\ Len(p) = 0 /\ Len(s) \in Nat
      BY <1>0, Prefix
    <3>2. Len(s) = 0
      BY <3>1
    <3>3. s = <<>>
      BY <3>2, EmptySeq
    <3> QED BY <1>2, <3>3
  <2>1. IsPrefix(p, p)
    BY <1>0, <2>0, PrefixFront
  <2>2. T # {}
    <3>1. Len(p) \in T
      BY <1>0, <1>2, <2>1
    <3> QED BY <3>1
  <2>3. PICK n \in T : \A m \in T : n =< m
    <3>1. T \in SUBSET Nat
      OBVIOUS
    <3> HIDE DEF T
    <3> QED BY <2>2, <3>1, LeastNumber
  <2>4. PICK r \in Paths : Exists(r) /\ IsPrefix(s, r) /\ IsPrefix(r, p) /\ r # s /\ Len(r) = n
    BY <2>3
  <2>5. r # <<>>
    <3> SUFFICES ASSUME r = <<>> PROVE FALSE
      OBVIOUS
    <3>1. Len(s) =< Len(r) /\ Len(r) = 0 /\ Len(s) \in Nat
      BY <1>0, <2>4, Prefix
    <3>2. Len(s) = 0
      BY <3>1
    <3>3. s = <<>>
      BY <3>2, EmptySeq
    <3> QED BY <2>4, <3>3
  <2>6. /\ Front(r) \in Paths /\ Exists(Front(r)) /\ IsPrefix(s, Front(r))
        /\ Len(Front(r)) = Len(r) - 1 /\ \A k \in 1..(Len(r) - 1) : Front(r)[k] = r[k]
        /\ Append(Front(r), Last(r)) = r
    BY <1>0, <2>4, <2>5, Parent, PrefixFront, FrontLast
  <2>7. IsPrefix(Front(r), p)
    <3>1. Len(r) =< Len(p) /\ \A k \in 1..Len(r) : r[k] = p[k]
      BY <1>0, <2>4, Prefix
    <3>2. Len(Front(r)) =< Len(p) /\ \A k \in 1..Len(Front(r)) : Front(r)[k] = p[k]
      BY <1>0, <2>6, <3>1
    <3> QED BY <1>0, <2>6, <3>2, Prefix
  <2>8. Front(r) = s
    <3> SUFFICES ASSUME Front(r) # s PROVE FALSE
      OBVIOUS
    <3>1. Len(Front(r)) \in T
      BY <1>0, <2>6, <2>7
    <3>2. n =< Len(Front(r))
      BY <2>3, <3>1
    <3> QED BY <1>0, <2>4, <2>6, <3>2
  <2>9. r \in Children(s)
    BY <2>4, <2>5, <2>8 DEF Children, Exists
  <2> QED BY <2>4, <2>6, <2>8, <2>9
<1> QED BY <1>1, <1>2

\* Every step keeps every directory that is not watched yet found.
LEMMA FoundStep == IInv /\ [Next]_vars => Found'
<1> SUFFICES ASSUME IInv, [Next]_vars, pc' # "exit", ~overflow', "rename" \notin changed',
                    NEW p \in Paths, Missed(p)'
             PROVE  Announced(p)' \/ OnTheWay(p)'
  BY DEF Found
<1>0. /\ TypeOK /\ Buffers /\ Numbers /\ Closed /\ Events
      /\ fs \in [Paths -> 0..inodes] /\ wd \in [Inodes -> 0..wds] /\ wds \in Nat /\ inodes \in Nat
      /\ EventsOf(Pending, Watches)
  BY Basics DEF IInv, TypeOK, Events
<1>a. ASSUME pc # "exit", ~overflow, "rename" \notin changed, Missed(p)
      PROVE  Announced(p) \/ OnTheWay(p)
  BY <1>a DEF IInv, Found
<1>b. ASSUME "rename" \notin changed, NEW item \in Range(list), item.wd \in Watches
      PROVE  Exists(item.pathname) /\ WatchOf(item.pathname) = item.wd
  BY <1>b DEF IInv, PathsCurrent
<1>c. p \in Paths /\ fs'[p] # 0 /\ wd'[fs'[p]] = 0 /\ fs'[p] \notin late'
  BY DEF Missed, Exists, WatchOf
<1>u. \A x \in Paths : IsPrefix(x, p) => fs'[x] \notin unread'
  BY DEF Missed, Unread
<1>v. 0 \notin unread
  BY <1>0 DEF TypeOK, Inodes
<1>w. unread \subseteq unread'
  BY DEF Next, WatcherStep, WalkStat, WalkFn, WalkDenied, WalkReaddir, WalkReaddirFails, WalkEnds,
         WalkFails, CallRefused, Read, HandleOther, HandleIgnored, HandleCreate, HandleCreateFails,
         HandleUnknown, Mkdir, Rmdir, Move, failures, vars
<1>x. ASSUME \A x \in Paths : fs[x] # 0 /\ IsPrefix(x, p) => fs'[x] = fs[x]
      PROVE  ~Unread(p)
  BY <1>u, <1>v, <1>w, <1>x DEF Unread
<1>d. stack \in Seq(Seq(Names)) /\ DOMAIN stack = 1..Len(stack) /\ Len(stack) \in Nat
  BY <1>0 DEF TypeOK
<1>e. \A k \in DOMAIN stack : stack[k] \in Seq(Names)
  BY <1>d
<1>f. \A x \in Paths : x \in Seq(Names)
  BY PathTypes
<1> HIDE DEF IInv
<1>1. ASSUME NEW q \in Paths, Mkdir(q) PROVE Announced(p)' \/ OnTheWay(p)'
  <2>1. /\ q # <<>> /\ fs[q] = 0 /\ fs' = [fs EXCEPT ![q] = inodes + 1]
        /\ Front(q) \in Paths /\ Exists(Front(q)) /\ Front(q) # q
        /\ CreateEvent(q).kind = "create" /\ CreateEvent(q).wd = WatchOf(Front(q))
        /\ CreateEvent(q).name = <<Last(q)>>
        /\ Range(Pending) \subseteq Range(Pending')
        /\ overflow => overflow'
        /\ ~overflow' /\ WatchOf(Front(q)) # 0 => CreateEvent(q) \in Range(Pending')
    BY <1>0, <1>1, MkdirDoes
  <2>2. /\ UNCHANGED <<wd, pc, stack, dir, changed>>
        /\ late' = IF WatchOf(Front(q)) = 0 THEN late \union {inodes + 1} ELSE late
    BY <1>1 DEF Mkdir, program
  <2>3. CASE p = q
    <3>1. fs'[q] = inodes + 1 /\ fs'[Front(q)] = fs[Front(q)]
      BY <1>0, <2>1
    <3>2. WatchOf(Front(q)) # 0
      BY <1>c, <2>2, <2>3, <3>1
    <3>3. WatchOf(Front(q))' = WatchOf(Front(q))
      BY <2>2, <3>1 DEF WatchOf
    <3> QED BY <2>1, <2>3, <3>2, <3>3 DEF Announced
  <2>4. CASE p # q
    <3>1. fs'[p] = fs[p]
      BY <1>0, <2>1, <2>4
    <3>2. Missed(p) /\ Exists(p)
      <4>1. ~Unread(p)
        BY <1>0, <1>x, <2>1
      <4> QED BY <1>c, <2>2, <3>1, <4>1 DEF Missed, Exists, WatchOf
    <3>3. Announced(p) \/ OnTheWay(p)
      BY <1>a, <2>1, <2>2, <3>2
    <3>4. CASE Announced(p)
      <4>1. p # <<>> /\ Front(p) \in Paths /\ Front(p) # q
        BY <1>0, <2>1, <3>2, <3>4, Parent DEF Announced, Exists
      <4>2. WatchOf(Front(p))' = WatchOf(Front(p))
        BY <1>0, <2>1, <2>2, <4>1 DEF WatchOf
      <4> QED BY <2>1, <3>4, <4>2 DEF Announced
    <3>5. CASE OnTheWay(p)
      <4>1. ASSUME NEW k \in DOMAIN stack, IsPrefix(stack[k], p) PROVE fs'[stack[k]] = fs[stack[k]]
        <5>1. stack[k] \in Paths /\ stack[k] # q
          BY <1>0, <1>e, <2>1, <3>2, <4>1, OnPath DEF Exists
        <5> QED BY <1>0, <2>1, <5>1
      <4> QED BY <2>2, <3>5, <4>1 DEF OnTheWay
    <3> QED BY <3>3, <3>4, <3>5
  <2> QED BY <2>3, <2>4
<1>2. ASSUME NEW q \in Paths, Rmdir(q) PROVE Announced(p)' \/ OnTheWay(p)'
  <2>1. /\ fs' = [fs EXCEPT ![q] = 0] /\ wd' = [wd EXCEPT ![fs[q]] = 0]
        /\ Children(q) = {} /\ Exists(q)
        /\ Range(Pending) \subseteq Range(Pending')
        /\ overflow => overflow'
    BY <1>0, <1>2, RmdirDoes
  <2>2. UNCHANGED <<pc, stack, dir, late>> /\ "rename" \notin changed
    BY <1>2 DEF Rmdir, program
  <2>3. p # q /\ fs'[p] = fs[p] /\ fs[p] # fs[q]
    BY <1>0, <1>c, <2>1 DEF TypeOK, Exists
  <2>4. Missed(p) /\ Exists(p)
    <3>1. Exists(p)
      BY <1>c, <2>3 DEF Exists
    <3>2. ASSUME NEW x \in Paths, fs[x] # 0, IsPrefix(x, p) PROVE fs'[x] = fs[x]
      <4>1. x = p \/ Children(x) # {}
        BY <1>0, <1>f, <3>1, <3>2, OnPath
      <4> QED BY <1>0, <2>1, <2>3, <4>1
    <3>3. ~Unread(p)
      BY <1>x, <3>2
    <3> QED BY <1>0, <1>c, <2>1, <2>2, <2>3, <3>1, <3>3, Basics DEF Missed, Exists, WatchOf
  <2>5. Announced(p) \/ OnTheWay(p)
    BY <1>a, <2>1, <2>2, <2>4
  <2>6. \A x \in Paths : Exists(x) /\ x # q => fs'[x] = fs[x] /\ wd'[fs'[x]] = wd[fs[x]]
    <3> SUFFICES ASSUME NEW x \in Paths, Exists(x), x # q
                 PROVE  fs'[x] = fs[x] /\ wd'[fs'[x]] = wd[fs[x]]
      OBVIOUS
    <3>1. fs'[x] = fs[x] /\ fs[x] # fs[q] /\ fs[x] \in Inodes
      BY <1>0, <2>1, Basics DEF TypeOK, Exists
    <3> QED BY <1>0, <2>1, <3>1
  <2>7. CASE Announced(p)
    <3>1. p # <<>> /\ Front(p) \in Paths /\ Exists(Front(p))
      BY <1>0, <2>4, <2>7, Parent DEF Announced
    <3>2. Front(p) # q
      BY <2>1, <2>4, <3>1 DEF Children, Exists
    <3>3. WatchOf(Front(p))' = WatchOf(Front(p))
      BY <2>6, <3>1, <3>2 DEF WatchOf
    <3> QED BY <2>1, <2>7, <3>3 DEF Announced
  <2>8. CASE OnTheWay(p)
    <3>1. ASSUME NEW k \in DOMAIN stack, IsPrefix(stack[k], p), stack[k] # p
          PROVE  fs'[stack[k]] = fs[stack[k]]
      <4>1. stack[k] \in Paths /\ Exists(stack[k]) /\ Children(stack[k]) # {}
        BY <1>0, <1>e, <2>4, <3>1, OnPath
      <4> QED BY <2>1, <2>6, <4>1
    <3> QED BY <2>2, <2>8, <3>1 DEF OnTheWay
  <2> QED BY <2>5, <2>7, <2>8
<1>3. ASSUME NEW q \in Paths, NEW r \in Paths, Move(q, r) PROVE FALSE
  BY <1>3 DEF Move
<1>4. ASSUME UNCHANGED <<fs, wd, history>>, pc # "exit" PROVE Missed(p) /\ (Announced(p) \/ OnTheWay(p))
  <2>1. Missed(p)
    BY <1>c, <1>4, <1>x DEF Missed, Exists, WatchOf, history
  <2> QED BY <1>a, <1>4, <2>1 DEF history
<1>5. ASSUME NEW q \in Paths, Exists(q), WatchSubdir(q), UNCHANGED <<fs, history>>, pc # "exit"
      PROVE  /\ Missed(p) /\ (Announced(p) \/ OnTheWay(p)) /\ p # q
             /\ \A x \in Paths : Exists(x) /\ WatchOf(x) # 0 => WatchOf(x)' = WatchOf(x)
  <2>1. /\ \A i \in Inodes : wd'[i] = wd[i] \/ (i = fs[q] /\ wd[i] = 0)
        /\ WatchOf(q)' \in 1..wds' /\ wds' \in Nat
    BY <1>0, <1>5, WatchAdded
  <2>2. p # q
    BY <1>c, <2>1 DEF WatchOf
  <2>3. fs[p] # 0 /\ fs'[p] = fs[p] /\ fs[p] \in Inodes
    BY <1>0, <1>c, <1>5, Basics DEF Exists
  <2>4. wd[fs[p]] = 0
    BY <1>c, <2>1, <2>3
  <2>5. Missed(p)
    BY <1>c, <1>5, <1>x, <2>3, <2>4 DEF Missed, Exists, WatchOf, history
  <2>6. ASSUME NEW x \in Paths, Exists(x), WatchOf(x) # 0 PROVE WatchOf(x)' = WatchOf(x)
    <3>1. fs[x] \in Inodes /\ fs'[x] = fs[x]
      BY <1>0, <1>5, <2>6, Basics
    <3> QED BY <2>1, <2>6, <3>1 DEF WatchOf
  <2> QED BY <1>a, <1>5, <2>2, <2>5, <2>6 DEF history
<1>t. ASSUME NEW k \in DOMAIN stack, k # 1, IsPrefix(stack[k], p), pc' = "walk",
             stack' = Tail(stack)
      PROVE  OnTheWay(p)'
  <2>1. /\ DOMAIN Tail(stack) = 1..(Len(stack) - 1)
        /\ \A j \in 1..(Len(stack) - 1) : Tail(stack)[j] = stack[j + 1]
    BY <1>d, <1>t
  <2>2. k - 1 \in 1..(Len(stack) - 1) /\ (k - 1) + 1 = k
    BY <1>d, <1>t
  <2>3. k - 1 \in DOMAIN stack' /\ stack'[k - 1] = stack[k]
    BY <1>t, <2>1, <2>2
  <2> QED BY <1>t, <2>3 DEF OnTheWay
<1>6. CASE WalkStat
  <2>1. UNCHANGED <<fs, wd, history>> /\ pc = "walk" /\ Pending' = Pending /\ stack # <<>>
    BY <1>6 DEF WalkStat, tree, kernel, Pending
  <2>2. Missed(p) /\ (Announced(p) \/ OnTheWay(p))
    BY <1>4, <2>1
  <2>3. CASE Announced(p)
    BY <2>1, <2>3 DEF Announced, WatchOf
  <2>4. CASE OnTheWay(p)
    <3>1. PICK k \in DOMAIN stack : IsPrefix(stack[k], p)
      BY <2>1, <2>4 DEF OnTheWay
    <3>2. CASE Exists(Head(stack))
      BY <1>6, <3>1, <3>2 DEF WalkStat, OnTheWay
    <3>3. CASE ~Exists(Head(stack))
      <4>1. pc' = "walk" /\ stack' = Tail(stack)
        BY <1>6, <3>3 DEF WalkStat
      <4>2. Head(stack) = stack[1]
        BY <1>d, <2>1
      <4>3. k # 1
        BY <1>0, <1>e, <2>2, <3>1, <3>3, <4>2, OnPath DEF Missed
      <4> QED BY <1>t, <3>1, <4>1, <4>3
    <3> QED BY <3>2, <3>3
  <2> QED BY <2>2, <2>3, <2>4
<1>16. CASE WalkDenied
  <2>1. /\ UNCHANGED <<fs, wd, history>> /\ pc \in {"walk", "fn"} /\ Pending' = Pending /\ stack # <<>>
        /\ Exists(Head(stack)) /\ fs[Head(stack)] \in unread'
        /\ pc' = "walk" /\ stack' = Tail(stack)
    BY <1>16 DEF WalkDenied, tree, kernel, Pending
  <2>2. Missed(p) /\ (Announced(p) \/ OnTheWay(p))
    BY <1>4, <2>1
  <2>3. CASE Announced(p)
    BY <2>1, <2>3 DEF Announced, WatchOf
  <2>4. CASE OnTheWay(p)
    <3>1. PICK k \in DOMAIN stack : IsPrefix(stack[k], p)
      BY <2>1, <2>4 DEF OnTheWay
    <3>2. Head(stack) = stack[1] /\ Head(stack) \in Paths
      BY <1>d, <2>1 DEF Exists
    <3>3. k # 1
      BY <1>u, <2>1, <3>1, <3>2
    <3> QED BY <1>t, <2>1, <3>1, <3>3
  <2> QED BY <2>2, <2>3, <2>4
<1>7. CASE WalkFn
  <2> DEFINE h == Head(stack)
  <2>1. /\ pc = "fn" /\ Exists(h) /\ h \in Paths /\ WatchSubdir(h) /\ UNCHANGED <<fs, history>>
        /\ pc' = "readdir" /\ stack' = stack /\ dir' = fs[h] /\ Pending' = Pending
    BY <1>7 DEF WalkFn, tree, Exists, Pending
  <2>2. /\ Missed(p) /\ (Announced(p) \/ OnTheWay(p)) /\ p # h
        /\ \A x \in Paths : Exists(x) /\ WatchOf(x) # 0 => WatchOf(x)' = WatchOf(x)
    BY <1>5, <2>1
  <2>3. CASE Announced(p)
    <3>1. p # <<>> /\ Front(p) \in Paths /\ Exists(Front(p))
      BY <1>0, <2>2, <2>3, Parent DEF Announced, Missed
    <3>2. PICK e \in Range(Pending) :
            e.kind = "create" /\ e.wd = WatchOf(Front(p)) /\ e.name = <<Last(p)>>
      BY <2>3 DEF Announced
    <3>3. e.wd # 0
      BY <1>0, <3>2, Watched
    <3> QED BY <2>1, <2>2, <3>1, <3>2, <3>3 DEF Announced
  <2>4. CASE OnTheWay(p)
    <3>1. PICK k \in DOMAIN stack : IsPrefix(stack[k], p)
      BY <2>1, <2>4 DEF OnTheWay
    <3>2. h = stack[1]
      BY <1>0, <1>d, <2>1 DEF Buffers
    <3> QED BY <2>1, <2>2, <3>1, <3>2 DEF OnTheWay
  <2> QED BY <2>2, <2>3, <2>4
<1>8. CASE WalkReaddir \/ WalkReaddirFails
  <2>1. /\ UNCHANGED <<fs, wd, history>> /\ pc = "readdir" /\ pc' = "walk" /\ Pending' = Pending
        /\ stack # <<>>
    BY <1>0, <1>8 DEF WalkReaddir, WalkReaddirFails, Visit, tree, kernel, Pending, Buffers
  <2>2. Missed(p) /\ (Announced(p) \/ OnTheWay(p))
    BY <1>4, <2>1
  <2>3. CASE Announced(p)
    BY <2>1, <2>3 DEF Announced, WatchOf
  <2>4. CASE OnTheWay(p)
    <3>1. PICK k \in DOMAIN stack :
            IsPrefix(stack[k], p) /\ (k = 1 => dir = fs[stack[1]] /\ stack[1] # p)
      BY <2>1, <2>4 DEF OnTheWay
    <3>2. PICK T \in SUBSET Members : Visit(T) /\ (T = Members \/ dir \in unread')
      BY <1>8 DEF WalkReaddir, WalkReaddirFails
    <3>3. /\ k # 1 => \E j \in DOMAIN stack' : stack'[j] = stack[k]
          /\ \A x \in T : \E j \in DOMAIN stack' : stack'[j] = Append(stack[1], x)
      BY <1>0, <2>1, <3>2, Listed
    <3>4. CASE k # 1
      BY <2>1, <3>1, <3>3, <3>4 DEF OnTheWay
    <3>5. CASE k = 1
      <4>1. /\ stack[1] \in Paths
            /\ \E c \in Children(stack[1]) : IsPrefix(c, p) /\ Append(stack[1], Last(c)) = c
        BY <1>0, <1>e, <2>2, <3>1, <3>5, OnPath DEF Missed
      <4>2. PICK c \in Children(stack[1]) : IsPrefix(c, p) /\ Append(stack[1], Last(c)) = c
        BY <4>1
      <4>3. T = Members
        BY <1>u, <2>1, <3>1, <3>2, <3>5, <4>1
      <4>4. Last(c) \in T
        BY <3>1, <3>5, <4>1, <4>3, ListedAll
      <4>5. \E j \in DOMAIN stack' : stack'[j] = c
        BY <3>3, <4>2, <4>4
      <4> QED BY <2>1, <4>2, <4>5 DEF OnTheWay
    <3> QED BY <3>4, <3>5
  <2> QED BY <2>2, <2>3, <2>4
<1>9. CASE WalkEnds
  <2>1. /\ UNCHANGED <<fs, wd, history>> /\ pc = "walk" /\ Pending' = Pending /\ stack = <<>>
    BY <1>9 DEF WalkEnds, tree, kernel, Pending
  <2>2. Announced(p) \/ OnTheWay(p)
    BY <1>4, <2>1
  <2>3. ~OnTheWay(p)
    BY <2>1 DEF OnTheWay
  <2> QED BY <2>1, <2>2, <2>3 DEF Announced, WatchOf
<1>10. CASE Read
  <2>1. UNCHANGED <<fs, wd, history>> /\ pc = "read" /\ Pending' = Pending
    BY <1>0, <1>10, ReadKeeps DEF Read, tree
  <2>2. Announced(p) \/ OnTheWay(p)
    BY <1>4, <2>1
  <2>3. ~OnTheWay(p)
    BY <2>1 DEF OnTheWay
  <2> QED BY <2>1, <2>2, <2>3 DEF Announced, WatchOf
<1>11. ASSUME pc = "handle", batch' = Tail(batch), queue' = queue
       PROVE  ~OnTheWay(p) /\ Range(Pending) \subseteq Range(Pending') \union {Head(batch)}
  <2>1. batch # <<>>
    BY <1>0, <1>11 DEF Buffers
  <2> QED BY <1>0, <1>11, <2>1, FirstEvent DEF OnTheWay
<1>12. CASE HandleOther \/ HandleIgnored
  <2>1. /\ UNCHANGED <<fs, wd, history>> /\ pc = "handle" /\ batch' = Tail(batch) /\ queue' = queue
        /\ Head(batch).kind # "create"
    BY <1>12 DEF HandleOther, HandleIgnored, Handles, tree, kernel
  <2>2. Announced(p)
    BY <1>4, <1>11, <2>1
  <2> QED BY <1>11, <2>1, <2>2 DEF Announced, WatchOf
<1>13. CASE HandleCreate
  <2> DEFINE e == Head(batch)
             q == FullPathname
  <2>1. /\ pc = "handle" /\ batch' = Tail(batch) /\ queue' = queue /\ UNCHANGED <<fs, history>>
        /\ Exists(q) /\ q \in Paths /\ WatchSubdir(q) /\ ParentPaths(e.wd) # {}
    BY <1>13 DEF HandleCreate, Handles, tree, Exists
  <2>2. /\ Missed(p) /\ (Announced(p) \/ OnTheWay(p)) /\ p # q
        /\ \A x \in Paths : Exists(x) /\ WatchOf(x) # 0 => WatchOf(x)' = WatchOf(x)
    BY <1>5, <2>1
  <2>3. Announced(p)
    BY <1>11, <2>1, <2>2
  <2>4. p # <<>> /\ Front(p) \in Paths /\ Exists(Front(p))
    BY <1>0, <2>2, <2>3, Parent DEF Announced, Missed
  <2>5. PICK a \in Range(Pending) :
          a.kind = "create" /\ a.wd = WatchOf(Front(p)) /\ a.name = <<Last(p)>>
    BY <2>3 DEF Announced
  <2>6. a.wd # 0 /\ a.wd \in Watches
    BY <1>0, <2>4, <2>5, Watched, Basics
  <2>7. a # e
    <3> SUFFICES ASSUME a = e PROVE FALSE
      OBVIOUS
    <3>1. PICK item \in Range(list) : item.wd = e.wd /\ item.pathname = ParentPath(e.wd)
      BY <1>0, <2>1, ParentFound
    <3>2. Exists(item.pathname) /\ WatchOf(item.pathname) = e.wd
      BY <1>b, <2>1, <2>6, <3>1 DEF history
    <3>3. item.pathname = Front(p)
      BY <1>0, <2>4, <2>5, <2>6, <3>2, SameWatch DEF Exists
    <3>4. q = Front(p) \o <<Last(p)>>
      BY <2>5, <3>1, <3>3 DEF FullPathname
    <3>5. q = p
      BY <1>f, <2>4, <3>4, FrontLast
    <3> QED BY <2>2, <3>5
  <2>8. a \in Range(Pending')
    BY <1>11, <2>1, <2>7
  <2> QED BY <2>2, <2>4, <2>5, <2>6, <2>8 DEF Announced
<1>14. CASE WalkFails \/ CallRefused \/ HandleCreateFails \/ HandleUnknown
  BY <1>14 DEF WalkFails, CallRefused, HandleCreateFails, HandleUnknown
<1>15. CASE UNCHANGED vars
  <2>1. UNCHANGED <<fs, wd, history>> /\ pc # "exit"
    BY <1>15 DEF vars, history
  <2>2. Announced(p) \/ OnTheWay(p)
    BY <1>4, <2>1
  <2> QED BY <1>15, <2>2 DEF Announced, OnTheWay, WatchOf, Pending, vars
<1> QED
  BY <1>1, <1>2, <1>3, <1>6, <1>7, <1>8, <1>9, <1>10, <1>12, <1>13, <1>14, <1>15, <1>16
     DEF Next, WatcherStep
-----------------------------------------------------------------------------
(* The theorems *)

\* The invariant at the start of the walk.
LEMMA InitIInv == Init => IInv
<1> SUFFICES ASSUME Init PROVE IInv
  OBVIOUS
<1>1. PICK t \in Trees : \E f \in [Paths -> 0..Cardinality(t)] :
        /\ fs = f /\ inodes = Cardinality(t)
        /\ \A p \in Paths : f[p] # 0 <=> p \in t
        /\ \A p, q \in t : p # q => f[p] # f[q]
  BY DEF Init
<1>2. /\ fs \in [Paths -> 0..inodes] /\ inodes = Cardinality(t)
      /\ \A p \in Paths : fs[p] # 0 <=> p \in t
      /\ \A p, q \in t : p # q => fs[p] # fs[q]
  BY <1>1
<1>3. /\ wd = [i \in Inodes |-> 0] /\ wds = 0 /\ queue = <<>>
      /\ list = <<>> /\ pc = "walk" /\ stack = << <<>> >> /\ dir = 0 /\ batch = <<>>
      /\ ops = 0 /\ late = {} /\ changed = {} /\ overflow = FALSE
      /\ unread = {} /\ refused = FALSE
  BY DEF Init
<1>4. /\ t \in SUBSET Paths /\ <<>> \in t /\ \A p \in t \ {<<>>} : Front(p) \in t
      /\ IsFiniteSet(Paths) /\ MAXQ \in Nat /\ MaxOps \in Nat
  BY ConstAssumption
<1>5. inodes \in Nat /\ inodes >= 1 /\ inodes =< Cardinality(Paths) /\ Cardinality(Paths) \in Nat
  <2>1. IsFiniteSet(t) /\ Cardinality(t) =< Cardinality(Paths)
    BY <1>4, FS_Subset
  <2>2. Cardinality(t) \in Nat /\ Cardinality(Paths) \in Nat
    BY <1>4, <2>1, FS_CardinalityType
  <2>3. Cardinality(t) # 0
    BY <1>4, <2>1, FS_EmptySet
  <2> QED BY <1>2, <2>1, <2>2, <2>3
<1>6. Pending = <<>> /\ Range(Pending) = {} /\ Range(list) = {} /\ DOMAIN Pending = {}
  <2>1. Pending = <<>>
    BY <1>3 DEF Pending
  <2> QED BY <1>3, <2>1 DEF Range
<1>7. Watches = {} /\ Items = {}
  BY <1>3, <1>6 DEF Watches, Items
<1>8. TypeOK
  <2>1. inodes \in Inodes
    BY <1>4, <1>5 DEF Inodes
  <2>2. \A p, q \in Paths : fs[p] = fs[q] /\ fs[p] # 0 => p = q
    BY <1>2
  <2>3. stack \in Seq(Seq(Names)) /\ wd \in [Inodes -> 0..wds] /\ wds \in Nat
    <3>1. <<>> \in Seq(Names)
      BY EmptySeq
    <3>2. << <<>> >> \in Seq(Seq(Names))
      BY <3>1
    <3> QED BY <1>3, <3>2
  <2>4. Len(queue) =< MAXQ + 1 /\ dir \in 0..inodes /\ ops \in 0..MaxOps
    BY <1>3, <1>4, <1>5
  <2> QED BY <1>2, <1>3, <1>6, <2>1, <2>2, <2>3, <2>4 DEF TypeOK
<1>9. Buffers
  <2>1. Len(queue) = 0
    BY <1>3
  <2> QED BY <1>3, <1>4, <2>1 DEF Buffers, Bounded
<1>10. Numbers
  BY <1>3, <1>5 DEF Numbers
<1>11. Closed
  BY <1>2, <1>4 DEF Closed, Exists
<1>12. Events /\ Covers /\ PathsCurrent /\ Undisturbed /\ ExitsExplained
  <2>1. Exists(<<>>)
    BY <1>2, <1>4 DEF Exists
  <2> QED BY <1>3, <1>6, <1>7, <2>1
             DEF Events, EventsOf, Covers, PathsCurrent, Undisturbed, ExitsExplained
<1>13. Found
  <2> SUFFICES ASSUME NEW p \in Paths PROVE OnTheWay(p)
    BY DEF Found
  <2>1. IsPrefix(<<>>, p)
    <3>1. <<>> \in Seq(Names) /\ p \in Seq(Names) /\ Len(<<>>) = 0 /\ Len(p) \in Nat
      BY PathTypes, EmptySeq
    <3> DEFINE r == <<>>
    <3>2. r \in Seq(Names) /\ Len(r) =< Len(p) /\ \A k \in 1..Len(r) : r[k] = p[k]
      BY <3>1
    <3> HIDE DEF r
    <3>3. IsPrefix(r, p)
      BY <3>1, <3>2, Prefix
    <3> QED BY <3>3 DEF r
  <2>2. 1 \in DOMAIN stack /\ stack[1] = <<>>
    BY <1>3
  <2> QED BY <1>3, <2>1, <2>2 DEF OnTheWay
<1> QED BY <1>8, <1>9, <1>10, <1>11, <1>12, <1>13 DEF IInv

\* The invariant holds at every moment.
LEMMA Invariance == Spec => []IInv
<1>1. IInv /\ [Next]_vars => IInv'
  BY BuffersStep, NumbersStep, ClosedStep, TypeStep, EventsStep, CoversStep, PathsStep,
     UndisturbedStep, ExitStep, FoundStep DEF IInv
<1> QED BY InitIInv, <1>1, PTL DEF Spec

\* Whatever others do to the tree, the list covers the watches and the events
\* (19_1.c 76 and 126 find what they look for).
THEOREM ListCovers == Spec => []ListCoversWatches
<1>1. IInv => ListCoversWatches
  BY DEF IInv, Covers, ListCoversWatches
<1> QED BY Invariance, <1>1, PTL

\* New directories alone never stop the watcher (exit in 19_1.c): something was
\* removed or renamed, an event was dropped, or the system refused a call.
THEOREM WatcherExits == Spec => []ExitsExplained
<1>1. IInv => ExitsExplained
  BY DEF IInv
<1> QED BY Invariance, <1>1, PTL

\* Walk and events together miss only what was made in an unwatched directory or
\* is in a directory that nftw could not read.
THEOREM MissesNothingElse == Spec => []NothingElseMissed
<1>1. IInv => NothingElseMissed
  <2> SUFFICES ASSUME IInv, pc = "read", queue = <<>>, ~overflow, "rename" \notin changed,
                      NEW p \in Paths, Exists(p), WatchOf(p) = 0, fs[p] \notin late, ~Unread(p)
               PROVE  FALSE
    BY DEF NothingElseMissed
  <2>1. Announced(p) \/ OnTheWay(p)
    BY DEF IInv, Found, Missed
  <2>2. ~OnTheWay(p)
    BY DEF OnTheWay
  <2>3. batch = <<>>
    BY DEF IInv, Buffers
  <2>4. Range(Pending) = {}
    <3>1. Pending = <<>>
      BY <2>3 DEF Pending
    <3> QED BY <3>1 DEF Range
  <2> QED BY <2>1, <2>2, <2>4 DEF Announced
<1> QED BY Invariance, <1>1, PTL
-----------------------------------------------------------------------------
(* The end of a file *)

\* The newlines among the bytes from a on, and among those from a to b.
From(a) == {k \in a..(file_size - 1) : file[k] = "newline"}
Within(a, b) == {k \in a..b : file[k] = "newline"}

\* As long as nothing was missed, all newlines behind the chunk are counted.
Counting ==
    step = "read" /\ ~skipped /\ ~overlap =>
        /\ seek_size = Smaller(BUF_SIZE, file_size) /\ pos + seek_size + offset = file_size
        /\ line_count = Cardinality(From(pos + seek_size))

Located ==
    step = "print" /\ ~skipped /\ ~overlap => offset =< file_size /\ file_size - offset = LastLines

Shown ==
    step \in {"done", "error"} /\ ~skipped /\ ~overlap => step = "done" /\ start = LastLines

TailInv == TailTypeOK /\ Counting /\ Located /\ Shown

\* Sets of bytes are finite.
LEMMA BytesFinite ==
    ASSUME NEW a \in Int, NEW b \in Int
    PROVE  IsFiniteSet(Within(a, b)) /\ Cardinality(Within(a, b)) \in Nat
<1>1. IsFiniteSet(a..b)
  BY FS_Interval
<1>2. Within(a, b) \in SUBSET (a..b)
  BY DEF Within
<1> QED BY <1>1, <1>2, FS_Subset, FS_CardinalityType

\* The newlines of the chunk from an index on, as bytes of the file.
LEMMA Shifted ==
    ASSUME TailTypeOK, NEW i \in 1..read_size
    PROVE  /\ IsFiniteSet({j \in Newlines : j >= i})
           /\ Cardinality({j \in Newlines : j >= i}) = Cardinality(Within(pos + i, pos + read_size - 1))
<1> DEFINE S == Within(pos + i, pos + read_size - 1)
           T == {j \in Newlines : j >= i}
           f == [k \in S |-> k - pos]
<1>0. pos \in Int /\ read_size \in Int /\ i \in Int /\ i >= 1
  BY TailAssumption DEF TailTypeOK, read_size, Smaller
<1>1. f \in [S -> T]
  <2> SUFFICES ASSUME NEW k \in S PROVE k - pos \in T
    OBVIOUS
  <2>1. k \in (pos + i)..(pos + read_size - 1) /\ file[k] = "newline"
    BY DEF Within
  <2>2. pos + (k - pos) = k /\ k - pos \in 1..(read_size - 1) /\ k - pos >= i
    BY <1>0, <2>1
  <2> QED BY <2>1, <2>2 DEF Newlines
<1>2. \A x, y \in S : f[x] = f[y] => x = y
  <2> SUFFICES ASSUME NEW x \in S, NEW y \in S, x - pos = y - pos PROVE x = y
    OBVIOUS
  <2>1. x \in Int /\ y \in Int
    BY <1>0 DEF Within
  <2> QED BY <1>0, <2>1
<1>3. \A t \in T : \E x \in S : f[x] = t
  <2> SUFFICES ASSUME NEW t \in T PROVE pos + t \in S /\ (pos + t) - pos = t
    OBVIOUS
  <2>1. t \in 1..(read_size - 1) /\ file[pos + t] = "newline" /\ t >= i
    BY DEF Newlines
  <2> QED BY <1>0, <2>1 DEF Within
<1>4. ExistsBijection(S, T)
  <2>1. f \in Bijection(S, T)
    <3> HIDE DEF f, S, T
    <3> QED BY <1>1, <1>2, <1>3 DEF Bijection, Injection, Surjection, IsInjective
  <2> QED BY <2>1 DEF ExistsBijection
<1>5. IsFiniteSet(S)
  <2>1. pos + i \in Int /\ pos + read_size - 1 \in Int
    BY <1>0
  <2> QED BY <2>1, BytesFinite
<1> HIDE DEF S, T
<1>6. IsFiniteSet(T) /\ Cardinality(T) = Cardinality(S)
  BY <1>4, <1>5, FS_Bijection
<1> QED BY <1>6 DEF S, T

\* Counts of two neighbouring parts add up.
LEMMA Neighbours ==
    ASSUME TailTypeOK, NEW a \in Int, NEW b \in Int, a =< b, b =< file_size
    PROVE  Cardinality(From(a)) = Cardinality(Within(a, b - 1)) + Cardinality(From(b))
<1>0. file_size \in Nat
  BY DEF TailTypeOK
<1>1. From(a) = Within(a, b - 1) \union From(b)
  BY <1>0 DEF From, Within
<1>2. Within(a, b - 1) \cap From(b) = {}
  BY <1>0 DEF From, Within
<1>3. IsFiniteSet(Within(a, b - 1)) /\ IsFiniteSet(From(b))
  <2>1. From(b) = Within(b, file_size - 1)
    BY DEF From, Within
  <2>2. b - 1 \in Int /\ file_size - 1 \in Int
    BY <1>0
  <2> QED BY <2>1, <2>2, BytesFinite
<1>4. Cardinality(From(a)) = Cardinality(Within(a, b - 1)) + Cardinality(From(b)) - Cardinality({})
  BY <1>1, <1>2, <1>3, FS_Union
<1>5. Cardinality(Within(a, b - 1)) \in Nat /\ Cardinality(From(b)) \in Nat
  BY <1>3, FS_CardinalityType
<1> QED BY <1>4, <1>5, FS_EmptySet

\* Behind the newline with as many newlines from it on as the lines and one more,
\* the last lines begin.
LEMMA LastFound ==
    ASSUME TailTypeOK, NEW i \in AllNewlines, Cardinality(From(i)) = lines + 1
    PROVE  LastLines = 1 + i
<1>0. lines \in Nat /\ file_size \in Nat /\ i \in 0..(file_size - 1)
  BY DEF TailTypeOK, AllNewlines
<1>1. IsFiniteSet(AllNewlines)
  <2>1. AllNewlines = Within(0, file_size - 1) /\ 0 \in Int /\ file_size - 1 \in Int
    BY <1>0 DEF AllNewlines, Within
  <2> QED BY <2>1, BytesFinite
<1>2. From(i) \in SUBSET AllNewlines
  BY <1>0 DEF From, AllNewlines
<1>3. Cardinality(AllNewlines) >= lines + 1 /\ Cardinality(AllNewlines) \in Nat
  BY <1>0, <1>1, <1>2, FS_Subset, FS_CardinalityType
<1> DEFINE Above(k) == {j \in AllNewlines : j > k}
<1>4. \A k : Above(k) \in SUBSET AllNewlines /\ IsFiniteSet(Above(k)) /\ Cardinality(Above(k)) \in Nat
  <2> SUFFICES ASSUME NEW k
               PROVE  Above(k) \in SUBSET AllNewlines /\ IsFiniteSet(Above(k)) /\ Cardinality(Above(k)) \in Nat
    OBVIOUS
  <2>1. Above(k) \in SUBSET AllNewlines
    OBVIOUS
  <2> HIDE DEF Above
  <2> QED BY <1>1, <2>1, FS_Subset, FS_CardinalityType
<1>5. Cardinality(Above(i)) = lines
  <2>1. Above(i) = From(i) \ {i} /\ i \in From(i)
    BY <1>0 DEF From, AllNewlines
  <2>2. IsFiniteSet(From(i))
    BY <1>1, <1>2, FS_Subset
  <2> HIDE DEF Above
  <2>3. Cardinality(Above(i)) = Cardinality(From(i)) - 1
    BY <2>1, <2>2, FS_RemoveElement
  <2> QED BY <1>0, <2>3
<1>6. ASSUME NEW x \in AllNewlines, Cardinality(Above(x)) = lines PROVE x = i
  <2>0. x \in 0..(file_size - 1)
    BY DEF AllNewlines
  <2>1. CASE x < i
    <3>1. From(i) \in SUBSET Above(x)
      BY <1>0, <2>0, <2>1 DEF From, AllNewlines
    <3> HIDE DEF Above
    <3>2. Cardinality(From(i)) =< Cardinality(Above(x))
      BY <1>4, <3>1, FS_Subset
    <3> QED BY <1>0, <1>6, <3>2
  <2>2. CASE x > i
    <3>1. Above(x) \union {x} \in SUBSET Above(i) /\ x \notin Above(x)
      BY <1>0, <2>0, <2>2 DEF AllNewlines
    <3> HIDE DEF Above
    <3>2. Cardinality(Above(x) \union {x}) = lines + 1
      BY <1>4, <1>6, <3>1, FS_AddElement
    <3>3. Cardinality(Above(x) \union {x}) =< Cardinality(Above(i))
      BY <1>4, <3>1, FS_Subset
    <3> QED BY <1>0, <1>5, <3>2, <3>3
  <2> QED BY <1>0, <2>0, <2>1, <2>2
<1>7. (CHOOSE k \in AllNewlines : Cardinality(Above(k)) = lines) = i
  <2> HIDE DEF Above
  <2> QED BY <1>5, <1>6
<1>8. ~(Cardinality(AllNewlines) =< lines)
  BY <1>0, <1>3
<1>9. LastLines = 1 + CHOOSE k \in AllNewlines : Cardinality(Above(k)) = lines
  BY <1>8, Zenon DEF LastLines
<1> HIDE DEF Above
<1> QED BY <1>7, <1>9

\* Every step keeps the types.
LEMMA TailTypeStep == TailTypeOK /\ [TailNext]_tailVars => TailTypeOK'
<1> SUFFICES ASSUME TailTypeOK, [TailNext]_tailVars PROVE TailTypeOK'
  OBVIOUS
<1>0. /\ BUF_SIZE \in Nat \ {0} /\ MaxSize \in Nat /\ MaxLines \in Nat
      /\ file_size \in 0..MaxSize /\ lines \in 0..MaxLines /\ pos \in 0..file_size
      /\ seek_size \in 0..Smaller(BUF_SIZE, file_size) /\ line_count \in 0..lines
      /\ offset \in 0..TooFar /\ start \in 0..file_size /\ TooFar = MaxSize + 1
  BY TailAssumption DEF TailTypeOK, TooFar
<1>1. read_size \in Nat /\ read_size =< BUF_SIZE /\ read_size =< file_size - pos
  BY <1>0 DEF read_size, Smaller
<1>2. ASSUME UNCHANGED <<input, pos, seek_size, line_count, start, overlap>>, step' = "print",
             skipped' \in BOOLEAN, offset' \in 0..TooFar
      PROVE  TailTypeOK'
  BY <1>2 DEF TailTypeOK, input, TooFar
<1>3. CASE FoundLine
  <2>1. PICK i \in Newlines : offset' = Smaller(offset + read_size - i - 1, TooFar)
    BY <1>3 DEF FoundLine
  <2>2. i \in 1..(read_size - 1)
    BY DEF Newlines
  <2>3. offset' \in 0..TooFar
    BY <1>0, <1>1, <2>1, <2>2 DEF Smaller
  <2> QED BY <1>2, <1>3, <2>3 DEF FoundLine, TailTypeOK
<1>4. CASE WholeFile
  <2>1. offset' \in 0..TooFar
    BY <1>0, <1>4 DEF WholeFile
  <2>2. skipped' \in BOOLEAN
    BY <1>4 DEF WholeFile, TailTypeOK
  <2> QED BY <1>2, <1>4, <2>1, <2>2 DEF WholeFile
<1>5. CASE PreviousChunk
  <2>1. Cardinality(Newlines) \in Nat
    <3>1. Newlines \in SUBSET (1..(read_size - 1)) /\ 1 \in Int /\ read_size - 1 \in Int
      BY <1>1 DEF Newlines
    <3> QED BY <3>1, FS_Interval, FS_Subset, FS_CardinalityType
  <2>2. line_count' \in 0..lines
    BY <1>0, <1>5, <2>1 DEF PreviousChunk, Wanted, line_num
  <2>3. /\ seek_size' \in 0..Smaller(BUF_SIZE, file_size) /\ pos' \in 0..file_size
        /\ offset' \in 0..TooFar
    BY <1>0, <1>1, <1>5 DEF PreviousChunk, Smaller
  <2>4. skipped' \in BOOLEAN /\ overlap' \in BOOLEAN /\ UNCHANGED <<input, step, start>>
    BY <1>5 DEF PreviousChunk, TailTypeOK
  <2> QED BY <2>2, <2>3, <2>4 DEF TailTypeOK, input, TooFar
<1>6. CASE PrintTail
  BY <1>0, <1>6 DEF PrintTail, TailTypeOK, input, search, TooFar
<1>7. CASE UNCHANGED tailVars
  BY <1>7 DEF tailVars, TailTypeOK, TooFar
<1> QED BY <1>3, <1>4, <1>5, <1>6, <1>7 DEF TailNext

\* Every step keeps the count of what lies behind the chunk right.
LEMMA CountingStep == TailInv /\ [TailNext]_tailVars => Counting'
<1> SUFFICES ASSUME TailInv, [TailNext]_tailVars, step' = "read", ~skipped', ~overlap'
             PROVE  /\ seek_size' = Smaller(BUF_SIZE, file_size')
                    /\ pos' + seek_size' + offset' = file_size'
                    /\ line_count' = Cardinality(From(pos + seek_size)')
  BY DEF Counting
<1>0. /\ TailTypeOK
      /\ BUF_SIZE \in Nat \ {0} /\ MaxSize \in Nat
      /\ file_size \in 0..MaxSize /\ lines \in Nat /\ pos \in 0..file_size
      /\ seek_size \in Nat /\ line_count \in Nat /\ offset \in Nat /\ TooFar = MaxSize + 1
      /\ skipped \in BOOLEAN /\ overlap \in BOOLEAN
  BY TailAssumption DEF TailInv, TailTypeOK, TooFar, Smaller
<1>1. CASE PreviousChunk
  <2>1. ~skipped /\ ~overlap /\ step = "read" /\ file[pos] # "newline" /\ ~(seek_size' < BUF_SIZE)
    BY <1>0, <1>1 DEF PreviousChunk
  <2>2. /\ seek_size = Smaller(BUF_SIZE, file_size) /\ pos + seek_size + offset = file_size
        /\ line_count = Cardinality(From(pos + seek_size))
    BY <2>1 DEF TailInv, Counting
  <2>3. read_size = BUF_SIZE /\ seek_size = BUF_SIZE
    BY <1>0, <1>1, <2>2 DEF PreviousChunk, read_size, Smaller
  <2>a. line_count = Cardinality(From(pos + BUF_SIZE))
    BY <2>2, <2>3
  <2>4. seek_size' = BUF_SIZE /\ pos' = pos - BUF_SIZE /\ pos >= BUF_SIZE
    BY <1>0, <1>1, <2>1, <2>3 DEF PreviousChunk, Smaller
  <2>5. offset' = offset + BUF_SIZE
    BY <1>0, <1>1, <2>2, <2>3 DEF PreviousChunk, Smaller
  <2>6. file' = file /\ file_size' = file_size
    BY <1>1 DEF PreviousChunk, input
  <2>7. line_count' = Cardinality(From(pos))
    <3>1. Cardinality(From(pos)) = Cardinality(Within(pos, pos + BUF_SIZE - 1)) + Cardinality(From(pos + BUF_SIZE))
      BY <1>0, <2>2, <2>3, Neighbours
    <3>2. CASE BUF_SIZE = 1
      <4>1. Newlines = {} /\ Within(pos, pos + BUF_SIZE - 1) = {}
        BY <1>0, <2>1, <2>3, <3>2 DEF Newlines, Within
      <4>2. Cardinality(Newlines) = 0 /\ Cardinality(Within(pos, pos + BUF_SIZE - 1)) = 0
        BY <4>1, FS_EmptySet
      <4>3. line_count' = line_count
        BY <1>0, <1>1, <4>2 DEF PreviousChunk
      <4> QED BY <1>0, <2>a, <3>1, <4>2, <4>3
    <3>3. CASE BUF_SIZE # 1
      <4>1. Cardinality({j \in Newlines : j >= 1}) = Cardinality(Within(pos + 1, pos + read_size - 1))
        BY <1>0, <2>3, <3>3, Shifted
      <4>2. {j \in Newlines : j >= 1} = Newlines
        BY <1>0, <2>3 DEF Newlines
      <4>3. Within(pos + 1, pos + read_size - 1) = Within(pos, pos + BUF_SIZE - 1)
        BY <1>0, <2>1, <2>3 DEF Within
      <4>4. line_count' = line_count + Cardinality(Newlines)
        BY <1>1 DEF PreviousChunk
      <4>5. pos \in Int /\ pos + BUF_SIZE - 1 \in Int
        BY <1>0
      <4>6. Cardinality(Within(pos, pos + BUF_SIZE - 1)) \in Nat
        BY <4>5, BytesFinite
      <4>7. Cardinality(Newlines) = Cardinality(Within(pos, pos + BUF_SIZE - 1))
        BY <4>1, <4>2, <4>3
      <4> QED BY <1>0, <2>a, <3>1, <4>4, <4>6, <4>7
    <3> QED BY <3>2, <3>3
  <2>8. From(pos + seek_size)' = From(pos)
    <3>1. pos' + seek_size' = pos
      BY <1>0, <2>4
    <3> QED BY <2>6, <3>1 DEF From
  <2> QED BY <1>0, <2>2, <2>3, <2>4, <2>5, <2>6, <2>7, <2>8 DEF Smaller
<1>2. CASE FoundLine \/ WholeFile \/ PrintTail
  BY <1>2 DEF FoundLine, WholeFile, PrintTail
<1>3. CASE UNCHANGED tailVars
  BY <1>3 DEF tailVars, TailInv, Counting, From
<1> QED BY <1>1, <1>2, <1>3 DEF TailNext

\* The same file and argument give the same lines.
LEMMA SameInput == UNCHANGED input => LastLines' = LastLines /\ \A a : From(a)' = From(a)
  BY DEF input, LastLines, AllNewlines, From

\* Every step that goes to print has found the last lines.
LEMMA LocatedStep == TailInv /\ [TailNext]_tailVars => Located'
<1> SUFFICES ASSUME TailInv, [TailNext]_tailVars, step' = "print", ~skipped', ~overlap'
             PROVE  offset' =< file_size' /\ file_size' - offset' = LastLines'
  BY DEF Located
<1>0. /\ TailTypeOK
      /\ BUF_SIZE \in Nat \ {0} /\ MaxSize \in Nat
      /\ file_size \in 0..MaxSize /\ lines \in Nat /\ pos \in 0..file_size
      /\ seek_size \in Nat /\ line_count \in 0..lines /\ offset \in Nat /\ TooFar = MaxSize + 1
      /\ skipped \in BOOLEAN /\ overlap \in BOOLEAN
  BY TailAssumption DEF TailInv, TailTypeOK, TooFar, Smaller
<1>a. ASSUME step = "read", ~skipped, ~overlap
      PROVE  /\ seek_size = Smaller(BUF_SIZE, file_size) /\ pos + seek_size + offset = file_size
             /\ line_count = Cardinality(From(pos + seek_size)) /\ read_size = seek_size
  <2>1. /\ seek_size = Smaller(BUF_SIZE, file_size) /\ pos + seek_size + offset = file_size
        /\ line_count = Cardinality(From(pos + seek_size))
    BY <1>a DEF TailInv, Counting
  <2>2. read_size = seek_size
    BY <1>0, <2>1 DEF read_size, Smaller
  <2> QED BY <2>1, <2>2
<1>1. CASE FoundLine
  <2>1. PICK i \in Newlines : /\ Cardinality({j \in Newlines : j >= i}) = Wanted
                              /\ offset' = Smaller(offset + read_size - i - 1, TooFar)
    BY <1>1 DEF FoundLine
  <2>2. UNCHANGED input /\ ~skipped /\ ~overlap /\ step = "read"
    BY <1>1 DEF FoundLine
  <2>3. i \in 1..(read_size - 1) /\ file[pos + i] = "newline"
    BY <2>1 DEF Newlines
  <2>4. /\ seek_size = Smaller(BUF_SIZE, file_size) /\ pos + seek_size + offset = file_size
        /\ line_count = Cardinality(From(pos + seek_size)) /\ read_size = seek_size
    BY <1>a, <2>2
  <2>5. Cardinality(Within(pos + i, pos + read_size - 1)) = lines + 1 - line_count
    <3>1. i \in 1..read_size
      BY <1>0, <2>3, <2>4
    <3>2. Cardinality({j \in Newlines : j >= i}) = Cardinality(Within(pos + i, pos + read_size - 1))
      BY <1>0, <3>1, Shifted
    <3>3. Wanted = lines + 1 - line_count
      BY <1>0 DEF Wanted, line_num
    <3> QED BY <2>1, <3>2, <3>3
  <2>6. Cardinality(From(pos + i)) = lines + 1
    <3>1. /\ pos + i \in Int /\ pos + read_size \in Int /\ pos + i =< pos + read_size
          /\ pos + read_size =< file_size
      BY <1>0, <2>3, <2>4
    <3>2. Cardinality(From(pos + i))
            = Cardinality(Within(pos + i, pos + read_size - 1)) + Cardinality(From(pos + read_size))
      <4> DEFINE a == pos + i
                 b == pos + read_size
      <4>1. TailTypeOK /\ a \in Int /\ b \in Int /\ a =< b /\ b =< file_size
        BY <1>0, <3>1
      <4> HIDE DEF a, b
      <4>2. Cardinality(From(a)) = Cardinality(Within(a, b - 1)) + Cardinality(From(b))
        BY <4>1, Neighbours
      <4>3. b - 1 = pos + read_size - 1
        BY <1>0, <2>4 DEF b
      <4> QED BY <4>2, <4>3 DEF a, b
    <3>3. Cardinality(From(pos + read_size)) = line_count
      BY <2>4
    <3> QED BY <1>0, <2>5, <3>2, <3>3
  <2>7. pos + i \in AllNewlines
    BY <1>0, <2>3, <2>4 DEF AllNewlines
  <2>8. LastLines = 1 + (pos + i)
    BY <1>0, <2>6, <2>7, LastFound
  <2>9. offset' = offset + read_size - i - 1
    BY <1>0, <2>1, <2>3, <2>4 DEF Smaller
  <2>10. LastLines' = LastLines /\ file_size' = file_size
    BY <2>2, SameInput DEF input
  <2> QED BY <1>0, <2>3, <2>4, <2>8, <2>9, <2>10
<1>2. CASE WholeFile
  <2>1. /\ UNCHANGED input /\ ~skipped /\ ~overlap /\ step = "read" /\ offset' = file_size
        /\ Cardinality(Newlines) < Wanted /\ read_size < BUF_SIZE
        /\ (read_size > 0 => file[pos] # "newline")
    BY <1>0, <1>2 DEF WholeFile
  <2>2. /\ seek_size = Smaller(BUF_SIZE, file_size) /\ pos + seek_size + offset = file_size
        /\ line_count = Cardinality(From(pos + seek_size)) /\ read_size = seek_size
    BY <1>a, <2>1
  <2>3. pos = 0 /\ read_size = file_size
    BY <1>0, <2>1, <2>2 DEF Smaller
  <2>4. AllNewlines = Newlines
    BY <1>0, <2>1, <2>3 DEF AllNewlines, Newlines
  <2>5. From(pos + seek_size) = {}
    BY <1>0, <2>2, <2>3 DEF From
  <2>6. line_count = 0
    BY <2>2, <2>5, FS_EmptySet
  <2>7. Cardinality(AllNewlines) =< lines
    <3>1. Newlines \in SUBSET (1..(read_size - 1)) /\ 1 \in Int /\ read_size - 1 \in Int
      BY <1>0, <2>3 DEF Newlines
    <3>2. Cardinality(Newlines) \in Nat
      BY <3>1, FS_Interval, FS_Subset, FS_CardinalityType
    <3> QED BY <1>0, <2>1, <2>4, <2>6, <3>2 DEF Wanted, line_num
  <2>8. LastLines = 0
    BY <2>7 DEF LastLines
  <2>9. LastLines' = LastLines /\ file_size' = file_size
    BY <2>1, SameInput DEF input
  <2> QED BY <1>0, <2>1, <2>8, <2>9
<1>3. CASE PreviousChunk \/ PrintTail
  BY <1>3 DEF PreviousChunk, PrintTail
<1>4. CASE UNCHANGED tailVars
  <2>1. UNCHANGED <<input, offset, step, skipped, overlap>>
    BY <1>4 DEF tailVars, input
  <2>2. LastLines' = LastLines /\ file_size' = file_size
    BY <2>1, SameInput DEF input
  <2> QED BY <2>1, <2>2 DEF TailInv, Located
<1> QED BY <1>1, <1>2, <1>3, <1>4 DEF TailNext

\* The print starts where the lines were found.
LEMMA ShownStep == TailInv /\ [TailNext]_tailVars => Shown'
<1> SUFFICES ASSUME TailInv, [TailNext]_tailVars, step' \in {"done", "error"}, ~skipped', ~overlap'
             PROVE  step' = "done" /\ start' = LastLines'
  BY DEF Shown
<1>1. CASE PrintTail
  <2>1. UNCHANGED input /\ step = "print" /\ ~skipped /\ ~overlap
    BY <1>1 DEF PrintTail
  <2>2. offset =< file_size /\ file_size - offset = LastLines
    BY <2>1 DEF TailInv, Located
  <2> QED BY <1>1, <2>1, <2>2, SameInput DEF PrintTail
<1>2. CASE FoundLine \/ WholeFile \/ PreviousChunk
  BY <1>2 DEF FoundLine, WholeFile, PreviousChunk, TailInv, TailTypeOK
<1>3. CASE UNCHANGED tailVars
  <2>1. UNCHANGED <<input, start, step, skipped, overlap>>
    BY <1>3 DEF tailVars, input
  <2> QED BY <2>1, SameInput DEF TailInv, Shown
<1> QED BY <1>1, <1>2, <1>3 DEF TailNext

LEMMA TailInitInv == TailInit => TailInv
<1> SUFFICES ASSUME TailInit PROVE TailInv
  OBVIOUS
<1>1. TailTypeOK
  <2>1. /\ BUF_SIZE \in Nat \ {0} /\ MaxSize \in Nat /\ file_size \in 0..MaxSize
        /\ pos = file_size - Smaller(BUF_SIZE, file_size) /\ seek_size = Smaller(BUF_SIZE, file_size)
        /\ lines \in 0..MaxLines /\ line_count = 0 /\ offset = 0 /\ start = 0
    BY TailAssumption DEF TailInit
  <2>2. pos \in 0..file_size /\ seek_size \in 0..Smaller(BUF_SIZE, file_size) /\ start \in 0..file_size
    BY <2>1 DEF Smaller
  <2>3. line_count \in 0..lines /\ offset \in 0..TooFar
    BY <2>1, TailAssumption DEF TooFar
  <2>4. /\ file \in [0..(file_size - 1) -> {"newline", "other"}]
        /\ step \in {"read", "print", "done", "error"} /\ skipped \in BOOLEAN /\ overlap \in BOOLEAN
    BY DEF TailInit
  <2> QED BY <2>1, <2>2, <2>3, <2>4 DEF TailTypeOK
<1>2. Counting
  <2>0. file_size \in Nat /\ BUF_SIZE \in Nat
    BY TailAssumption DEF TailInit
  <2>1. seek_size = Smaller(BUF_SIZE, file_size) /\ pos = file_size - seek_size /\ offset = 0 /\ line_count = 0
    BY DEF TailInit
  <2>2. seek_size \in Nat
    BY <2>0, <2>1 DEF Smaller
  <2>3. From(pos + seek_size) = {}
    BY <2>0, <2>1, <2>2 DEF From
  <2>4. pos + seek_size + offset = file_size
    BY <2>0, <2>1, <2>2
  <2> QED BY <2>1, <2>3, <2>4, FS_EmptySet DEF Counting
<1>3. Located /\ Shown
  BY DEF TailInit, Located, Shown
<1> QED BY <1>1, <1>2, <1>3 DEF TailInv

\* Every step of tail keeps the invariant.
LEMMA TailStep == TailInv /\ [TailNext]_tailVars => TailInv'
  BY TailTypeStep, CountingStep, LocatedStep, ShownStep DEF TailInv

\* hw2_tail prints the last lines, for any file, buffer and number of lines, as
\* long as no newline begins a chunk and no chunk reaches into the next.
THEOREM TailRight == TailSpec => []RightWithoutOverlap
<1>1. TailInv => RightWithoutOverlap
  BY DEF TailInv, Shown, RightWithoutOverlap
<1> QED BY <1>1, TailInitInv, TailStep, PTL DEF TailSpec
-----------------------------------------------------------------------------
(* The scan of /proc *)

\* The program deals with an entry; it has opened the status file of its process.
UnderWay == next \in {"fopen", "fgets", "write", "open", "read", "opendir", "readdir fd",
                      "readlink", "print"}
Looking == next \in {"fgets", "write", "read", "opendir", "readdir fd", "readlink", "print"}

\* The entries that the program is done with.
Past == {e \in Entries : e =< last /\ e \notin rest /\ (UnderWay => e # entry)}

Node == [entry : Entries, pid : Pids, ppid : 0..MaxPid]

ScanTypes ==
    /\ ScanTypeOK
    /\ births \in Nat /\ ended \subseteq Pids
    /\ closed \in BOOLEAN /\ reused \in BOOLEAN /\ full \in BOOLEAN
    /\ last \in -2..MaxPid /\ opened \in 0..(births + 1)
    /\ \A p \in Pids : born[p] =< births + 1
    /\ nofile \in Limits /\ status_fd \in {-1} \union Fds
    /\ list_root \in Seq(Node)

\* Each program has its own calls.
ScanCalls ==
    /\ lister \in {"12_1", "12_2", "12_3"}
    /\ next \in {"readdir", "fopen", "fgets", "write", "open", "read", "build_pstree", "opendir",
                 "readdir fd", "readlink", "print", "closedir", "done", "failed"}
    /\ next \in {"fopen", "fgets", "write"} => lister = "12_1"
    /\ next \in {"read", "build_pstree"} => lister = "12_2"
    /\ next \in {"opendir", "readdir fd", "readlink", "print"} => lister = "12_3"
    /\ next = "open" => lister # "12_1"
    /\ next = "closedir" => lister # "12_2"

\* init and the program stay, and every other process has a parent.
Kernel ==
    /\ Lives(1) /\ Lives(Me) /\ ppid[1] = 0
    /\ \A p \in Pids \ {1} : Lives(p) => ppid[p] \in Pids /\ Lives(ppid[p])

\* When the directory has been read to its end, nothing is left that stays.
Reading ==
    /\ \A e \in rest : e =< last
    /\ UnderWay => entry =< last /\ entry \notin rest
    /\ next \in {"build_pstree", "closedir"} => rest = {}
    /\ next \in {"build_pstree", "closedir"} /\ fds[3] = "proc" =>
         \A e \in Entries : Stays(e) => e =< last

\* The process whose status file was opened ends, or is still there.
OpenedRight ==
    Looking =>
        /\ opened # 0 /\ (Gone => ended # {})
        /\ Stays(entry) => opened = 1

\* The standard descriptors and that of /proc stay open but for what 12_1 closes by
\* mistake; that number is open again at the next status file if it is a low one.
\* 12_3 closes what it opens.
Table ==
    /\ \A f \in {0, 1, 2, 3} :
         ~(lister = "12_1" /\ status_fd = f) => fds[f] = IF f = 3 THEN "proc" ELSE "std"
    /\ lister = "12_1" /\ status_fd \in {0, 2} /\ next \in {"fgets", "write"} =>
         fds[status_fd] # "free"
    /\ lister = "12_3" =>
         /\ nofile = Max(Limits)
         /\ \A f \in Fds : f > 3 => fds[f] \in {"free", "status", "fd"}
         /\ next \in {"readdir", "open", "closedir"} => \A f \in Fds : f > 3 => fds[f] = "free"
         /\ next = "opendir" => \A f \in Fds : f > 4 => fds[f] = "free"

\* 12_1 has shown the user's processes among those it is done with.
UserShown ==
    lister = "12_1" =>
        /\ \A e \in shown : Stays(e) => uid[Target(e)] = "user"
        /\ next = "write" /\ Stays(entry) => uid[Target(entry)] = "user"
        /\ ~full /\ next # "failed" =>
             \A e \in Past : Stays(e) /\ uid[Target(e)] = "user" => e \in shown

\* 12_3 has shown the processes with the file among those it is done with.
FileShown ==
    lister = "12_3" =>
        /\ next \in {"readlink", "print"} =>
             \A d \in left : ~Gone /\ d \notin files[Target(entry)] => closed
        /\ next = "readlink" /\ Stays(entry) /\ "the file" \in files[Target(entry)] =>
             "the file" \in left \/ entry \in shown
        /\ next # "failed" =>
             \A e \in Past : Stays(e) /\ "the file" \in files[Target(e)] => e \in shown

ListedEntries == {list_root[i].entry : i \in DOMAIN list_root}

\* 12_2 has a node for each process that stays, and no two for an entry.
Nodes ==
    /\ \A i, j \in DOMAIN list_root : list_root[i].entry = list_root[j].entry => i = j
    /\ ListedEntries \subseteq Past
    /\ lister = "12_2" /\ next # "failed" => \A e \in Past : Stays(e) => e \in ListedEntries

Known(p) == Lives(p) \/ p \in ended

\* Parents come before their children, at whatever moment they were read.
Ranks(rank) ==
    /\ rank[1] = 0
    /\ \A p \in Pids \ {1} : Lives(p) => rank[ppid[p]] < rank[p]
    /\ \A i \in DOMAIN list_root :
         /\ Known(list_root[i].pid)
         /\ list_root[i].ppid # 0 =>
              /\ list_root[i].ppid \in Pids /\ Known(list_root[i].ppid)
              /\ rank[list_root[i].ppid] < rank[list_root[i].pid]

Ranked == ~reused => \E rank \in [Pids -> Nat] : Ranks(rank)

ScanInv ==
    /\ ScanTypes /\ ScanCalls /\ Kernel /\ Reading /\ OpenedRight /\ Table
    /\ UserShown /\ FileShown /\ Nodes /\ Ranked /\ ShowsAll /\ FailsExplained
-----------------------------------------------------------------------------
\* Constants.
LEMMA ScanConstants ==
    /\ MaxPid \in Nat /\ Me \in Pids /\ 1 \in Pids /\ Me # 1 /\ Block \in Nat \ {0}
    /\ Entries \subseteq Int /\ Pids \subseteq Nat
    /\ Max(Limits) \in Limits /\ Max(Limits) \in Nat /\ Max(Limits) >= 6
    /\ \A m \in Limits : m \in Nat /\ m >= 6 /\ m =< Max(Limits)
    /\ Fds = 0..(Max(Limits) - 1) /\ Fds \subseteq Nat
    /\ 0 \in Fds /\ 1 \in Fds /\ 2 \in Fds /\ 3 \in Fds /\ 4 \in Fds /\ 5 \in Fds
    /\ \A e \in Entries : Target(e) \in Pids
<1>1. MaxPid \in Nat /\ Me \in 2..MaxPid /\ Block \in Nat \ {0}
  BY ScanAssumption
<1>2. Max(Limits) \in Limits /\ \A m \in Limits : Max(Limits) >= m
  <2>1. \E n \in Limits : \A m \in Limits : n >= m
    BY ScanAssumption
  <2> QED BY <2>1 DEF Max
<1>3. \A m \in Limits : m \in Nat /\ m >= 6
  BY ScanAssumption
<1>4. Me \in Pids /\ 1 \in Pids /\ Me # 1 /\ Entries \subseteq Int /\ Pids \subseteq Nat
  BY <1>1 DEF Pids, Entries
<1>5. \A e \in Entries : Target(e) \in Pids
  BY <1>1 DEF Entries, Pids, Target
<1> DEFINE M == Max(Limits)
<1>6. M \in Nat /\ M >= 6 /\ Fds = 0..(M - 1) /\ M \in Limits /\ \A m \in Limits : m \in Nat /\ M >= m /\ m >= 6
  BY <1>2, <1>3 DEF Fds
<1> HIDE DEF M
<1>7. /\ Fds \subseteq Nat /\ 0 \in Fds /\ 1 \in Fds /\ 2 \in Fds /\ 3 \in Fds /\ 4 \in Fds /\ 5 \in Fds
      /\ \A m \in Limits : m =< M
  BY <1>6
<1> QED BY <1>1, <1>4, <1>5, <1>6, <1>7 DEF M

\* First and last of some entries.
LEMMA FirstLast ==
    ASSUME NEW S \in SUBSET Entries, S # {}
    PROVE  /\ Min(S) \in S /\ \A e \in S : Min(S) =< e
           /\ Max(S) \in S /\ \A e \in S : Max(S) >= e
<1>0. MaxPid \in Nat /\ \A e \in S : e \in Int /\ e >= -1 /\ e =< MaxPid
  BY ScanConstants DEF Entries
<1>1. Min(S) \in S /\ \A e \in S : Min(S) =< e
  <2> DEFINE T == {e + 1 : e \in S}
  <2>1. T \in SUBSET Nat /\ T # {}
    BY <1>0
  <2>2. PICK n \in T : \A m \in T : n =< m
    BY <2>1, LeastNumber
  <2>3. PICK x \in S : n = x + 1
    BY <2>2
  <2>4. \A y \in S : x =< y
    BY <1>0, <2>2, <2>3
  <2>5. \E z \in S : \A y \in S : z =< y
    BY <2>4
  <2> QED BY <2>5 DEF Min
<1>2. Max(S) \in S /\ \A e \in S : Max(S) >= e
  <2> DEFINE T == {MaxPid - e : e \in S}
  <2>1. T \in SUBSET Nat /\ T # {}
    BY <1>0
  <2>2. PICK n \in T : \A m \in T : n =< m
    BY <2>1, LeastNumber
  <2>3. PICK x \in S : n = MaxPid - x
    BY <2>2
  <2>4. ASSUME NEW y \in S PROVE x >= y
    <3>1. n =< MaxPid - y
      BY <2>2
    <3> QED BY <1>0, <2>3, <3>1
  <2>5. \E z \in S : \A y \in S : z >= y
    BY <2>4
  <2> QED BY <2>5 DEF Max
<1> QED BY <1>1, <1>2

\* The lowest free descriptor is taken.
LEMMA Taken ==
    ASSUME ScanTypes, NEW use \in {"status", "fd"}, TakeFd(use)
    PROVE  /\ \E f \in Fds :
                /\ f < nofile /\ fds[f] = "free" /\ fds' = [fds EXCEPT ![f] = use]
                /\ \A g \in Fds : g < nofile /\ fds[g] = "free" => f =< g
           /\ fds' \in [Fds -> {"free", "std", "proc", "status", "fd"}]
<1>1. FreeFds \in SUBSET Nat /\ FreeFds # {}
  BY ScanConstants DEF TakeFd, FreeFds
<1>2. PICK n \in FreeFds : \A m \in FreeFds : n =< m
  BY <1>1, LeastNumber
<1>3. Min(FreeFds) \in FreeFds /\ \A m \in FreeFds : Min(FreeFds) =< m
  BY <1>2 DEF Min
<1> DEFINE f == Min(FreeFds)
<1>4. fds' = [fds EXCEPT ![f] = use] /\ f \in FreeFds /\ \A m \in FreeFds : f =< m
  BY <1>3 DEF TakeFd
<1> HIDE DEF f
<1>5. fds \in [Fds -> {"free", "std", "proc", "status", "fd"}]
  BY DEF ScanTypes, ScanTypeOK
<1>6. f \in Fds /\ f < nofile /\ fds[f] = "free" /\ \A g \in Fds : g < nofile /\ fds[g] = "free" => f =< g
  BY <1>4 DEF FreeFds
<1> QED BY <1>4, <1>5, <1>6

\* What other processes do to what the program looks at.
Others == \E p \in Pids : ForkProcess(p) \/ EndProcess(p) \/ CloseFile(p)

LEMMA OthersDo ==
    ASSUME ScanTypes, Others
    PROVE  /\ Scanning
           /\ UNCHANGED <<lister, next, directory, opened, left, descriptors, list_root, shown>>
           /\ born' \in [Pids -> 0..(MaxForks + 1)] /\ ppid' \in [Pids -> 0..MaxPid]
           /\ uid' \in [Pids -> Uids] /\ files' \in [Pids -> SUBSET Descriptors]
           /\ births' \in Nat /\ births =< births' /\ ended \subseteq ended' /\ ended' \subseteq Pids
           /\ closed' \in BOOLEAN /\ (closed => closed') /\ reused' \in BOOLEAN /\ (reused => reused')
           /\ \A p \in Pids : born'[p] =< births' + 1
           /\ \A p \in Pids : born'[p] = 1 =>
                born[p] = 1 /\ uid'[p] = uid[p] /\ files'[p] \subseteq files[p]
           /\ \A p \in Pids : born[p] # 0 /\ born'[p] # born[p] => p \in ended'
           /\ \A p \in Pids : born'[p] = opened /\ opened # 0 =>
                born[p] = opened /\ (files'[p] = files[p] \/ closed')
<1>0. /\ born \in [Pids -> 0..(MaxForks + 1)] /\ ppid \in [Pids -> 0..MaxPid]
      /\ uid \in [Pids -> Uids] /\ files \in [Pids -> SUBSET Descriptors]
      /\ births \in Nat /\ ended \subseteq Pids
      /\ closed \in BOOLEAN /\ reused \in BOOLEAN
      /\ opened \in 0..(births + 1) /\ \A p \in Pids : born[p] =< births + 1
  BY DEF ScanTypes, ScanTypeOK
<1>c. MaxPid \in Nat /\ MaxForks \in Nat /\ Pids \subseteq Nat /\ 1 \in 0..MaxPid /\ Pids \subseteq 0..MaxPid
  BY ScanAssumption, ScanConstants DEF Pids
<1>1. ASSUME NEW p \in Pids, ForkProcess(p)
      PROVE  /\ Scanning
             /\ UNCHANGED <<lister, next, directory, opened, left, descriptors, list_root, shown>>
             /\ born' \in [Pids -> 0..(MaxForks + 1)] /\ ppid' \in [Pids -> 0..MaxPid]
             /\ uid' \in [Pids -> Uids] /\ files' \in [Pids -> SUBSET Descriptors]
             /\ births' \in Nat /\ births =< births' /\ ended' = ended /\ closed' = closed
             /\ reused' \in BOOLEAN /\ (reused => reused')
             /\ \A r \in Pids : born'[r] =< births' + 1
             /\ \E q \in Pids : /\ born[q] = 0 /\ born'[q] = births + 2
                                /\ \A r \in Pids : r # q => born'[r] = born[r] /\ uid'[r] = uid[r] /\ files'[r] = files[r]
  <2>1. /\ Scanning /\ births < MaxForks /\ births' = births + 1 /\ ended' = ended /\ closed' = closed
        /\ UNCHANGED <<lister, next, directory, opened, left, descriptors, list_root, shown>>
    BY <1>1 DEF ForkProcess
  <2>2. PICK q \in Pids :
          /\ ~Lives(q)
          /\ born' = [born EXCEPT ![q] = births + 2]
          /\ ppid' = [ppid EXCEPT ![q] = p]
          /\ uid' = [uid EXCEPT ![q] = uid[p]] /\ files' = [files EXCEPT ![q] = files[p]]
          /\ reused' = (reused \/ q \in ended)
    BY <1>1 DEF ForkProcess
  <2>3. births + 2 \in 0..(MaxForks + 1)
    BY <1>0, <1>c, <2>1
  <2>4. born' \in [Pids -> 0..(MaxForks + 1)] /\ ppid' \in [Pids -> 0..MaxPid]
    BY <1>0, <1>c, <2>2, <2>3
  <2>5. uid' \in [Pids -> Uids] /\ files' \in [Pids -> SUBSET Descriptors]
    BY <1>0, <2>2
  <2>6. \A r \in Pids : born'[r] =< births' + 1
    BY <1>0, <2>1, <2>2
  <2>7. /\ born[q] = 0 /\ born'[q] = births + 2
        /\ \A r \in Pids : r # q => born'[r] = born[r] /\ uid'[r] = uid[r] /\ files'[r] = files[r]
    BY <1>0, <2>2 DEF Lives
  <2>8. reused' \in BOOLEAN /\ (reused => reused')
    BY <1>0, <2>2
  <2>9. births' \in Nat /\ births =< births'
    BY <1>0, <2>1
  <2> QED BY <2>1, <2>4, <2>5, <2>6, <2>7, <2>8, <2>9
<1>2. ASSUME NEW p \in Pids, EndProcess(p)
      PROVE  /\ Scanning
             /\ UNCHANGED <<lister, next, directory, opened, left, descriptors, list_root, shown>>
             /\ born' \in [Pids -> 0..(MaxForks + 1)] /\ ppid' \in [Pids -> 0..MaxPid]
             /\ uid' \in [Pids -> Uids] /\ files' \in [Pids -> SUBSET Descriptors]
             /\ births' = births /\ ended' = ended \union {p} /\ UNCHANGED <<closed, reused>>
             /\ born'[p] = 0
             /\ \A r \in Pids : r # p => born'[r] = born[r] /\ uid'[r] = uid[r] /\ files'[r] = files[r]
  <2>1. /\ Scanning /\ births' = births /\ ended' = ended \union {p} /\ UNCHANGED <<closed, reused>>
        /\ UNCHANGED <<lister, next, directory, opened, left, descriptors, list_root, shown>>
        /\ born' = [born EXCEPT ![p] = 0] /\ files' = [files EXCEPT ![p] = {}]
        /\ ppid' = [q \in Pids |-> IF ppid[q] = p \/ q = p THEN 1 ELSE ppid[q]]
        /\ uid' = [uid EXCEPT ![p] = "root"]
    BY <1>2 DEF EndProcess
  <2>2. born' \in [Pids -> 0..(MaxForks + 1)] /\ ppid' \in [Pids -> 0..MaxPid]
    <3>1. 0 \in 0..(MaxForks + 1)
      BY <1>c
    <3> QED BY <1>0, <1>c, <2>1, <3>1
  <2>3. uid' \in [Pids -> Uids] /\ files' \in [Pids -> SUBSET Descriptors]
    BY <1>0, <2>1 DEF Uids
  <2>4. /\ born'[p] = 0
        /\ \A r \in Pids : r # p => born'[r] = born[r] /\ uid'[r] = uid[r] /\ files'[r] = files[r]
    BY <1>0, <2>1
  <2> QED BY <2>1, <2>2, <2>3, <2>4
<1>3. ASSUME NEW p \in Pids, CloseFile(p)
      PROVE  /\ Scanning
             /\ UNCHANGED <<lister, next, directory, opened, left, descriptors, list_root, shown>>
             /\ UNCHANGED <<born, ppid, uid, births, ended, reused>> /\ closed'
             /\ closed' \in BOOLEAN
             /\ files' \in [Pids -> SUBSET Descriptors] /\ \A r \in Pids : files'[r] \subseteq files[r]
  BY <1>0, <1>3 DEF CloseFile
<1>4. CASE \E p \in Pids : ForkProcess(p)
  <2>1. PICK p \in Pids : ForkProcess(p)
    BY <1>4
  <2>2. PICK q \in Pids : /\ born[q] = 0 /\ born'[q] = births + 2
                          /\ \A r \in Pids : r # q => born'[r] = born[r] /\ uid'[r] = uid[r] /\ files'[r] = files[r]
    BY <1>1, <2>1
  <2>3. births \in Nat /\ births + 2 # 1 /\ births + 2 # opened
    BY <1>0
  <2>4. /\ \A r \in Pids : born'[r] = 1 => born[r] = 1 /\ uid'[r] = uid[r] /\ files'[r] \subseteq files[r]
        /\ \A r \in Pids : born[r] # 0 /\ born'[r] # born[r] => r \in ended'
        /\ \A r \in Pids : born'[r] = opened /\ opened # 0 =>
             born[r] = opened /\ (files'[r] = files[r] \/ closed')
    BY <2>2, <2>3
  <2> QED BY <1>0, <1>1, <2>1, <2>4
<1>5. CASE \E p \in Pids : EndProcess(p)
  <2>1. PICK p \in Pids : EndProcess(p)
    BY <1>5
  <2>2. /\ \A r \in Pids : born'[r] = 1 => born[r] = 1 /\ uid'[r] = uid[r] /\ files'[r] \subseteq files[r]
        /\ \A r \in Pids : born[r] # 0 /\ born'[r] # born[r] => r \in ended'
        /\ \A r \in Pids : born'[r] = opened /\ opened # 0 =>
             born[r] = opened /\ (files'[r] = files[r] \/ closed')
    BY <1>2, <2>1
  <2>3. \A r \in Pids : born'[r] =< births' + 1
    BY <1>0, <1>2, <2>1
  <2> QED BY <1>0, <1>2, <2>1, <2>2, <2>3
<1>6. CASE \E p \in Pids : CloseFile(p)
  BY <1>0, <1>3, <1>6
<1> QED BY <1>4, <1>5, <1>6 DEF Others

\* A step of the program leaves the other processes alone.
Own ==
    \/ Getdents \/ EndOfDir \/ Readdir \/ Closedir \/ Fopen \/ Fgets \/ WriteAndClose
    \/ OpenStatus \/ ReadStatus \/ BuildAndPrint
    \/ OpendirFd \/ ReaddirFd \/ Readlink \/ ReadAndPrint \/ CloseBoth

LEMMA OwnDoes ==
    ASSUME Own
    PROVE  /\ UNCHANGED <<lister, processes, nofile, status_fd>>
           /\ UNCHANGED <<born, ppid, uid, files, births, ended, closed, reused>>
           /\ \A e : Stays(e)' = Stays(e)
<1>1. UNCHANGED <<lister, processes, nofile, status_fd>>
  BY DEF Own, Getdents, EndOfDir, Readdir, Closedir, Fopen, Fgets, WriteAndClose, OpenStatus,
     ReadStatus, BuildAndPrint, OpendirFd, ReaddirFd, Readlink, ReadAndPrint, CloseBoth, descriptors
<1>2. UNCHANGED <<born, ppid, uid, files, births, ended, closed, reused>>
  BY <1>1 DEF processes
<1> QED BY <1>1, <1>2 DEF Stays

\* A block of the directory holds all that there is up to its last entry.
LEMMA Blocks ==
    ASSUME ScanTypes, Getdents
    PROVE  /\ last' \in Entries /\ last < last' /\ rest = {}
           /\ rest' \subseteq Entries /\ \A e \in rest' : e > last /\ e =< last'
           /\ \A e \in Entries : e > last /\ e =< last' /\ Lives(Target(e)) => e \in rest'
<1>0. /\ rest = {} /\ ToCome # {} /\ ToCome \in SUBSET Entries /\ last \in Int
      /\ rest' = {e \in ToCome : Cardinality({x \in ToCome : x < e}) < Block}
      /\ last' = Max(rest') /\ Block \in Nat \ {0} /\ Entries \subseteq Int
  BY ScanConstants DEF Getdents, ToCome, ScanTypes
<1>1. IsFiniteSet(ToCome)
  <2>1. IsFiniteSet(-1..MaxPid)
    BY ScanConstants, FS_Interval
  <2> QED BY <1>0, <2>1, FS_Subset DEF Entries
<1> DEFINE Before(e) == {x \in ToCome : x < e}
<1>2. \A e : IsFiniteSet(Before(e)) /\ Cardinality(Before(e)) \in Nat
  <2> SUFFICES ASSUME NEW e PROVE IsFiniteSet(Before(e)) /\ Cardinality(Before(e)) \in Nat
    OBVIOUS
  <2>1. Before(e) \in SUBSET ToCome
    OBVIOUS
  <2> HIDE DEF Before
  <2> QED BY <1>1, <2>1, FS_Subset, FS_CardinalityType
<1>3. rest' # {}
  <2> DEFINE m == Min(ToCome)
  <2>1. m \in ToCome /\ \A e \in ToCome : m =< e
    BY <1>0, FirstLast
  <2> HIDE DEF m
  <2>2. Before(m) = {}
    <3> SUFFICES ASSUME NEW x \in ToCome, x < m PROVE FALSE
      OBVIOUS
    <3>1. x \in Int /\ m \in Int /\ m =< x
      BY <1>0, <2>1
    <3> QED BY <3>1
  <2>3. Cardinality(Before(m)) = 0
    BY <2>2, FS_EmptySet
  <2>4. Cardinality(Before(m)) < Block
    BY <1>0, <2>3
  <2> QED BY <1>0, <2>1, <2>4
<1>4. rest' \in SUBSET Entries
  BY <1>0
<1>5. last' \in rest' /\ \A e \in rest' : last' >= e
  BY <1>0, <1>3, <1>4, FirstLast
<1>6. \A e \in ToCome : e > last
  BY DEF ToCome
<1>7. ASSUME NEW e \in Entries, e > last, e =< last', Lives(Target(e)) PROVE e \in rest'
  <2>1. e \in ToCome
    BY <1>7 DEF ToCome
  <2>2. Before(e) \in SUBSET Before(last')
    <3> SUFFICES ASSUME NEW x \in ToCome, x < e PROVE x < last'
      OBVIOUS
    <3>1. x \in Int /\ e \in Int /\ last' \in Int
      BY <1>0, <1>5, <1>7
    <3> QED BY <1>7, <3>1
  <2>3. Cardinality(Before(last')) < Block
    BY <1>0, <1>5
  <2> HIDE DEF Before
  <2>4. Cardinality(Before(e)) =< Cardinality(Before(last'))
    BY <1>2, <2>2, FS_Subset
  <2>5. Cardinality(Before(e)) < Block
    BY <1>0, <1>2, <2>3, <2>4
  <2> QED BY <1>0, <2>1, <2>5 DEF Before
<1> QED BY <1>0, <1>4, <1>5, <1>6, <1>7

\* What the program is done with grows by the entry that it leaves.
LEMMA PastGrows ==
    ASSUME ScanTypes, Reading, [ScanNext]_scanVars
    PROVE  /\ Past \subseteq Past'
           /\ \A e \in Past' : Stays(e)' =>
                Stays(e) /\ (e \in Past \/ (UnderWay /\ ~UnderWay' /\ e = entry))
<1>0. last \in Int /\ rest \subseteq Entries /\ Entries \subseteq Int
  BY ScanConstants DEF ScanTypes, ScanTypeOK
<1>1. CASE Others
  <2>1. UNCHANGED <<rest, last, entry, next>>
    BY <1>1, OthersDo DEF directory
  <2>2. \A e \in Entries : Stays(e)' => Stays(e)
    BY <1>1, OthersDo, ScanConstants DEF Stays
  <2> QED BY <2>1, <2>2 DEF Past, UnderWay
<1>2. CASE Getdents
  <2>1. next = "readdir" /\ ~UnderWay /\ ~UnderWay'
    BY <1>2 DEF Getdents, UnderWay
  <2>2. Past \subseteq Past'
    <3> SUFFICES ASSUME NEW e \in Past PROVE e \in Past'
      OBVIOUS
    <3>1. e \in Entries /\ e =< last
      BY DEF Past
    <3>2. e =< last' /\ e \notin rest'
      <4>1. last < last' /\ last' \in Entries /\ \A x \in rest' : x > last
        BY <1>2, Blocks
      <4> QED BY <1>0, <3>1, <4>1
    <3> QED BY <2>1, <3>1, <3>2 DEF Past
  <2>3. \A e : Stays(e)' = Stays(e)
    BY <1>2, OwnDoes DEF Own
  <2>4. ASSUME NEW e \in Past', Stays(e), e \notin Past PROVE FALSE
    <3>1. e \in Entries /\ e =< last' /\ e \notin rest'
      BY <2>4 DEF Past
    <3>2. e > last
      BY <1>0, <1>2, <2>1, <2>4, <3>1, Blocks DEF Past
    <3>3. Lives(Target(e))
      BY <2>4 DEF Stays, Lives
    <3> QED BY <1>2, <3>1, <3>2, <3>3, Blocks
  <2> QED BY <2>2, <2>3, <2>4
<1>3. CASE Readdir
  <2>1. /\ next = "readdir" /\ ~UnderWay /\ UnderWay' /\ last' = last
        /\ entry' = Min(rest) /\ rest' = rest \ {entry'} /\ rest # {}
    BY <1>3 DEF Readdir, UnderWay
  <2>2. entry' \in rest
    BY <1>0, <2>1, FirstLast
  <2>3. Past' = Past
    BY <2>1, <2>2 DEF Past
  <2>4. \A e : Stays(e)' = Stays(e)
    BY <1>3, OwnDoes DEF Own
  <2> QED BY <2>3, <2>4
<1>4. CASE /\ Own /\ ~Getdents /\ ~Readdir
  <2>1. UNCHANGED <<rest, last, entry>> /\ ~(UnderWay' /\ ~UnderWay)
    BY <1>4 DEF Own, EndOfDir, Closedir, Fopen, Fgets, WriteAndClose, OpenStatus,
     ReadStatus, BuildAndPrint, OpendirFd, ReaddirFd, Readlink, ReadAndPrint, CloseBoth, directory, UnderWay
  <2>2. \A e : Stays(e)' = Stays(e)
    BY <1>4, OwnDoes
  <2> QED BY <2>1, <2>2 DEF Past
<1>5. CASE UNCHANGED scanVars
  BY <1>5 DEF scanVars, directory, processes, Past, Stays, UnderWay
<1> QED BY <1>1, <1>2, <1>3, <1>4, <1>5 DEF ScanNext, Others, Own
-----------------------------------------------------------------------------
\* Every step keeps the calls of a program apart.
LEMMA ScanCallsStep == ScanCalls /\ [ScanNext]_scanVars => ScanCalls'
<1> SUFFICES ASSUME ScanCalls, [ScanNext]_scanVars PROVE ScanCalls'
  OBVIOUS
<1>1. CASE Others
  <2>1. UNCHANGED <<lister, next>>
    BY <1>1 DEF Others, ForkProcess, EndProcess, CloseFile
  <2> QED BY <2>1 DEF ScanCalls
<1>2. CASE Getdents \/ EndOfDir \/ Readdir \/ Closedir
  BY <1>2 DEF ScanCalls, Getdents, EndOfDir, Readdir, Closedir
<1>3. CASE Fopen \/ Fgets \/ WriteAndClose
  BY <1>3 DEF ScanCalls, Fopen, Fgets, WriteAndClose
<1>4. CASE OpenStatus \/ ReadStatus \/ BuildAndPrint
  BY <1>4 DEF ScanCalls, OpenStatus, ReadStatus, BuildAndPrint
<1>5. CASE OpendirFd \/ ReaddirFd \/ Readlink \/ ReadAndPrint \/ CloseBoth
  BY <1>5 DEF ScanCalls, OpendirFd, ReaddirFd, Readlink, ReadAndPrint, CloseBoth
<1>6. CASE UNCHANGED scanVars
  BY <1>6 DEF scanVars, ScanCalls
<1> QED BY <1>1, <1>2, <1>3, <1>4, <1>5, <1>6 DEF ScanNext, Others

\* Every step leaves init and the program there, and each process a parent.
LEMMA KernelStep == ScanTypes /\ Kernel /\ [ScanNext]_scanVars => Kernel'
<1> SUFFICES ASSUME ScanTypes, Kernel, [ScanNext]_scanVars PROVE Kernel'
  OBVIOUS
<1>0. /\ born \in [Pids -> 0..(MaxForks + 1)] /\ ppid \in [Pids -> 0..MaxPid] /\ births \in Nat
      /\ 1 \in Pids /\ Me \in Pids /\ Me # 1
  BY ScanConstants DEF ScanTypes, ScanTypeOK
<1>1. ASSUME NEW p \in Pids, ForkProcess(p) PROVE Kernel'
  <2>1. PICK q \in Pids : /\ ~Lives(q) /\ born' = [born EXCEPT ![q] = births + 2]
                          /\ ppid' = [ppid EXCEPT ![q] = p]
    BY <1>1 DEF ForkProcess
  <2>2. Lives(p)
    BY <1>1 DEF ForkProcess
  <2>3. births + 2 # 0 /\ q # 1 /\ q # Me
    BY <1>0, <2>1 DEF Kernel
  <2>4. \A r \in Pids : Lives(r)' = (Lives(r) \/ r = q)
    BY <1>0, <2>1, <2>3 DEF Lives
  <2> QED BY <1>0, <2>1, <2>2, <2>3, <2>4 DEF Kernel
<1>2. ASSUME NEW p \in Pids, EndProcess(p) PROVE Kernel'
  <2>1. /\ born' = [born EXCEPT ![p] = 0] /\ p # 1 /\ p # Me
        /\ ppid' = [q \in Pids |-> IF ppid[q] = p \/ q = p THEN 1 ELSE ppid[q]]
    BY <1>2 DEF EndProcess
  <2>2. \A r \in Pids : Lives(r)' = (Lives(r) /\ r # p)
    BY <1>0, <2>1 DEF Lives
  <2>3. ppid'[1] = 0
    <3>1. p # 0 /\ 1 # p /\ ppid[1] = 0
      BY <2>1, ScanConstants DEF Kernel, Pids
    <3> QED BY <1>0, <2>1, <3>1
  <2> QED BY <1>0, <2>1, <2>2, <2>3 DEF Kernel
<1>3. ASSUME NEW p \in Pids, CloseFile(p) PROVE Kernel'
  BY <1>3 DEF CloseFile, Kernel, Lives
<1>4. CASE Own
  BY <1>4, OwnDoes DEF Kernel, Lives
<1>5. CASE UNCHANGED scanVars
  BY <1>5 DEF scanVars, processes, Kernel, Lives
<1> QED BY <1>1, <1>2, <1>3, <1>4, <1>5 DEF ScanNext, Own
-----------------------------------------------------------------------------
\* insert_node puts a node in front of the list.
LEMMA Inserted ==
    ASSUME ScanTypes, ReadStatus, ~Gone
    PROVE  /\ list_root' \in Seq(Node) /\ Len(list_root) \in Nat /\ Len(list_root') = Len(list_root) + 1
           /\ list_root'[1] = [entry |-> entry, pid |-> Target(entry), ppid |-> ppid[Target(entry)]]
           /\ list_root'[1] \in Node
           /\ \A k \in 1..Len(list_root) : list_root'[k + 1] = list_root[k]
           /\ DOMAIN list_root = 1..Len(list_root) /\ DOMAIN list_root' = 1..(Len(list_root) + 1)
           /\ next = "read" /\ next' = "readdir"
<1> DEFINE node == [entry |-> entry, pid |-> Target(entry), ppid |-> ppid[Target(entry)]]
<1>0. entry \in Entries /\ Target(entry) \in Pids /\ ppid \in [Pids -> 0..MaxPid] /\ list_root \in Seq(Node)
  BY ScanConstants DEF ScanTypes, ScanTypeOK
<1>1. node \in Node
  BY <1>0 DEF Node
<1>2. list_root' = <<node>> \o list_root /\ next = "read" /\ next' = "readdir"
  BY DEF ReadStatus
<1> HIDE DEF node
<1>3. <<node>> \in Seq(Node) /\ Len(<<node>>) = 1 /\ <<node>>[1] = node /\ Len(list_root) \in Nat
  BY <1>0, <1>1
<1>4. /\ list_root' \in Seq(Node) /\ Len(list_root') = Len(list_root) + 1
      /\ \A k \in 1..(1 + Len(list_root)) :
           list_root'[k] = IF k =< 1 THEN <<node>>[k] ELSE list_root[k - 1]
  BY <1>0, <1>2, <1>3, ConcatProperties
<1>5. list_root'[1] = node
  BY <1>3, <1>4
<1>6. ASSUME NEW k \in 1..Len(list_root) PROVE list_root'[k + 1] = list_root[k]
  <2>1. k + 1 \in 1..(1 + Len(list_root)) /\ ~(k + 1 =< 1) /\ (k + 1) - 1 = k
    BY <1>3
  <2> QED BY <1>4, <2>1
<1>7. DOMAIN list_root = 1..Len(list_root) /\ DOMAIN list_root' = 1..(Len(list_root) + 1)
  BY <1>0, <1>4
<1> QED BY <1>1, <1>2, <1>3, <1>4, <1>5, <1>6, <1>7 DEF node

LEMMA NewListed ==
    ASSUME ScanTypes, ReadStatus, ~Gone
    PROVE  ListedEntries' = ListedEntries \union {entry}
<1>1. ASSUME NEW x \in ListedEntries' PROVE x \in ListedEntries \union {entry}
  <2>1. PICK k \in 1..(Len(list_root) + 1) : x = list_root'[k].entry
    BY Inserted DEF ListedEntries
  <2>2. CASE k = 1
    BY <2>1, <2>2, Inserted
  <2>3. CASE k # 1
    <3>1. k - 1 \in 1..Len(list_root) /\ (k - 1) + 1 = k
      BY <2>1, <2>3, Inserted
    <3>2. list_root'[k] = list_root[k - 1]
      BY <3>1, Inserted
    <3> QED BY <2>1, <3>1, <3>2, Inserted DEF ListedEntries
  <2> QED BY <2>2, <2>3
<1>2. entry \in ListedEntries'
  <2>1. 1 \in DOMAIN list_root' /\ list_root'[1].entry = entry
    BY Inserted
  <2> QED BY <2>1 DEF ListedEntries
<1>3. ASSUME NEW x \in ListedEntries PROVE x \in ListedEntries'
  <2>1. PICK k \in 1..Len(list_root) : x = list_root[k].entry
    BY Inserted DEF ListedEntries
  <2>2. k + 1 \in DOMAIN list_root' /\ list_root'[k + 1] = list_root[k]
    BY Inserted
  <2> QED BY <2>1, <2>2 DEF ListedEntries
<1> QED BY <1>1, <1>2, <1>3

\* Every step keeps the nodes those of different entries, and one for each that
\* 12_2 is done with and that is still there.
LEMMA NodesStep == ScanInv /\ [ScanNext]_scanVars => Nodes'
<1> SUFFICES ASSUME ScanInv, [ScanNext]_scanVars PROVE Nodes'
  OBVIOUS
<1>0. ScanTypes /\ ScanCalls /\ Reading /\ OpenedRight /\ Nodes
  BY DEF ScanInv
<1>p. /\ Past \subseteq Past'
      /\ \A e \in Past' : Stays(e)' =>
           Stays(e) /\ (e \in Past \/ (UnderWay /\ ~UnderWay' /\ e = entry))
  BY <1>0, PastGrows
<1>1. CASE ReadStatus /\ ~Gone
  <2>0. next = "read" /\ UnderWay /\ ~UnderWay' /\ entry \notin Past /\ UNCHANGED <<last, rest, entry, lister>>
    BY <1>1 DEF ReadStatus, UnderWay, Past, directory
  <2>1. entry \in Past'
    BY <1>0, <2>0 DEF Past, Reading, ScanTypes, ScanTypeOK
  <2>2. ListedEntries' = ListedEntries \union {entry} /\ entry \notin ListedEntries
    BY <1>0, <1>1, <2>0, NewListed DEF Nodes
  <2>3. ASSUME NEW i \in DOMAIN list_root', NEW j \in DOMAIN list_root',
               list_root'[i].entry = list_root'[j].entry
        PROVE  i = j
    <3>1. /\ i \in 1..(Len(list_root) + 1) /\ j \in 1..(Len(list_root) + 1) /\ Len(list_root) \in Nat
          /\ list_root'[1].entry = entry
      BY <1>0, <1>1, Inserted
    <3>2. \A k \in 1..(Len(list_root) + 1) : k # 1 =>
            k - 1 \in DOMAIN list_root /\ list_root'[k].entry = list_root[k - 1].entry
      <4> SUFFICES ASSUME NEW k \in 1..(Len(list_root) + 1), k # 1
                   PROVE  k - 1 \in DOMAIN list_root /\ list_root'[k].entry = list_root[k - 1].entry
        OBVIOUS
      <4>1. k - 1 \in 1..Len(list_root) /\ (k - 1) + 1 = k
        BY <3>1
      <4>2. DOMAIN list_root = 1..Len(list_root) /\ list_root'[(k - 1) + 1] = list_root[k - 1]
        BY <1>0, <1>1, <4>1, Inserted
      <4> QED BY <4>1, <4>2
    <3>3. \A k \in DOMAIN list_root : list_root[k].entry # entry
      BY <2>2 DEF ListedEntries
    <3>4. i = 1 \/ j = 1 => i = j
      BY <2>3, <3>1, <3>2, <3>3
    <3>5. i # 1 /\ j # 1 => i - 1 = j - 1
      BY <1>0, <2>3, <3>1, <3>2 DEF Nodes
    <3> QED BY <3>1, <3>4, <3>5
  <2>4. ListedEntries' \subseteq Past'
    BY <1>0, <1>p, <2>1, <2>2 DEF Nodes
  <2>5. \A e \in Past' : Stays(e)' => e \in ListedEntries'
    <3>1. lister = "12_2" /\ next # "failed"
      BY <1>0, <2>0 DEF ScanCalls
    <3> QED BY <1>0, <1>p, <2>2, <3>1 DEF Nodes
  <2> QED BY <2>3, <2>4, <2>5 DEF Nodes
<1>2. CASE UNCHANGED <<list_root, lister>>
                /\ (lister = "12_2" => next' = "failed" \/ (next # "failed" /\ ~(UnderWay /\ ~UnderWay' /\ Stays(entry))))
  <2>1. ListedEntries' = ListedEntries
    BY <1>2 DEF ListedEntries
  <2>2. ListedEntries' \subseteq Past'
    BY <1>0, <1>p, <2>1 DEF Nodes
  <2>3. lister = "12_2" /\ next' # "failed" => \A e \in Past' : Stays(e)' => e \in ListedEntries'
    BY <1>0, <1>2, <1>p, <2>1 DEF Nodes
  <2> QED BY <1>0, <1>2, <2>2, <2>3 DEF Nodes
<1>3. CASE Others
  <2>1. UNCHANGED <<list_root, lister, next>>
    BY <1>0, <1>3, OthersDo
  <2> QED BY <1>2, <2>1 DEF UnderWay
<1>4. CASE Getdents \/ EndOfDir \/ Readdir \/ Closedir \/ BuildAndPrint
  <2>1. UNCHANGED <<list_root, lister>> /\ next # "failed" /\ ~UnderWay
    BY <1>4 DEF Getdents, EndOfDir, Readdir, Closedir, BuildAndPrint, UnderWay
  <2> QED BY <1>2, <2>1
<1>5. CASE OpenStatus
  <2>1. UNCHANGED <<list_root, lister>> /\ next = "open"
    BY <1>5 DEF OpenStatus
  <2>2. CASE ~Lives(Target(entry))
    <3>1. ~Stays(entry)
      BY <2>2 DEF Stays, Lives
    <3> QED BY <1>2, <2>1, <3>1
  <2>3. CASE lister = "12_2" /\ next' = "read"
    <3>1. UnderWay'
      BY <2>3 DEF UnderWay
    <3> QED BY <1>2, <2>1, <3>1
  <2>4. CASE next' = "failed" \/ lister # "12_2"
    BY <1>2, <2>1, <2>4
  <2> QED BY <1>5, <2>2, <2>3, <2>4 DEF OpenStatus
<1>6. CASE ReadStatus /\ Gone
  BY <1>2, <1>6 DEF ReadStatus
<1>7. CASE Fopen \/ Fgets \/ WriteAndClose \/ OpendirFd \/ ReaddirFd \/ Readlink \/ ReadAndPrint \/ CloseBoth
  <2>1. UNCHANGED <<list_root, lister>> /\ lister # "12_2"
    BY <1>0, <1>7 DEF Fopen, Fgets, WriteAndClose, OpendirFd, ReaddirFd, Readlink, ReadAndPrint, CloseBoth, ScanCalls
  <2> QED BY <1>2, <2>1
<1>8. CASE UNCHANGED scanVars
  <2>1. UNCHANGED <<list_root, lister, next>>
    BY <1>8 DEF scanVars
  <2>2. lister = "12_2" => next' = "failed" \/ (next # "failed" /\ ~(UnderWay /\ ~UnderWay' /\ Stays(entry)))
    BY <2>1 DEF UnderWay
  <2> QED BY <1>2, <2>1, <2>2
<1> QED BY <1>1, <1>3, <1>4, <1>5, <1>6, <1>7, <1>8 DEF ScanNext, Others

\* There are no more nodes than entries.
LEMMA Short ==
    ASSUME NEW nodes \in Seq(Node),
           \A i, j \in DOMAIN nodes : nodes[i].entry = nodes[j].entry => i = j
    PROVE  Len(nodes) =< MaxPid + 2
<1> DEFINE n == Len(nodes)
           f == [k \in 1..n |-> nodes[k].entry]
<1>0. n \in Nat /\ DOMAIN nodes = 1..n /\ \A k \in 1..n : nodes[k] \in Node
  OBVIOUS
<1>1. f \in [1..n -> Entries]
  BY <1>0 DEF Node
<1>2. \A i, j \in 1..n : f[i] = f[j] => i = j
  BY <1>0
<1> HIDE DEF f
<1>3. f \in Injection(1..n, Entries)
  BY <1>1, <1>2 DEF Injection, IsInjective
<1>4. IsFiniteSet(Entries) /\ Cardinality(Entries) = MaxPid + 2
  <2>1. MaxPid \in Nat /\ MaxPid \in Int /\ -1 \in Int
    BY ScanConstants
  <2>2. /\ IsFiniteSet(-1..MaxPid)
        /\ Cardinality(-1..MaxPid) = IF -1 > MaxPid THEN 0 ELSE MaxPid - (-1) + 1
    BY <2>1, FS_Interval
  <2>3. ~(-1 > MaxPid) /\ MaxPid - (-1) + 1 = MaxPid + 2
    BY <2>1
  <2> QED BY <2>2, <2>3 DEF Entries
<1>5. Cardinality(1..n) =< Cardinality(Entries)
  BY <1>3, <1>4, FS_Injection
<1>6. Cardinality(1..n) = n
  <2>1. Cardinality(1..n) = IF 1 > n THEN 0 ELSE n - 1 + 1
    BY <1>0, FS_Interval
  <2> QED BY <1>0, <2>1
<1> QED BY <1>4, <1>5, <1>6

\* Every step keeps to the entries that have been read.
LEMMA ReadingStep == ScanTypes /\ Reading /\ [ScanNext]_scanVars => Reading'
<1> SUFFICES ASSUME ScanTypes, Reading, [ScanNext]_scanVars PROVE Reading'
  OBVIOUS
<1>0. rest \in SUBSET Entries /\ Entries \subseteq Int /\ last \in Int
  BY ScanConstants DEF ScanTypes, ScanTypeOK
<1>1. CASE Others
  <2>1. UNCHANGED <<rest, last, entry, next, fds>>
    BY <1>1, OthersDo DEF directory, descriptors
  <2>2. \A e \in Entries : Stays(e)' => Stays(e)
    BY <1>1, OthersDo, ScanConstants DEF Stays
  <2> QED BY <2>1, <2>2 DEF Reading, UnderWay
<1>2. CASE Getdents
  <2>1. next' = "readdir"
    BY <1>2 DEF Getdents
  <2>2. \A e \in rest' : e =< last'
    BY <1>2, Blocks
  <2> QED BY <2>1, <2>2 DEF Reading, UnderWay
<1>3. CASE EndOfDir
  <2>1. /\ rest = {} /\ UNCHANGED <<rest, last, fds, born>> /\ ~UnderWay'
        /\ fds[3] # "proc" \/ ToCome = {}
    BY <1>3 DEF EndOfDir, UnderWay, directory, descriptors, processes
  <2>2. fds[3] = "proc" => \A e \in Entries : Stays(e) => e =< last
    <3> SUFFICES ASSUME fds[3] = "proc", NEW e \in Entries, Stays(e), ~(e =< last) PROVE FALSE
      OBVIOUS
    <3>1. e > last
      BY <1>0
    <3>2. e \in ToCome
      BY <3>1 DEF ToCome, Stays, Lives
    <3> QED BY <2>1, <3>2
  <2> QED BY <2>1, <2>2 DEF Reading, Stays
<1>4. CASE Readdir
  <2>1. /\ rest # {} /\ entry' = Min(rest) /\ rest' = rest \ {entry'} /\ last' = last
        /\ next' \in {"fopen", "open"}
    BY <1>4 DEF Readdir
  <2>2. entry' \in rest
    BY <1>0, <2>1, FirstLast
  <2> QED BY <2>1, <2>2 DEF Reading
<1>5. CASE Closedir \/ BuildAndPrint
  <2>1. UNCHANGED <<rest, last>> /\ next' \in {"done", "failed"}
    BY <1>5 DEF Closedir, BuildAndPrint, directory
  <2> QED BY <2>1 DEF Reading, UnderWay
<1>6. CASE \/ Fopen \/ Fgets \/ WriteAndClose \/ OpenStatus \/ ReadStatus
           \/ OpendirFd \/ ReaddirFd \/ Readlink \/ ReadAndPrint \/ CloseBoth
  <2>1. UNCHANGED <<rest, last, entry>> /\ UnderWay /\ next' \notin {"build_pstree", "closedir"}
    BY <1>6 DEF Fopen, Fgets, WriteAndClose, OpenStatus, ReadStatus, OpendirFd, ReaddirFd, Readlink,
       ReadAndPrint, CloseBoth, directory, UnderWay
  <2> QED BY <2>1 DEF Reading
<1>7. CASE UNCHANGED scanVars
  BY <1>7 DEF scanVars, directory, processes, descriptors, Reading, UnderWay, Stays
<1> QED BY <1>1, <1>2, <1>3, <1>4, <1>5, <1>6, <1>7 DEF ScanNext, Others

\* Every step: a process whose status file is open is there or has ended.
LEMMA OpenedStep == ScanTypes /\ OpenedRight /\ [ScanNext]_scanVars => OpenedRight'
<1> SUFFICES ASSUME ScanTypes, OpenedRight, [ScanNext]_scanVars, Looking'
             PROVE  /\ opened' # 0 /\ (Gone' => ended' # {})
                    /\ Stays(entry)' => opened' = 1
  BY DEF OpenedRight
<1>0. entry \in Entries /\ Target(entry) \in Pids
  BY ScanConstants DEF ScanTypes, ScanTypeOK
<1>1. CASE Others
  <2>1. UNCHANGED <<entry, next, opened>> /\ Looking
    BY <1>1, OthersDo DEF directory, Looking
  <2>2. Stays(entry)' => Stays(entry)
    BY <1>0, <1>1, <2>1, OthersDo DEF Stays
  <2>3. ASSUME Gone' PROVE ended' # {}
    <3>1. born'[Target(entry)] # opened
      BY <2>1, <2>3 DEF Gone
    <3>2. CASE Gone
      BY <1>1, <2>1, <3>2, OthersDo DEF OpenedRight
    <3>3. CASE ~Gone
      <4>1. born[Target(entry)] = opened /\ opened # 0
        BY <2>1, <3>3 DEF Gone, OpenedRight
      <4> QED BY <1>0, <1>1, <3>1, <4>1, OthersDo
    <3> QED BY <3>2, <3>3
  <2> QED BY <2>1, <2>2, <2>3 DEF OpenedRight
<1>2. CASE Fopen \/ OpenStatus
  <2>1. Lives(Target(entry)) /\ opened' = born[Target(entry)] /\ UNCHANGED <<entry, born>>
    BY <1>2 DEF Fopen, OpenStatus, Looking, directory, processes
  <2> QED BY <2>1 DEF Lives, Gone, Stays
<1>3. CASE Own /\ ~(Fopen \/ OpenStatus)
  <2>1. Looking /\ UNCHANGED <<entry, opened>>
    BY <1>3 DEF Own, Getdents, EndOfDir, Readdir, Closedir, Fgets, WriteAndClose, ReadStatus,
       BuildAndPrint, OpendirFd, ReaddirFd, Readlink, ReadAndPrint, CloseBoth, directory, Looking
  <2>2. UNCHANGED <<born, ended>>
    BY <1>3, OwnDoes
  <2> QED BY <2>1, <2>2 DEF OpenedRight, Gone, Stays
<1>4. CASE UNCHANGED scanVars
  BY <1>4 DEF scanVars, directory, processes, OpenedRight, Gone, Stays, Looking
<1> QED BY <1>1, <1>2, <1>3, <1>4 DEF ScanNext, Others, Own

\* Every step keeps the standard descriptors and that of /proc open but for what
\* 12_1 closes, and what 12_3 has open is what it closes.
LEMMA TableStep == ScanTypes /\ ScanCalls /\ Table /\ [ScanNext]_scanVars => Table'
<1> SUFFICES ASSUME ScanTypes, ScanCalls, Table, [ScanNext]_scanVars PROVE Table'
  OBVIOUS
<1>0. /\ fds \in [Fds -> {"free", "std", "proc", "status", "fd"}] /\ nofile \in Nat /\ nofile >= 6
      /\ Fds \subseteq Nat /\ {0, 1, 2, 3, 4, 5} \subseteq Fds
  BY ScanConstants DEF ScanTypes, ScanTypeOK
<1>1. CASE /\ UNCHANGED <<lister, fds, nofile, status_fd>>
           /\ next' \in {"fgets", "write"} => next \in {"fgets", "write"}
           /\ next' \in {"readdir", "open", "closedir"} => next \in {"readdir", "open", "closedir"}
           /\ next' = "opendir" => next = "opendir"
  BY <1>1 DEF Table
<1>2. CASE Others
  <2>1. UNCHANGED <<lister, next, fds, nofile, status_fd>>
    BY <1>2, OthersDo DEF descriptors
  <2> QED BY <1>1, <2>1
<1>3. CASE Getdents \/ EndOfDir \/ Readdir \/ Closedir \/ Fgets
  <2>1. UNCHANGED <<lister, fds, nofile, status_fd>>
    BY <1>3 DEF Getdents, EndOfDir, Readdir, Closedir, Fgets, descriptors
  <2>2. /\ next' \in {"fgets", "write"} => next \in {"fgets", "write"}
        /\ next' = "opendir" => next = "opendir"
    BY <1>3 DEF Getdents, EndOfDir, Readdir, Closedir, Fgets
  <2>3. next' \in {"readdir", "open", "closedir"} /\ lister = "12_3" => next \in {"readdir", "open", "closedir"}
    BY <1>3 DEF Getdents, EndOfDir, Readdir, Closedir, Fgets, ScanCalls
  <2> QED BY <2>1, <2>2, <2>3 DEF Table
<1>4. CASE ReadStatus \/ BuildAndPrint
  <2>1. UNCHANGED <<lister, fds, nofile, status_fd>> /\ lister = "12_2"
    BY <1>4 DEF ReadStatus, BuildAndPrint, descriptors, ScanCalls
  <2> QED BY <2>1 DEF Table
<1>5. CASE ReaddirFd \/ Readlink \/ ReadAndPrint
  <2>1. UNCHANGED <<lister, fds, nofile, status_fd>> /\ lister = "12_3"
        /\ next' \notin {"readdir", "open", "closedir", "opendir"}
    BY <1>5 DEF ReaddirFd, Readlink, ReadAndPrint, descriptors, ScanCalls
  <2> QED BY <2>1 DEF Table
<1>6. CASE Fopen
  <2>1. lister = "12_1" /\ UNCHANGED <<lister, nofile, status_fd>>
    BY <1>6 DEF Fopen, ScanCalls
  <2>2. CASE fds' = fds /\ next' = "readdir"
    BY <2>1, <2>2 DEF Table
  <2>3. CASE TakeFd("status")
    <3>1. PICK f \in Fds :
            /\ f < nofile /\ fds[f] = "free" /\ fds' = [fds EXCEPT ![f] = "status"]
            /\ \A g \in Fds : g < nofile /\ fds[g] = "free" => f =< g
      BY <2>3, Taken
    <3>2. f \in {0, 1, 2, 3} => f = status_fd
      BY <2>1, <3>1 DEF Table
    <3>3. \A g \in Fds : g # f => fds'[g] = fds[g]
      BY <1>0, <3>1
    <3>4. fds'[f] = "status"
      BY <1>0, <3>1
    <3>5. \A g \in {0, 1, 2, 3} : status_fd # g => fds'[g] = IF g = 3 THEN "proc" ELSE "std"
      BY <1>0, <2>1, <3>2, <3>3 DEF Table
    <3>6. ASSUME status_fd \in {0, 2} PROVE fds'[status_fd] # "free"
      <4>1. status_fd \in Fds /\ status_fd < nofile
        BY <1>0, <3>6
      <4>2. CASE fds[status_fd] = "free"
        <5>1. f \in Nat /\ f =< status_fd
          BY <1>0, <3>1, <4>1, <4>2
        <5>2. f \in {0, 1, 2, 3}
          BY <3>6, <5>1
        <5> QED BY <3>2, <3>4, <5>2
      <4>3. CASE fds[status_fd] # "free"
        BY <3>3, <3>4, <4>1, <4>3
      <4> QED BY <4>2, <4>3
    <3> QED BY <2>1, <3>5, <3>6 DEF Table
  <2> QED BY <1>6, <2>2, <2>3 DEF Fopen
<1>7. CASE WriteAndClose
  <2>1. lister = "12_1" /\ UNCHANGED <<lister, nofile, status_fd>> /\ next' \in {"readdir", "failed"}
    BY <1>7 DEF WriteAndClose, ScanCalls
  <2>2. fds' = fds \/ (status_fd \in Fds /\ fds' = [fds EXCEPT ![status_fd] = "free"])
    BY <1>7 DEF WriteAndClose
  <2>3. \A g \in Fds : g # status_fd => fds'[g] = fds[g]
    BY <1>0, <2>2
  <2>4. \A g \in {0, 1, 2, 3} : status_fd # g => fds'[g] = IF g = 3 THEN "proc" ELSE "std"
    BY <1>0, <2>1, <2>3 DEF Table
  <2> QED BY <2>1, <2>4 DEF Table
<1>8. ASSUME NEW use \in {"status", "fd"}, TakeFd(use), lister # "12_1", UNCHANGED <<lister, nofile, status_fd>>,
             next' \notin {"readdir", "open", "closedir"},
             lister = "12_3" /\ next' = "opendir" => next = "open"
      PROVE  Table'
  <2>1. PICK f \in Fds :
          /\ f < nofile /\ fds[f] = "free" /\ fds' = [fds EXCEPT ![f] = use]
          /\ \A g \in Fds : g < nofile /\ fds[g] = "free" => f =< g
    BY <1>8, Taken
  <2>2. f \in Nat /\ f > 3
    <3>1. f \notin {0, 1, 2, 3}
      BY <1>8, <2>1 DEF Table
    <3> QED BY <1>0, <3>1
  <2>3. /\ \A g \in Fds : g # f => fds'[g] = fds[g]
        /\ fds'[f] = use
    BY <1>0, <2>1
  <2>4. \A g \in {0, 1, 2, 3} : fds'[g] = IF g = 3 THEN "proc" ELSE "std"
    BY <1>0, <1>8, <2>2, <2>3 DEF Table
  <2>5. lister = "12_3" => \A g \in Fds : g > 3 => fds'[g] \in {"free", "status", "fd"}
    BY <2>3 DEF Table
  <2>6. ASSUME lister = "12_3", next' = "opendir" PROVE \A g \in Fds : g > 4 => fds'[g] = "free"
    <3>1. \A g \in Fds : g > 3 => fds[g] = "free"
      BY <1>8, <2>6 DEF Table
    <3>2. fds[4] = "free" /\ 4 < nofile /\ 4 \in Fds
      BY <1>0, <3>1
    <3>3. f =< 4
      BY <2>1, <3>2
    <3>4. f = 4
      BY <2>2, <3>3
    <3>5. \A g \in Fds : g > 4 => g # f /\ g > 3
      BY <1>0, <3>4
    <3> QED BY <2>3, <3>1, <3>5
  <2> QED BY <1>8, <2>4, <2>5, <2>6 DEF Table
<1>9. CASE OpenStatus
  <2>1. lister # "12_1" /\ UNCHANGED <<lister, nofile, status_fd>> /\ next = "open" 
    BY <1>9 DEF OpenStatus, ScanCalls
  <2>2. CASE TakeFd("status") /\ next' \in {"read", "opendir"}
    BY <1>8, <2>1, <2>2
  <2>3. CASE fds' = fds /\ next' \in {"readdir", "failed"}
    BY <2>1, <2>3 DEF Table
  <2> QED BY <1>9, <2>2, <2>3 DEF OpenStatus
<1>10. CASE OpendirFd
  <2>1. lister = "12_3" /\ UNCHANGED <<lister, nofile, status_fd>> /\ next = "opendir"
    BY <1>10 DEF OpendirFd, ScanCalls
  <2>2. CASE TakeFd("fd") /\ next' = "readdir fd"
    BY <1>8, <2>1, <2>2
  <2>3. CASE fds' = fds /\ next' = "failed"
    BY <2>1, <2>3 DEF Table
  <2> QED BY <1>10, <2>2, <2>3 DEF OpendirFd
<1>11. CASE CloseBoth
  <2>1. /\ lister = "12_3" /\ UNCHANGED <<lister, nofile, status_fd>> /\ next' = "readdir"
        /\ fds' = [f \in Fds |-> IF fds[f] \in {"status", "fd"} THEN "free" ELSE fds[f]]
    BY <1>11 DEF CloseBoth, ScanCalls
  <2>2. \A g \in Fds : fds'[g] = IF fds[g] \in {"status", "fd"} THEN "free" ELSE fds[g]
    BY <2>1
  <2>3. \A g \in {0, 1, 2, 3} : fds'[g] = IF g = 3 THEN "proc" ELSE "std"
    BY <1>0, <2>1, <2>2 DEF Table
  <2>4. \A g \in Fds : g > 3 => fds'[g] = "free"
    BY <2>1, <2>2 DEF Table
  <2> QED BY <2>1, <2>3, <2>4 DEF Table
<1>12. CASE UNCHANGED scanVars
  BY <1>12 DEF scanVars, descriptors, Table
<1> QED BY <1>2, <1>3, <1>4, <1>5, <1>6, <1>7, <1>9, <1>10, <1>11, <1>12 DEF ScanNext, Others

\* Every step: 12_1 has shown the user's processes that stay, and only those.
LEMMA UserShownStep == ScanInv /\ [ScanNext]_scanVars => UserShown'
<1> SUFFICES ASSUME ScanInv, [ScanNext]_scanVars PROVE UserShown'
  OBVIOUS
<1>0. ScanTypes /\ ScanCalls /\ Reading /\ OpenedRight /\ UserShown
  BY DEF ScanInv
<1>p. /\ \A e \in Past' : e \in Entries
      /\ \A e \in Past' : Stays(e)' =>
           Stays(e) /\ (e \in Past \/ (UnderWay /\ ~UnderWay' /\ e = entry))
  BY <1>0, PastGrows DEF Past
<1>e. entry \in Entries /\ Target(entry) \in Pids /\ shown \subseteq Entries
  BY <1>0, ScanConstants DEF ScanTypes, ScanTypeOK
<1>1. CASE /\ UNCHANGED <<lister, uid, shown>> /\ next' # "write"
           /\ \A e : Stays(e)' = Stays(e)
           /\ full' \/ next' = "failed" \/ (~full /\ next # "failed" /\
                ~(UnderWay /\ ~UnderWay' /\ Stays(entry) /\ uid[Target(entry)] = "user"))
  <2>1. lister = "12_1" /\ ~full' /\ next' # "failed" =>
           \A e \in Past' : Stays(e)' /\ uid[Target(e)] = "user" => e \in shown
    BY <1>0, <1>1, <1>p DEF UserShown
  <2> QED BY <1>0, <1>1, <2>1 DEF UserShown
<1>2. CASE Others
  <2>1. UNCHANGED <<lister, next, shown, full, entry, rest, last>>
    BY <1>0, <1>2, OthersDo DEF directory, descriptors
  <2>2. \A e \in Entries : Stays(e)' => Stays(e) /\ uid'[Target(e)] = uid[Target(e)]
    BY <1>0, <1>2, OthersDo, ScanConstants DEF Stays
  <2>3. Past' = Past
    BY <2>1 DEF Past, UnderWay
  <2> QED BY <1>0, <1>e, <1>p, <2>1, <2>2, <2>3 DEF UserShown
<1>3. CASE Own
  <2>1. UNCHANGED <<lister, uid, born>> /\ \A e : Stays(e)' = Stays(e)
    BY <1>3, OwnDoes
  <2>2. CASE Getdents \/ EndOfDir \/ Readdir \/ Closedir
    <3>1. UNCHANGED <<shown, full>> /\ ~UnderWay /\ next # "failed" /\ next' # "write"
      BY <2>2 DEF Getdents, EndOfDir, Readdir, Closedir, UnderWay, descriptors
    <3>2. full \in BOOLEAN
      BY <1>0 DEF ScanTypes
    <3> QED BY <1>0, <1>1, <1>p, <2>1, <3>1, <3>2 DEF UserShown
  <2>3. CASE Fopen
    <3>1. UNCHANGED <<shown>> /\ next = "fopen" /\ next' # "write"
      BY <2>3 DEF Fopen
    <3>2. CASE next' = "fgets" /\ UNCHANGED full
      <4>1. UnderWay'
        BY <3>2 DEF UnderWay
      <4> QED BY <1>0, <1>1, <1>p, <2>1, <3>1, <3>2, <4>1 DEF UserShown
    <3>3. CASE ~Lives(Target(entry)) /\ full' = (full \/ FreeFds = {})
      <4>1. ~Stays(entry)
        BY <3>3 DEF Stays, Lives
      <4>2. CASE full'
        BY <1>0, <1>1, <2>1, <3>1, <4>2 DEF UserShown
      <4>3. CASE ~full'
        BY <1>1, <2>1, <3>1, <3>3, <4>1, <4>3
      <4> QED BY <4>2, <4>3
    <3>4. CASE full'
      BY <1>1, <2>1, <3>1, <3>4
    <3>5. FreeFds = {} /\ full' = (full \/ FreeFds = {}) => full'
      OBVIOUS
    <3> QED BY <2>3, <3>2, <3>3, <3>4, <3>5 DEF Fopen
  <2>4. CASE Fgets
    <3>1. /\ UNCHANGED <<shown, full, entry>> /\ next = "fgets"
          /\ next' = IF ~Gone /\ uid[Target(entry)] = "user" THEN "write" ELSE "readdir"
      BY <2>4 DEF Fgets, descriptors, directory
    <3>2. Stays(entry) => ~Gone
      BY <1>0, <3>1 DEF OpenedRight, Looking, Gone, Stays
    <3>3. CASE next' = "write"
      <4>1. UnderWay' /\ uid[Target(entry)] = "user"
        BY <3>1, <3>3 DEF UnderWay
      <4> QED BY <1>0, <1>p, <2>1, <3>1, <3>3, <4>1 DEF UserShown
    <3>4. CASE next' = "readdir"
      <4>1. ~(Stays(entry) /\ uid[Target(entry)] = "user")
        BY <3>1, <3>2, <3>4
      <4> QED BY <1>0, <1>p, <2>1, <3>1, <3>4, <4>1 DEF UserShown
    <3> QED BY <3>1, <3>3, <3>4
  <2>5. CASE WriteAndClose
    <3>1. UNCHANGED <<full, entry>> /\ next = "write" /\ next' \in {"readdir", "failed"}
      BY <2>5 DEF WriteAndClose, directory
    <3>2. shown' = shown \union {entry} \/ (shown' = shown /\ next' = "failed")
      BY <2>5 DEF WriteAndClose
    <3>3. lister = "12_1" => \A e \in shown' : Stays(e) => uid[Target(e)] = "user"
      BY <1>0, <3>1, <3>2 DEF UserShown
    <3>4. lister = "12_1" /\ ~full /\ next' # "failed" =>
            \A e \in Past' : Stays(e)' /\ uid[Target(e)] = "user" => e \in shown'
      BY <1>0, <1>p, <3>1, <3>2 DEF UserShown
    <3> QED BY <2>1, <3>1, <3>3, <3>4 DEF UserShown
  <2>6. CASE \/ OpenStatus \/ ReadStatus \/ BuildAndPrint
             \/ OpendirFd \/ ReaddirFd \/ Readlink \/ ReadAndPrint \/ CloseBoth
    <3>1. lister # "12_1"
      BY <1>0, <2>6 DEF ScanCalls, OpenStatus, ReadStatus, BuildAndPrint, OpendirFd, ReaddirFd,
         Readlink, ReadAndPrint, CloseBoth
    <3> QED BY <2>1, <3>1 DEF UserShown
  <2> QED BY <1>3, <2>2, <2>3, <2>4, <2>5, <2>6 DEF Own
<1>4. CASE UNCHANGED scanVars
  <2>1. /\ UNCHANGED <<lister, next, shown, full, entry, rest, last, uid, born>>
    BY <1>4 DEF scanVars, directory, descriptors, processes
  <2>2. Past' = Past /\ \A e : Stays(e)' = Stays(e)
    BY <2>1 DEF Past, UnderWay, Stays
  <2> QED BY <1>0, <2>1, <2>2 DEF UserShown
<1> QED BY <1>2, <1>3, <1>4 DEF ScanNext, Others, Own

\* Every step: 12_3 has shown the processes that stay and have the file open.
LEMMA FileShownStep == ScanInv /\ [ScanNext]_scanVars => FileShown'
<1> SUFFICES ASSUME ScanInv, [ScanNext]_scanVars PROVE FileShown'
  OBVIOUS
<1>0. ScanTypes /\ ScanCalls /\ Reading /\ OpenedRight /\ FileShown
  BY DEF ScanInv
<1>p. /\ \A e \in Past' : e \in Entries
      /\ \A e \in Past' : Stays(e)' =>
           Stays(e) /\ (e \in Past \/ (UnderWay /\ ~UnderWay' /\ e = entry))
  BY <1>0, PastGrows DEF Past
<1>e. entry \in Entries /\ Target(entry) \in Pids
  BY <1>0, ScanConstants DEF ScanTypes, ScanTypeOK
<1>g. Looking /\ Stays(entry) => ~Gone
  BY <1>0 DEF OpenedRight, Gone, Stays
<1>1. CASE /\ UNCHANGED <<lister, files, shown>> /\ next' \notin {"readlink", "print"}
           /\ \A e : Stays(e)' = Stays(e)
           /\ next' = "failed" \/ (next # "failed" /\
                ~(UnderWay /\ ~UnderWay' /\ Stays(entry) /\ "the file" \in files[Target(entry)]))
  <2>1. lister = "12_3" /\ next' # "failed" =>
           \A e \in Past' : Stays(e)' /\ "the file" \in files[Target(e)] => e \in shown
    BY <1>0, <1>1, <1>p DEF FileShown
  <2> QED BY <1>0, <1>1, <2>1 DEF FileShown
<1>2. CASE Others
  <2>1. UNCHANGED <<lister, next, shown, entry, rest, last, left, opened>>
    BY <1>0, <1>2, OthersDo DEF directory
  <2>2. \A e \in Entries : Stays(e)' => Stays(e) /\ files'[Target(e)] \subseteq files[Target(e)]
    BY <1>0, <1>2, OthersDo, ScanConstants DEF Stays
  <2>3. Past' = Past
    BY <2>1 DEF Past, UnderWay
  <2>4. ASSUME lister = "12_3", next \in {"readlink", "print"}, NEW d \in left, ~Gone', d \notin files'[Target(entry)]
        PROVE  closed'
    <3>1. born'[Target(entry)] = opened
      BY <2>1, <2>4 DEF Gone
    <3>2. opened # 0
      BY <1>0, <2>4 DEF OpenedRight, Looking
    <3>3. born[Target(entry)] = opened /\ (files'[Target(entry)] = files[Target(entry)] \/ closed')
      BY <1>0, <1>2, <1>e, <3>1, <3>2, OthersDo
    <3>4. closed => closed'
      BY <1>0, <1>2, OthersDo
    <3> QED BY <1>0, <2>4, <3>3, <3>4 DEF FileShown, Gone
  <2> QED BY <1>0, <1>e, <1>p, <2>1, <2>2, <2>3, <2>4 DEF FileShown
<1>3. CASE Own
  <2>1. UNCHANGED <<lister, files, born, closed>> /\ \A e : Stays(e)' = Stays(e)
    BY <1>3, OwnDoes
  <2>2. CASE Getdents \/ EndOfDir \/ Readdir \/ Closedir
    <3>1. UNCHANGED shown /\ ~UnderWay /\ next # "failed" /\ next' \notin {"readlink", "print"}
      BY <2>2 DEF Getdents, EndOfDir, Readdir, Closedir, UnderWay
    <3> QED BY <1>1, <2>1, <3>1
  <2>3. CASE OpenStatus
    <3>1. UNCHANGED shown /\ next = "open"
      BY <2>3 DEF OpenStatus
    <3>2. CASE ~Lives(Target(entry)) /\ next' = "readdir"
      <4>1. ~Stays(entry)
        BY <3>2 DEF Stays, Lives
      <4> QED BY <1>1, <2>1, <3>1, <3>2, <4>1
    <3>3. CASE next' = "failed"
      BY <1>1, <2>1, <3>1, <3>3
    <3>4. CASE next' \in {"read", "opendir"}
      <4>1. UnderWay'
        BY <3>4 DEF UnderWay
      <4> QED BY <1>1, <2>1, <3>1, <3>4, <4>1
    <3> QED BY <2>3, <3>2, <3>3, <3>4 DEF OpenStatus
  <2>4. CASE OpendirFd
    <3>1. UNCHANGED shown /\ next = "opendir" /\ next' \in {"readdir fd", "failed"}
      BY <2>4 DEF OpendirFd
    <3>2. next' = "failed" \/ UnderWay'
      BY <3>1 DEF UnderWay
    <3> QED BY <1>1, <2>1, <3>1, <3>2
  <2>5. CASE ReaddirFd
    <3>1. /\ UNCHANGED <<shown, entry, opened>> /\ next = "readdir fd" /\ next' = "readlink"
          /\ left' = IF Gone THEN {} ELSE files[Target(entry)]
      BY <2>5 DEF ReaddirFd, directory
    <3>2. UnderWay' /\ Looking
      BY <3>1 DEF UnderWay, Looking
    <3>3. \A d \in left' : d \in files[Target(entry)]
      BY <3>1
    <3>4. Stays(entry) /\ "the file" \in files[Target(entry)] => "the file" \in left'
      BY <1>g, <3>1, <3>2
    <3> QED BY <1>0, <1>p, <2>1, <3>1, <3>2, <3>3, <3>4 DEF FileShown
  <2>6. CASE Readlink
    <3>1. PICK d \in left :
            /\ left' = left \ {d}
            /\ next' = IF Gone \/ d \notin files[Target(entry)] THEN "failed"
                       ELSE IF d = "the file" THEN "print" ELSE "readlink"
      BY <2>6 DEF Readlink
    <3>2. UNCHANGED <<shown, entry, opened>> /\ next = "readlink"
      BY <2>6 DEF Readlink, directory
    <3>3. CASE next' = "failed"
      BY <1>1, <2>1, <3>2, <3>3
    <3>4. CASE next' # "failed"
      <4>1. UnderWay' /\ next' \in {"print", "readlink"} /\ (next' = "readlink" => d # "the file")
        BY <3>1, <3>4 DEF UnderWay
      <4>2. Gone' = Gone
        BY <2>1, <3>2 DEF Gone
      <4> QED BY <1>0, <1>p, <2>1, <3>1, <3>2, <4>1, <4>2 DEF FileShown
    <3> QED BY <3>3, <3>4
  <2>7. CASE ReadAndPrint
    <3>1. UNCHANGED <<entry, opened, left>> /\ next = "print"
      BY <2>7 DEF ReadAndPrint, directory
    <3>2. CASE next' = "failed" /\ UNCHANGED shown
      BY <1>1, <2>1, <3>2
    <3>3. CASE next' = "readlink" /\ shown' = shown \union {entry}
      <4>1. UnderWay' /\ Gone' = Gone
        BY <2>1, <3>1, <3>3 DEF UnderWay, Gone
      <4> QED BY <1>0, <1>p, <2>1, <3>1, <3>3, <4>1 DEF FileShown
    <3> QED BY <2>7, <3>2, <3>3 DEF ReadAndPrint
  <2>8. CASE CloseBoth
    <3>1. UNCHANGED <<entry, shown>> /\ next = "readlink" /\ left = {} /\ next' = "readdir"
      BY <2>8 DEF CloseBoth, directory
    <3> QED BY <1>0, <1>p, <2>1, <3>1 DEF FileShown
  <2>9. CASE \/ Fopen \/ Fgets \/ WriteAndClose \/ ReadStatus \/ BuildAndPrint
    <3>1. lister # "12_3"
      BY <1>0, <2>9 DEF ScanCalls, Fopen, Fgets, WriteAndClose, ReadStatus, BuildAndPrint
    <3> QED BY <2>1, <3>1 DEF FileShown
  <2> QED BY <1>3, <2>2, <2>3, <2>4, <2>5, <2>6, <2>7, <2>8, <2>9 DEF Own
<1>4. CASE UNCHANGED scanVars
  <2>1. UNCHANGED <<lister, next, shown, entry, rest, last, left, opened, files, born, closed>>
    BY <1>4 DEF scanVars, directory, processes
  <2>2. Past' = Past /\ Gone' = Gone /\ \A e : Stays(e)' = Stays(e)
    BY <2>1 DEF Past, UnderWay, Stays, Gone
  <2> QED BY <1>0, <2>1, <2>2 DEF FileShown
<1> QED BY <1>2, <1>3, <1>4 DEF ScanNext, Others, Own

\* Every step without reuse of a pid leaves parents before their children.
LEMMA RankedStep == ScanInv /\ [ScanNext]_scanVars => Ranked'
<1> SUFFICES ASSUME ScanInv, [ScanNext]_scanVars, ~reused' PROVE \E rank \in [Pids -> Nat] : Ranks(rank)'
  BY DEF Ranked
<1>0. /\ ScanTypes /\ Kernel /\ OpenedRight /\ Ranked
      /\ born \in [Pids -> 0..(MaxForks + 1)] /\ ppid \in [Pids -> 0..MaxPid] /\ births \in Nat
      /\ 1 \in Pids /\ Me \in Pids /\ Me # 1 /\ list_root \in Seq(Node)
      /\ entry \in Entries /\ Target(entry) \in Pids
  BY ScanConstants DEF ScanInv, ScanTypes, ScanTypeOK
<1>1. ~reused
  <2>1. CASE Others
    BY <1>0, <2>1, OthersDo
  <2>2. CASE Own
    BY <2>2, OwnDoes
  <2>3. CASE UNCHANGED scanVars
    BY <2>3 DEF scanVars, processes
  <2> QED BY <2>1, <2>2, <2>3 DEF ScanNext, Others, Own
<1>2. PICK rank \in [Pids -> Nat] : Ranks(rank)
  BY <1>0, <1>1 DEF Ranked
<1>t. \A i \in DOMAIN list_root : list_root[i].pid \in Pids
  <2>1. \A i \in DOMAIN list_root : list_root[i] \in Node
    BY <1>0
  <2> QED BY <2>1 DEF Node
<1>3. ASSUME NEW p \in Pids, ForkProcess(p) PROVE \E rank1 \in [Pids -> Nat] : Ranks(rank1)'
  <2>1. PICK q \in Pids :
          /\ ~Lives(q)
          /\ born' = [born EXCEPT ![q] = births + 2]
          /\ ppid' = [ppid EXCEPT ![q] = p]
          /\ reused' = (reused \/ q \in ended)
    BY <1>3 DEF ForkProcess
  <2>2. Lives(p) /\ UNCHANGED <<ended, list_root>>
    BY <1>3 DEF ForkProcess
  <2>3. ~Known(q) /\ q # p /\ q # 1 /\ births + 2 # 0
    <3>1. births + 2 # 0
      BY <1>0
    <3>2. q \notin ended
      BY <2>1
    <3> QED BY <1>0, <2>1, <2>2, <3>1, <3>2 DEF Known, Kernel
  <2>4. \A r \in Pids : Lives(r)' = (Lives(r) \/ r = q)
    BY <1>0, <2>1, <2>3 DEF Lives
  <2>5. \A r \in Pids : Known(r) => Known(r)' /\ r # q
    BY <2>2, <2>3, <2>4 DEF Known
  <2>6. PICK rank1 \in [Pids -> Nat] :
          rank1[q] = rank[p] + 1 /\ \A r \in Pids : r # q => rank1[r] = rank[r]
    <3>1. [rank EXCEPT ![q] = rank[p] + 1] \in [Pids -> Nat]
      BY <1>2
    <3> QED BY <3>1
  <2>7. rank1[1] = 0
    BY <1>0, <1>2, <2>3, <2>6 DEF Ranks
  <2>8. ASSUME NEW r \in Pids \ {1}, Lives(r)' PROVE rank1[ppid'[r]] < rank1[r]
    <3>1. CASE r = q
      <4>1. ppid'[r] = p /\ rank1[p] = rank[p] /\ rank[p] \in Nat
        BY <1>0, <1>2, <2>1, <2>3, <2>6, <3>1
      <4> QED BY <2>6, <3>1, <4>1
    <3>2. CASE r # q
      <4>1. Lives(r) /\ ppid'[r] = ppid[r] /\ ppid[r] \in Pids /\ Lives(ppid[r])
        BY <1>0, <2>1, <2>4, <2>8, <3>2 DEF Kernel
      <4>2. ppid[r] # q
        BY <2>1, <4>1
      <4> QED BY <1>2, <2>6, <3>2, <4>1, <4>2 DEF Ranks
    <3> QED BY <3>1, <3>2
  <2>9. ASSUME NEW i \in DOMAIN list_root
        PROVE  /\ Known(list_root[i].pid)'
               /\ list_root[i].ppid # 0 =>
                    /\ list_root[i].ppid \in Pids /\ Known(list_root[i].ppid)'
                    /\ rank1[list_root[i].ppid] < rank1[list_root[i].pid]
    <3>1. list_root[i].pid \in Pids /\ Known(list_root[i].pid)
      BY <1>2, <1>t DEF Ranks
    <3>2. ASSUME list_root[i].ppid # 0
          PROVE  /\ list_root[i].ppid \in Pids /\ Known(list_root[i].ppid)
                 /\ rank[list_root[i].ppid] < rank[list_root[i].pid]
      BY <1>2, <3>2 DEF Ranks
    <3>3. Known(list_root[i].pid)' /\ list_root[i].pid # q
      <4>1. Known(list_root[i].pid) => Known(list_root[i].pid)' /\ list_root[i].pid # q
        <5> DEFINE r == list_root[i].pid
        <5>1. r \in Pids
          BY <3>1
        <5>2. (r \in ended \/ Lives(r)) => r \in ended' \/ Lives(r)'
          BY <2>2, <2>4, <5>1
        <5> QED BY <2>2, <2>5, <5>1, <5>2 DEF Known, Lives
      <4> QED BY <3>1, <4>1
    <3>4. ASSUME list_root[i].ppid # 0 PROVE Known(list_root[i].ppid)' /\ list_root[i].ppid # q
      BY <2>2, <2>5, <3>2, <3>4 DEF Known, Lives
    <3> QED BY <2>6, <3>1, <3>2, <3>3, <3>4
  <2>10. Ranks(rank1)'
    BY <2>2, <2>7, <2>8, <2>9 DEF Ranks
  <2> QED BY <2>6, <2>10
<1>4. ASSUME NEW p \in Pids, EndProcess(p) PROVE Ranks(rank)'
  <2>1. /\ born' = [born EXCEPT ![p] = 0] /\ p # 1 /\ p # Me /\ ended' = ended \union {p}
        /\ ppid' = [q \in Pids |-> IF ppid[q] = p \/ q = p THEN 1 ELSE ppid[q]]
        /\ list_root' = list_root
    BY <1>4 DEF EndProcess
  <2>2. \A r \in Pids : Lives(r)' = (Lives(r) /\ r # p)
    BY <1>0, <2>1 DEF Lives
  <2>3. \A r \in Pids : Known(r) => Known(r)'
    BY <2>1, <2>2 DEF Known
  <2>4. ASSUME NEW r \in Pids \ {1}, Lives(r)' PROVE rank[ppid'[r]] < rank[r]
    <3>1. Lives(r) /\ r # p /\ ppid[r] \in Pids /\ rank[ppid[r]] < rank[r]
      BY <1>0, <1>2, <2>2, <2>4 DEF Kernel, Ranks
    <3>2. rank[1] = 0 /\ rank[ppid[r]] \in Nat /\ rank[r] \in Nat
      BY <1>2, <3>1 DEF Ranks
    <3>3. ppid'[r] = IF ppid[r] = p THEN 1 ELSE ppid[r]
      BY <2>1, <3>1
    <3> QED BY <3>1, <3>2, <3>3
  <2>5. \A i \in DOMAIN list_root :
          /\ Known(list_root[i].pid)'
          /\ list_root[i].ppid # 0 => /\ list_root[i].ppid \in Pids /\ Known(list_root[i].ppid)'
                                      /\ rank[list_root[i].ppid] < rank[list_root[i].pid]
    BY <1>2, <1>t, <2>1, <2>3 DEF Ranks, Known, Lives
  <2> QED BY <1>2, <2>1, <2>4, <2>5 DEF Ranks
<1>5. ASSUME UNCHANGED <<born, ppid, ended, list_root>> PROVE Ranks(rank)'
  BY <1>2, <1>5 DEF Ranks, Known, Lives
<1>6. CASE Own
  <2>1. UNCHANGED <<born, ppid, ended>>
    BY <1>6, OwnDoes
  <2>2. CASE ReadStatus /\ ~Gone
    <3> DEFINE node == [entry |-> entry, pid |-> Target(entry), ppid |-> ppid[Target(entry)]]
    <3>1. /\ list_root'[1] = node
          /\ \A k \in 1..Len(list_root) : list_root'[k + 1] = list_root[k]
          /\ DOMAIN list_root = 1..Len(list_root) /\ DOMAIN list_root' = 1..(Len(list_root) + 1)
          /\ Len(list_root) \in Nat /\ next = "read"
      BY <1>0, <2>2, Inserted
    <3>2. Lives(Target(entry))
      BY <1>0, <2>2, <3>1 DEF Gone, OpenedRight, Looking, Lives
    <3>3. /\ Known(Target(entry))
          /\ ppid[Target(entry)] # 0 =>
               /\ ppid[Target(entry)] \in Pids /\ Known(ppid[Target(entry)])
               /\ rank[ppid[Target(entry)]] < rank[Target(entry)]
      BY <1>0, <1>2, <3>2 DEF Known, Kernel, Ranks
    <3>4. ASSUME NEW i \in DOMAIN list_root'
          PROVE  /\ Known(list_root'[i].pid)
                 /\ list_root'[i].ppid # 0 =>
                      /\ list_root'[i].ppid \in Pids /\ Known(list_root'[i].ppid)
                      /\ rank[list_root'[i].ppid] < rank[list_root'[i].pid]
      <4>1. CASE i = 1
        BY <3>1, <3>3, <4>1
      <4>2. CASE i # 1
        <5>1. i - 1 \in 1..Len(list_root) /\ (i - 1) + 1 = i
          BY <3>1, <4>2
        <5>2. list_root'[i] = list_root[i - 1] /\ i - 1 \in DOMAIN list_root
          BY <3>1, <5>1
        <5> QED BY <1>2, <5>2 DEF Ranks
      <4> QED BY <4>1, <4>2
    <3>5. Ranks(rank)'
      BY <1>2, <2>1, <3>4 DEF Ranks, Known, Lives
    <3> QED BY <3>5
  <2>3. CASE ~(ReadStatus /\ ~Gone)
    <3>1. UNCHANGED list_root
      BY <1>6, <2>3 DEF Own, Getdents, EndOfDir, Readdir, Closedir, Fopen, Fgets, WriteAndClose,
         OpenStatus, ReadStatus, BuildAndPrint, OpendirFd, ReaddirFd, Readlink, ReadAndPrint, CloseBoth
    <3> QED BY <1>5, <2>1, <3>1
  <2> QED BY <2>2, <2>3
<1>7. CASE UNCHANGED scanVars
  <2>1. UNCHANGED <<born, ppid, ended, list_root>>
    BY <1>7 DEF scanVars, processes
  <2> QED BY <1>5, <2>1
<1>8. ASSUME NEW p \in Pids, CloseFile(p) PROVE Ranks(rank)'
  <2>1. UNCHANGED <<born, ppid, ended, list_root>>
    BY <1>8 DEF CloseFile
  <2> QED BY <1>5, <2>1
<1> QED BY <1>2, <1>3, <1>4, <1>6, <1>7, <1>8 DEF ScanNext, Own

\* find_node returns the place of a node of the pid, or 0.
LEMMA FoundNode ==
    ASSUME list_root \in Seq(Node), NEW pid
    PROVE  FindNode(pid) = 0 \/ (FindNode(pid) \in DOMAIN list_root /\ list_root[FindNode(pid)].pid = pid)
<1> DEFINE I == {i \in 1..Len(list_root) : list_root[i].pid = pid}
<1>1. FindNode(pid) = IF I # {} THEN Min(I) ELSE 0
  BY DEF FindNode, SelectInSeq
<1>2. I \in SUBSET Nat /\ DOMAIN list_root = 1..Len(list_root)
  OBVIOUS
<1>3. ASSUME I # {} PROVE Min(I) \in I
  <2>1. PICK n \in I : \A m \in I : n =< m
    BY <1>2, <1>3, LeastNumber
  <2> HIDE DEF I
  <2> QED BY <2>1 DEF Min
<1> QED BY <1>1, <1>2, <1>3

\* The line of the places of the parents of a node, 0 when it has ended.
LEMMA LineOfParents ==
    ASSUME list_root \in Seq(Node), NEW i \in DOMAIN list_root
    PROVE  \E up \in [0..Len(list_root) -> 0..Len(list_root)] :
             up = [n \in 0..Len(list_root) |-> IF n = 0 THEN i ELSE ParentNode(up[n - 1])]
<1> DEFINE L == Len(list_root)
<1>0. L \in Nat /\ DOMAIN list_root = 1..L /\ i \in 0..L
  OBVIOUS
<1>1. \A k \in 0..L : ParentNode(k) \in 0..L
  BY <1>0, FoundNode DEF ParentNode
<1> HIDE DEF L
<1> DEFINE Line(m) == \E g \in [0..m -> 0..L] : g = [n \in 0..m |-> IF n = 0 THEN i ELSE ParentNode(g[n - 1])]
<1>2. Line(0)
  <2> DEFINE g == [n \in 0..0 |-> i]
  <2>1. g \in [0..0 -> 0..L] /\ \A n \in 0..0 : n = 0
    BY <1>0
  <2>2. g = [n \in 0..0 |-> IF n = 0 THEN i ELSE ParentNode(g[n - 1])]
    BY <2>1
  <2> QED BY <2>1, <2>2
<1>3. ASSUME NEW m \in Nat, Line(m) PROVE Line(m + 1)
  <2>1. PICK g \in [0..m -> 0..L] : g = [n \in 0..m |-> IF n = 0 THEN i ELSE ParentNode(g[n - 1])]
    BY <1>3
  <2> DEFINE h == [n \in 0..(m + 1) |-> IF n = m + 1 THEN ParentNode(g[m]) ELSE g[n]]
  <2>2. m \in 0..m /\ g[m] \in 0..L /\ ParentNode(g[m]) \in 0..L
    BY <1>1
  <2>3. \A n \in 0..(m + 1) : n # m + 1 => n \in 0..m
    OBVIOUS
  <2>4. h \in [0..(m + 1) -> 0..L]
    BY <2>2, <2>3
  <2>5. ASSUME NEW n \in 0..(m + 1) PROVE h[n] = IF n = 0 THEN i ELSE ParentNode(h[n - 1])
    <3>1. CASE n = 0
      BY <2>1, <3>1
    <3>2. CASE n = m + 1
      <4>1. n # 0 /\ n - 1 = m /\ m \in 0..(m + 1) /\ m # m + 1
        BY <3>2
      <4> QED BY <3>2, <4>1
    <3>3. CASE n # 0 /\ n # m + 1
      <4>1. n \in 0..m /\ n - 1 \in 0..(m + 1) /\ n - 1 # m + 1
        BY <3>3
      <4>2. h[n] = g[n] /\ h[n - 1] = g[n - 1]
        BY <3>3, <4>1
      <4>3. g[n] = IF n = 0 THEN i ELSE ParentNode(g[n - 1])
        BY <2>1, <4>1
      <4> QED BY <4>2, <4>3
    <3> QED BY <3>1, <3>2, <3>3
  <2>6. h = [n \in 0..(m + 1) |-> IF n = 0 THEN i ELSE ParentNode(h[n - 1])]
    <3>1. h = [n \in 0..(m + 1) |-> h[n]]
      BY <2>4
    <3> HIDE DEF h
    <3> QED BY <2>5, <3>1
  <2> HIDE DEF h
  <2> QED BY <2>4, <2>6
<1> DEFINE Missing == {m \in Nat : ~Line(m)}
<1>4. Missing = {}
  <2> SUFFICES ASSUME Missing # {} PROVE FALSE
    OBVIOUS
  <2>1. Missing \in SUBSET Nat
    OBVIOUS
  <2>2. PICK n \in Missing : \A m \in Missing : n =< m
    BY <2>1, LeastNumber
  <2> HIDE DEF Line
  <2>3. n # 0
    BY <1>2, <2>2
  <2>4. n - 1 \in Nat /\ (n - 1) + 1 = n /\ ~(n =< n - 1)
    BY <2>1, <2>3
  <2>5. Line(n - 1)
    BY <2>2, <2>4
  <2> QED BY <1>3, <2>4, <2>5
<1> HIDE DEF Line
<1>5. Line(L)
  BY <1>0, <1>4
<1> QED BY <1>5 DEF Line, L

\* Where parents come before their children every line of parents ends: all is printed.
LEMMA AllPrinted ==
    ASSUME list_root \in Seq(Node), NEW rank \in [Pids -> Nat], Ranks(rank)
    PROVE  Printed = DOMAIN list_root
<1> SUFFICES ASSUME NEW i \in DOMAIN list_root
             PROVE  LET up[n \in 0..Len(list_root)] == IF n = 0 THEN i ELSE ParentNode(up[n - 1])
                    IN  up[Len(list_root)] = 0
  BY DEF Printed
<1> DEFINE L == Len(list_root)
           up[n \in 0..Len(list_root)] == IF n = 0 THEN i ELSE ParentNode(up[n - 1])
           place(k) == list_root[k].pid
<1> SUFFICES up[L] = 0
  OBVIOUS
<1>0. L \in Nat /\ DOMAIN list_root = 1..L /\ i \in 1..L
  OBVIOUS
<1>1. up = [n \in 0..L |-> IF n = 0 THEN i ELSE ParentNode(up[n - 1])]
  BY LineOfParents
<1> HIDE DEF up, L
<1>2. up[0] = i /\ \A n \in 1..L : n \in 0..L /\ n - 1 \in 0..L /\ up[n] = ParentNode(up[n - 1])
  <2>1. 0 \in 0..L
    BY <1>0
  <2>2. \A n \in 1..L : n \in 0..L /\ n - 1 \in 0..L /\ n # 0
    BY <1>0
  <2> QED BY <1>1, <2>1, <2>2
<1>3. \A k \in 0..L : ParentNode(k) \in 0..L
  BY <1>0, FoundNode DEF ParentNode
<1> SUFFICES ASSUME up[L] # 0 PROVE FALSE
  OBVIOUS
\* No place on the line is 0, as the line stays there.
<1>4. \A n \in 0..L : up[n] # 0
  <2> DEFINE Zeros == {k \in 0..L : up[L - k] = 0}
  <2> SUFFICES ASSUME NEW n \in 0..L, up[n] = 0 PROVE FALSE
    OBVIOUS
  <2>1. L - n \in Zeros
    <3>1. L - n \in 0..L /\ L - (L - n) = n
      BY <1>0
    <3> QED BY <3>1
  <2>2. Zeros \in SUBSET Nat /\ Zeros # {}
    <3>1. 0..L \subseteq Nat
      BY <1>0
    <3> QED BY <2>1, <3>1
  <2>3. PICK k \in Zeros : \A m \in Zeros : k =< m
    BY <2>2, LeastNumber
  <2>4. k \in 0..L /\ up[L - k] = 0
    OBVIOUS
  <2>5. k # 0
    <3>1. L - 0 = L
      BY <1>0
    <3> QED BY <2>4, <3>1
  <2> DEFINE m == L - (k - 1)
  <2>6. m \in 1..L /\ m - 1 = L - k /\ k - 1 \in 0..L /\ ~(k =< k - 1)
    BY <1>0, <2>4, <2>5
  <2>7. up[m] = ParentNode(0)
    <3> HIDE DEF m
    <3> QED BY <1>2, <2>4, <2>6
  <2>8. ParentNode(0) = 0
    BY DEF ParentNode
  <2>9. k - 1 \in Zeros
    BY <2>6, <2>7, <2>8
  <2> QED BY <2>3, <2>6, <2>9
<1>5. \A n \in 0..L : up[n] \in 1..L
  <2> DEFINE Out == {n \in 0..L : up[n] \notin 0..L}
  <2>1. ASSUME Out # {} PROVE FALSE
    <3>1. Out \in SUBSET Nat
      BY <1>0
    <3>2. PICK n \in Out : \A m \in Out : n =< m
      BY <2>1, <3>1, LeastNumber
    <3>3. n \in 0..L /\ up[n] \notin 0..L
      OBVIOUS
    <3>4. n # 0
      BY <1>0, <1>2, <3>3
    <3>5. n \in 1..L /\ n - 1 \in 0..L /\ ~(n =< n - 1)
      BY <1>0, <3>3, <3>4
    <3>6. up[n - 1] \in 0..L
      BY <3>2, <3>5
    <3> QED BY <1>2, <1>3, <3>3, <3>5, <3>6
  <2>2. \A n \in 0..L : up[n] \in 0..L
    BY <2>1
  <2> QED BY <1>0, <1>4, <2>2
\* Going up, ranks fall.
<1>6. ASSUME NEW n \in 1..L PROVE rank[place(up[n])] < rank[place(up[n - 1])]
  <2> DEFINE k == up[n - 1]
  <2>1. n - 1 \in 0..L /\ n \in 0..L /\ up[n] = ParentNode(k) /\ k \in 1..L /\ up[n] # 0
    BY <1>2, <1>4, <1>5
  <2> HIDE DEF k
  <2>2. k # 0 /\ up[n] = FindNode(list_root[k].ppid)
    BY <1>0, <2>1 DEF ParentNode
  <2>3. list_root[up[n]].pid = list_root[k].ppid /\ up[n] \in DOMAIN list_root
    BY <2>1, <2>2, FoundNode
  <2>4. list_root[up[n]].pid \in Pids /\ 0 \notin Pids
    <3>1. list_root[up[n]] \in Node
      BY <2>3
    <3>2. 0 \notin 1..MaxPid
      BY ScanConstants
    <3> QED BY <3>1, <3>2 DEF Node, Pids
  <2>5. rank[list_root[k].ppid] < rank[list_root[k].pid]
    BY <1>0, <2>1, <2>3, <2>4 DEF Ranks
  <2> QED BY <2>3, <2>5 DEF k
<1>7. \A n \in 0..L : rank[place(up[n])] \in Nat
  <2>1. \A k \in 1..L : list_root[k] \in Node
    BY <1>0
  <2>2. \A k \in 1..L : place(k) \in Pids
    BY <2>1 DEF Node
  <2> HIDE DEF place
  <2> QED BY <1>5, <2>2
<1> HIDE DEF place
<1>8. ASSUME NEW x \in 0..L, NEW y \in 0..L, x < y PROVE rank[place(up[y])] < rank[place(up[x])]
  <2> DEFINE Not == {d \in Nat : d > 0 /\ x + d \in 0..L /\ ~(rank[place(up[x + d])] < rank[place(up[x])])}
  <2>1. ASSUME Not # {} PROVE FALSE
    <3>1. Not \in SUBSET Nat
      OBVIOUS
    <3>2. PICK d \in Not : \A m \in Not : d =< m
      BY <2>1, <3>1, LeastNumber
    <3>3. d \in Nat /\ d > 0 /\ x + d \in 0..L /\ ~(rank[place(up[x + d])] < rank[place(up[x])])
      OBVIOUS
    <3>4. d - 1 \in Nat /\ x + d \in 1..L /\ x + (d - 1) \in 0..L /\ x + d - 1 = x + (d - 1) /\ ~(d =< d - 1)
      BY <1>0, <3>3
    <3>5. rank[place(up[x + d])] < rank[place(up[x + (d - 1)])]
      BY <1>6, <3>4
    <3>6. d - 1 = 0 \/ rank[place(up[x + (d - 1)])] < rank[place(up[x])]
      <4> SUFFICES ASSUME d - 1 # 0, ~(rank[place(up[x + (d - 1)])] < rank[place(up[x])]) PROVE FALSE
        OBVIOUS
      <4>1. d - 1 > 0
        BY <3>4
      <4>2. d - 1 \in Not
        BY <3>4, <4>1
      <4> QED BY <3>2, <3>4, <4>2
    <3>7. d - 1 = 0 => x + (d - 1) = x
      BY <1>0, <3>4
    <3> QED BY <1>7, <3>3, <3>4, <3>5, <3>6, <3>7
  <2>2. y - x \in Nat /\ y - x > 0 /\ x + (y - x) = y
    BY <1>0, <1>8
  <2> QED BY <2>1, <2>2
\* One place comes twice.
<1>9. \E x, y \in 0..L : x # y /\ up[x] = up[y]
  <2> DEFINE f == [n \in 0..L |-> up[n]]
  <2>1. f \in [0..L -> 1..L]
    BY <1>5
  <2>2. IsFiniteSet(0..L) /\ IsFiniteSet(1..L) /\ Cardinality(1..L) < Cardinality(0..L)
    <3>1. L \in Int /\ 0 \in Int /\ 1 \in Int /\ ~(0 > L)
      BY <1>0
    <3>2. IsFiniteSet(0..L) /\ Cardinality(0..L) = IF 0 > L THEN 0 ELSE L - 0 + 1
      BY <3>1, FS_Interval
    <3>3. IsFiniteSet(1..L) /\ Cardinality(1..L) = IF 1 > L THEN 0 ELSE L - 1 + 1
      BY <3>1, FS_Interval
    <3> QED BY <1>0, <3>2, <3>3
  <2>3. \E x, y \in 0..L : x # y /\ f[x] = f[y]
    <3> HIDE DEF f
    <3> QED BY <2>1, <2>2, FS_PigeonHole
  <2> QED BY <2>3
<1>10. PICK x, y \in 0..L : x # y /\ up[x] = up[y]
  BY <1>9
<1>11. x < y \/ y < x
  BY <1>0, <1>10
<1> QED BY <1>7, <1>8, <1>10, <1>11

\* Every step to the end of a scan shows all that it should.
LEMMA ShowsAllStep == ScanInv /\ [ScanNext]_scanVars => ShowsAll'
<1> SUFFICES ASSUME ScanInv, [ScanNext]_scanVars, next' = "done"
             PROVE  /\ lister' = "12_1" /\ ~full' /\ status_fd' # 3 =>
                         \A e \in Entries : Stays(e)' => (e \in shown' <=> uid'[Target(e)] = "user")
                    /\ lister' = "12_2" /\ ~reused' =>
                         /\ \A e \in Entries : Stays(e)' => e \in shown'
                         /\ \A i \in DOMAIN list_root' : list_root'[i].entry \in shown'
                    /\ lister' = "12_3" =>
                         \A e \in Entries :
                            Stays(e)' /\ "the file" \in files'[Target(e)] => e \in shown'
  BY DEF ShowsAll
<1>0. ScanTypes /\ ScanCalls /\ Reading /\ Table /\ UserShown /\ FileShown /\ Nodes /\ Ranked /\ ShowsAll
  BY DEF ScanInv
<1>1. CASE Closedir
  <2>1. /\ next = "closedir" /\ fds[3] # "free" /\ UNCHANGED <<lister, full, status_fd, shown>>
        /\ lister # "12_2" /\ ~UnderWay
    BY <1>0, <1>1 DEF Closedir, descriptors, ScanCalls, UnderWay
  <2>2. UNCHANGED <<uid, files>> /\ \A e : Stays(e)' = Stays(e)
    BY <1>1, OwnDoes DEF Own
  <2>3. ASSUME fds[3] = "proc" PROVE \A e \in Entries : Stays(e) => e \in Past
    BY <1>0, <2>1, <2>3 DEF Reading, Past
  <2>4. ~(lister = "12_1" /\ status_fd = 3) => fds[3] = "proc"
    BY <1>0 DEF Table
  <2>5. CASE lister = "12_1"
    <3>1. UserShown
      BY <1>0
    <3> QED BY <2>1, <2>2, <2>3, <2>4, <2>5, <3>1 DEF UserShown
  <2>6. CASE lister # "12_1"
    <3>1. FileShown
      BY <1>0
    <3> QED BY <2>1, <2>2, <2>3, <2>4, <2>6, <3>1 DEF FileShown
  <2> QED BY <2>5, <2>6
<1>2. CASE BuildAndPrint
  <2>1. /\ next = "build_pstree" /\ UNCHANGED <<lister, list_root>> /\ lister = "12_2" /\ ~UnderWay
        /\ shown' = {list_root[i].entry : i \in Printed}
    BY <1>0, <1>2 DEF BuildAndPrint, ScanCalls, UnderWay
  <2>2. reused' = reused /\ \A e : Stays(e)' = Stays(e)
    BY <1>2, OwnDoes DEF Own
  <2>3. fds[3] = "proc"
    BY <1>0, <2>1 DEF Table
  <2>4. \A e \in Entries : Stays(e) => e \in Past
    BY <1>0, <2>1, <2>3 DEF Reading, Past
  <2>5. \A e \in Entries : Stays(e) => e \in ListedEntries
    BY <1>0, <2>1, <2>4 DEF Nodes
  <2>6. ASSUME ~reused PROVE shown' = ListedEntries
    <3>1. PICK rank \in [Pids -> Nat] : Ranks(rank)
      BY <1>0, <2>6 DEF Ranked
    <3>2. Printed = DOMAIN list_root
      BY <1>0, <3>1, AllPrinted DEF ScanTypes
    <3> QED BY <2>1, <3>2 DEF ListedEntries
  <2>7. \A i \in DOMAIN list_root : list_root[i].entry \in ListedEntries
    BY DEF ListedEntries
  <2> QED BY <2>1, <2>2, <2>5, <2>6, <2>7
<1>3. CASE UNCHANGED scanVars
  <2>1. UNCHANGED <<lister, next, full, status_fd, uid, files, reused, list_root, shown, born>>
    BY <1>3 DEF scanVars, descriptors, processes
  <2> QED BY <1>0, <2>1 DEF ShowsAll, Stays
<1>4. CASE Others
  BY <1>0, <1>4, OthersDo DEF Scanning
<1>5. CASE Own /\ ~(Closedir \/ BuildAndPrint)
  BY <1>5 DEF Own, Getdents, EndOfDir, Readdir, Fopen, Fgets, WriteAndClose, OpenStatus,
     ReadStatus, OpendirFd, ReaddirFd, Readlink, ReadAndPrint, CloseBoth
<1> QED BY <1>1, <1>2, <1>3, <1>4, <1>5 DEF ScanNext, Others, Own

\* Every step to the failure of a scan has its reason.
LEMMA FailsStep == ScanInv /\ [ScanNext]_scanVars => FailsExplained'
<1> SUFFICES ASSUME ScanInv, [ScanNext]_scanVars, next' = "failed"
             PROVE  /\ lister' = "12_1" => status_fd' \notin {0, 2}
                    /\ lister' = "12_2" => full' \/ ended' # {}
                    /\ lister' = "12_3" => ended' # {} \/ closed' \/ uid'[Me] # "root"
  BY DEF FailsExplained
<1>0. ScanTypes /\ ScanCalls /\ OpenedRight /\ Table /\ FileShown /\ FailsExplained
  BY DEF ScanInv
<1>c. nofile \in Nat /\ nofile >= 6 /\ {0, 1, 2, 3, 4, 5} \subseteq Fds
  BY <1>0, ScanConstants DEF ScanTypes
<1>1. CASE Others
  BY <1>0, <1>1, OthersDo DEF Scanning
<1>2. CASE UNCHANGED scanVars
  <2>1. UNCHANGED <<lister, next, status_fd, full, ended, closed, uid>>
    BY <1>2 DEF scanVars, descriptors, processes
  <2> QED BY <1>0, <2>1 DEF FailsExplained
<1>3. CASE Own
  <2>1. UNCHANGED <<lister, status_fd, ended, closed, uid>>
    BY <1>3, OwnDoes
  <2>2. CASE Closedir
    <3>1. fds[3] = "free"
      BY <2>2 DEF Closedir
    <3>2. lister = "12_1" /\ status_fd = 3
      BY <1>0, <3>1 DEF Table
    <3> QED BY <2>1, <3>2
  <2>3. CASE WriteAndClose
    <3>1. /\ next = "write" /\ lister = "12_1"
          /\ fds[1] # "std" \/ ~(status_fd \in Fds /\ fds[status_fd] # "free")
      BY <1>0, <2>3 DEF WriteAndClose, ScanCalls
    <3>2. CASE fds[1] # "std"
      <4>1. status_fd = 1
        BY <1>0, <3>2 DEF Table
      <4> QED BY <2>1, <3>1, <4>1
    <3>3. CASE ~(status_fd \in Fds /\ fds[status_fd] # "free")
      <4>1. status_fd \notin {0, 2}
        BY <1>0, <1>c, <3>1, <3>3 DEF Table
      <4> QED BY <2>1, <3>1, <4>1
    <3> QED BY <3>1, <3>2, <3>3
  <2>4. CASE OpenStatus
    <3>1. next = "open" /\ FreeFds = {} /\ full' = TRUE /\ lister # "12_1"
      BY <1>0, <2>4 DEF OpenStatus, ScanCalls
    <3>2. lister # "12_3"
      <4> SUFFICES ASSUME lister = "12_3" PROVE FALSE
        OBVIOUS
      <4>1. 4 \in Fds /\ 4 > 3 /\ 4 < nofile
        BY <1>c
      <4>2. fds[4] = "free"
        BY <1>0, <3>1, <4>1 DEF Table
      <4> QED BY <3>1, <4>1, <4>2 DEF FreeFds
    <3> QED BY <2>1, <3>1, <3>2
  <2>5. CASE ReadStatus
    <3>1. next = "read" /\ Gone /\ lister = "12_2"
      BY <1>0, <2>5 DEF ReadStatus, ScanCalls
    <3> QED BY <1>0, <2>1, <3>1 DEF OpenedRight, Looking
  <2>6. CASE OpendirFd
    <3>1. next = "opendir" /\ lister = "12_3" /\ (Gone \/ ~Permitted \/ FreeFds = {})
      BY <1>0, <2>6 DEF OpendirFd, ScanCalls
    <3>2. FreeFds # {}
      <4>1. 5 \in Fds /\ 5 > 4 /\ 5 < nofile
        BY <1>c
      <4>2. fds[5] = "free"
        BY <1>0, <3>1, <4>1 DEF Table
      <4> QED BY <4>1, <4>2 DEF FreeFds
    <3>3. Gone => ended # {}
      BY <1>0, <3>1 DEF OpenedRight, Looking
    <3>4. ~Permitted => uid[Me] # "root"
      BY DEF Permitted
    <3> QED BY <2>1, <3>1, <3>2, <3>3, <3>4
  <2>7. CASE Readlink
    <3>1. next = "readlink" /\ lister = "12_3" /\ \E d \in left : Gone \/ d \notin files[Target(entry)]
      BY <1>0, <2>7 DEF Readlink, ScanCalls
    <3>2. Gone => ended # {}
      BY <1>0, <3>1 DEF OpenedRight, Looking
    <3>3. ~Gone => closed
      BY <1>0, <3>1 DEF FileShown
    <3> QED BY <2>1, <3>1, <3>2, <3>3
  <2>8. CASE ReadAndPrint
    <3>1. next = "print" /\ lister = "12_3" /\ Gone
      BY <1>0, <2>8 DEF ReadAndPrint, ScanCalls
    <3> QED BY <1>0, <2>1, <3>1 DEF OpenedRight, Looking
  <2>9. CASE Getdents \/ EndOfDir \/ Readdir \/ Fopen \/ Fgets \/ BuildAndPrint \/ ReaddirFd \/ CloseBoth
    BY <2>9 DEF Getdents, EndOfDir, Readdir, Fopen, Fgets, BuildAndPrint, ReaddirFd, CloseBoth
  <2> QED BY <1>3, <2>2, <2>3, <2>4, <2>5, <2>6, <2>7, <2>8, <2>9 DEF Own
<1> QED BY <1>1, <1>2, <1>3 DEF ScanNext, Others, Own

\* Every step keeps the types.
LEMMA ScanTypesStep == ScanInv /\ [ScanNext]_scanVars => ScanTypes'
<1> SUFFICES ASSUME ScanInv, [ScanNext]_scanVars PROVE ScanTypes'
  OBVIOUS
<1> DEFINE Uses == {"free", "std", "proc", "status", "fd"}
<1>0. /\ lister \in {"none", "12_1", "12_2", "12_3"}
      /\ born \in [Pids -> 0..(MaxForks + 1)] /\ ppid \in [Pids -> 0..MaxPid]
      /\ uid \in [Pids -> Uids] /\ files \in [Pids -> SUBSET Descriptors]
      /\ rest \subseteq Entries /\ entry \in Entries /\ left \subseteq Descriptors
      /\ fds \in [Fds -> Uses] /\ shown \subseteq Entries
      /\ births \in Nat /\ ended \subseteq Pids
      /\ closed \in BOOLEAN /\ reused \in BOOLEAN /\ full \in BOOLEAN
      /\ last \in -2..MaxPid /\ opened \in 0..(births + 1)
      /\ \A p \in Pids : born[p] =< births + 1
      /\ nofile \in Limits /\ status_fd \in {-1} \union Fds
      /\ list_root \in Seq(Node) /\ ScanTypes /\ Reading
  BY DEF ScanInv, ScanTypes, ScanTypeOK
<1>t. Target(entry) \in Pids
  BY <1>0, ScanConstants
<1>1. list_root' \in Seq(Node)
  <2>1. CASE ReadStatus /\ ~Gone
    BY <1>0, <2>1, Inserted
  <2>2. CASE Own /\ ~(ReadStatus /\ ~Gone)
    <3>1. UNCHANGED list_root
      BY <2>2 DEF Own, Getdents, EndOfDir, Readdir, Closedir, Fopen, Fgets, WriteAndClose,
         OpenStatus, ReadStatus, BuildAndPrint, OpendirFd, ReaddirFd, Readlink, ReadAndPrint, CloseBoth
    <3> QED BY <1>0, <3>1
  <2>3. CASE Others
    BY <1>0, <2>3, OthersDo
  <2>4. CASE UNCHANGED scanVars
    BY <1>0, <2>4 DEF scanVars
  <2> QED BY <2>1, <2>2, <2>3, <2>4 DEF ScanNext, Others, Own
<1>2. Len(list_root') =< MaxPid + 2
  <2>1. \A i, j \in DOMAIN list_root' : list_root'[i].entry = list_root'[j].entry => i = j
    BY NodesStep DEF Nodes
  <2> QED BY <1>1, <2>1, Short
<1>3. CASE Others
  <2>1. UNCHANGED <<lister, rest, last, entry, opened, left, fds, nofile, status_fd, full, shown>>
    BY <1>0, <1>3, OthersDo DEF directory, descriptors
  <2>2. /\ born' \in [Pids -> 0..(MaxForks + 1)] /\ ppid' \in [Pids -> 0..MaxPid]
        /\ uid' \in [Pids -> Uids] /\ files' \in [Pids -> SUBSET Descriptors]
        /\ births' \in Nat /\ births =< births' /\ ended' \subseteq Pids
        /\ closed' \in BOOLEAN /\ reused' \in BOOLEAN
        /\ \A p \in Pids : born'[p] =< births' + 1
    BY <1>0, <1>3, OthersDo
  <2>3. opened' \in 0..(births' + 1)
    <3>1. opened' = opened
      BY <2>1
    <3>2. births' \in Nat /\ births =< births'
      BY <2>2
    <3>3. births \in Nat /\ opened \in 0..(births + 1)
      BY <1>0
    <3>4. \A a, b \in Nat : a =< b => \A x \in 0..(a + 1) : x \in 0..(b + 1)
      OBVIOUS
    <3> QED BY <3>1, <3>2, <3>3, <3>4
  <2> QED BY <1>0, <1>1, <1>2, <2>1, <2>2, <2>3 DEF ScanTypes, ScanTypeOK
<1>4. CASE Own
  <2>1. UNCHANGED <<lister, nofile, status_fd, born, ppid, uid, files, births, ended, closed, reused>>
    BY <1>4, OwnDoes
  <2>2. rest' \subseteq Entries /\ last' \in -2..MaxPid /\ entry' \in Entries
    <3>1. CASE Getdents
      <4>1. last' \in Entries /\ rest' \subseteq Entries /\ entry' = entry
        BY <1>0, <3>1, Blocks DEF Getdents
      <4>2. last' \in -2..MaxPid
        <5>1. MaxPid \in Nat
          BY ScanConstants
        <5> QED BY <4>1, <5>1 DEF Entries
      <4> QED BY <1>0, <4>1, <4>2
    <3>2. CASE Readdir
      <4>1. rest # {} /\ entry' = Min(rest) /\ rest' = rest \ {entry'} /\ last' = last
        BY <3>2 DEF Readdir
      <4>2. entry' \in rest
        BY <1>0, <4>1, FirstLast
      <4> QED BY <1>0, <4>1, <4>2
    <3>3. CASE ~(Getdents \/ Readdir)
      <4>1. UNCHANGED <<rest, last, entry>>
        BY <1>4, <3>3 DEF Own, EndOfDir, Closedir, Fopen, Fgets, WriteAndClose, OpenStatus,
           ReadStatus, BuildAndPrint, OpendirFd, ReaddirFd, Readlink, ReadAndPrint, CloseBoth, directory
      <4> QED BY <1>0, <4>1
    <3> QED BY <3>1, <3>2, <3>3
  <2>3. opened' \in 0..(births' + 1)
    <3>1. opened' = opened \/ opened' = born[Target(entry)]
      BY <1>4 DEF Own, Getdents, EndOfDir, Readdir, Closedir, Fopen, Fgets, WriteAndClose,
         OpenStatus, ReadStatus, BuildAndPrint, OpendirFd, ReaddirFd, Readlink, ReadAndPrint, CloseBoth
    <3>2. born[Target(entry)] \in Nat /\ born[Target(entry)] =< births + 1
      BY <1>0, <1>t, ScanAssumption
    <3> QED BY <1>0, <2>1, <3>1, <3>2
  <2>4. left' \subseteq Descriptors
    <3>1. CASE ReaddirFd
      BY <1>0, <1>t, <3>1 DEF ReaddirFd
    <3>2. CASE Readlink
      BY <1>0, <3>2 DEF Readlink
    <3>3. CASE ~(ReaddirFd \/ Readlink)
      <4>1. UNCHANGED left
        BY <1>4, <3>3 DEF Own, Getdents, EndOfDir, Readdir, Closedir, Fopen, Fgets, WriteAndClose,
           OpenStatus, ReadStatus, BuildAndPrint, OpendirFd, ReadAndPrint, CloseBoth
      <4> QED BY <1>0, <4>1
    <3> QED BY <3>1, <3>2, <3>3
  <2>5. fds' \in [Fds -> Uses]
    <3>1. CASE TakeFd("status") \/ TakeFd("fd")
      BY <1>0, <3>1, Taken
    <3>2. CASE WriteAndClose
      <4>1. fds' = fds \/ fds' = [fds EXCEPT ![status_fd] = "free"]
        BY <3>2 DEF WriteAndClose
      <4> QED BY <1>0, <4>1
    <3>3. CASE CloseBoth
      <4>1. fds' = [f \in Fds |-> IF fds[f] \in {"status", "fd"} THEN "free" ELSE fds[f]]
        BY <3>3 DEF CloseBoth
      <4> QED BY <1>0, <4>1
    <3>4. CASE ~(WriteAndClose \/ CloseBoth \/ TakeFd("status") \/ TakeFd("fd"))
      <4>1. UNCHANGED fds
        BY <1>4, <3>4 DEF Own, Getdents, EndOfDir, Readdir, Closedir, Fopen, Fgets,
           OpenStatus, ReadStatus, BuildAndPrint, OpendirFd, ReaddirFd, Readlink, ReadAndPrint, descriptors
      <4> QED BY <1>0, <4>1
    <3> QED BY <3>1, <3>2, <3>3, <3>4
  <2>6. full' \in BOOLEAN
    <3>1. full' = full \/ full' = TRUE \/ full' = (full \/ FreeFds = {})
      BY <1>4 DEF Own, Getdents, EndOfDir, Readdir, Closedir, Fopen, Fgets, WriteAndClose,
         OpenStatus, ReadStatus, BuildAndPrint, OpendirFd, ReaddirFd, Readlink, ReadAndPrint, CloseBoth,
         descriptors
    <3> QED BY <1>0, <3>1
  <2>7. shown' \subseteq Entries
    <3>1. CASE BuildAndPrint
      <4>1. shown' = {list_root[i].entry : i \in Printed}
        BY <3>1 DEF BuildAndPrint
      <4>2. Printed \subseteq DOMAIN list_root
        BY DEF Printed
      <4>3. \A i \in DOMAIN list_root : list_root[i] \in Node
        BY <1>0
      <4>4. \A i \in DOMAIN list_root : list_root[i].entry \in Entries
        BY <4>3 DEF Node
      <4> QED BY <4>1, <4>2, <4>4
    <3>2. CASE ~BuildAndPrint
      <4>1. shown' = shown \/ shown' = shown \union {entry}
        BY <1>4, <3>2 DEF Own, Getdents, EndOfDir, Readdir, Closedir, Fopen, Fgets, WriteAndClose,
           OpenStatus, ReadStatus, OpendirFd, ReaddirFd, Readlink, ReadAndPrint, CloseBoth
      <4> QED BY <1>0, <4>1
    <3> QED BY <3>1, <3>2
  <2> QED BY <1>0, <1>1, <1>2, <2>1, <2>2, <2>3, <2>4, <2>5, <2>6, <2>7 DEF ScanTypes, ScanTypeOK
<1>5. CASE UNCHANGED scanVars
  BY <1>0, <1>5 DEF scanVars, processes, directory, descriptors, ScanTypes, ScanTypeOK
<1> QED BY <1>3, <1>4, <1>5 DEF ScanNext, Others, Own

\* Initially nothing has been read.
LEMMA ScanInitInv == ScanInit => ScanInv
<1> SUFFICES ASSUME ScanInit PROVE ScanInv
  OBVIOUS
<1>0. /\ births = 0 /\ ended = {} /\ closed = FALSE /\ reused = FALSE /\ full = FALSE
      /\ rest = {} /\ last = -2 /\ entry = -1 /\ opened = 0 /\ left = {}
      /\ fds = [f \in Fds |-> IF f =< 2 THEN "std" ELSE IF f = 3 THEN "proc" ELSE "free"]
      /\ list_root = <<>> /\ shown = {}
  BY DEF ScanInit, NothingRead
<1>1. /\ lister \in {"12_1", "12_2", "12_3"} /\ next = "readdir"
      /\ born \in [Pids -> {0, 1}] /\ born[1] = 1 /\ born[Me] = 1
      /\ ppid \in [Pids -> 0..MaxPid] /\ ppid[1] = 0
      /\ \A p \in Pids \ {1} :
           \/ ppid[p] = 1
           \/ ppid[p] \in Pids \ {1, p} /\ Lives(ppid[p]) /\ ppid[ppid[p]] = 1
      /\ nofile \in Limits /\ (lister = "12_3" => nofile = Max(Limits))
      /\ status_fd \in {-1} \union Fds
  BY ScanConstants DEF ScanInit
<1>c. /\ MaxPid \in Nat /\ MaxForks \in Nat /\ 1 \in Pids /\ Fds \subseteq Nat
      /\ 0 \in Fds /\ 1 \in Fds /\ 2 \in Fds /\ 3 \in Fds
  BY ScanConstants, ScanAssumption
<1>e. Past = {}
  <2> SUFFICES ASSUME NEW e \in Entries, e =< last PROVE FALSE
    BY DEF Past
  <2>1. e >= -1
    BY <1>c DEF Entries
  <2>2. e \in Int
    BY <1>c DEF Entries
  <2> QED BY <1>0, <2>1, <2>2
<1>2. ScanTypes
  <2>1. uid \in [Pids -> Uids]
    BY DEF ScanInit, Uids
  <2>2. files \in [Pids -> SUBSET Descriptors]
    BY DEF ScanInit
  <2>3. born \in [Pids -> 0..(MaxForks + 1)] /\ \A p \in Pids : born[p] =< births + 1
    <3>1. 0 \in 0..(MaxForks + 1) /\ 1 \in 0..(MaxForks + 1)
      BY <1>c
    <3>2. births + 1 = 1
      BY <1>0
    <3>3. \A p \in Pids : born[p] = 0 \/ born[p] = 1
      BY <1>1
    <3>4. \A p \in Pids : born[p] =< births + 1
      BY <3>2, <3>3
    <3> QED BY <1>1, <3>1, <3>4
  <2>4. fds \in [Fds -> {"free", "std", "proc", "status", "fd"}]
    BY <1>0
  <2>5. entry \in Entries /\ last \in -2..MaxPid /\ opened \in 0..(births + 1)
    BY <1>0, <1>c DEF Entries
  <2>6. list_root \in Seq(Node) /\ Len(list_root) =< MaxPid + 2
    BY <1>0, <1>c
  <2> QED BY <1>0, <1>1, <2>1, <2>2, <2>3, <2>4, <2>5, <2>6 DEF ScanTypes, ScanTypeOK
<1>3. ScanCalls
  BY <1>1 DEF ScanCalls
<1>4. Kernel
  BY <1>1, <1>c DEF Kernel, Lives
<1>5. Reading
  BY <1>0, <1>1 DEF Reading, UnderWay
<1>6. OpenedRight
  BY <1>1 DEF OpenedRight, Looking
<1>7. Table
  <2>1. \A f \in {0, 1, 2, 3} : fds[f] = IF f = 3 THEN "proc" ELSE "std"
    BY <1>0, <1>c
  <2>2. \A f \in Fds : f > 3 => fds[f] = "free"
    BY <1>0, <1>c
  <2> QED BY <1>1, <2>1, <2>2 DEF Table
<1>8. UserShown /\ FileShown
  BY <1>0, <1>1, <1>e DEF UserShown, FileShown
<1>9. DOMAIN list_root = {}
  BY <1>0
<1>10. Nodes
  BY <1>9, <1>e DEF Nodes, ListedEntries
<1>11. Ranked
  <2> DEFINE rank == [p \in Pids |-> IF p = 1 THEN 0 ELSE IF ppid[p] = 1 THEN 1 ELSE 2]
  <2>1. rank \in [Pids -> Nat] /\ rank[1] = 0
    BY <1>c
  <2>2. ASSUME NEW p \in Pids \ {1} PROVE rank[ppid[p]] < rank[p]
    <3>1. CASE ppid[p] = 1
      <4>1. rank[p] = 1
        BY <3>1
      <4> QED BY <2>1, <3>1, <4>1
    <3>2. CASE ppid[p] # 1
      <4>1. ppid[p] \in Pids \ {1} /\ ppid[ppid[p]] = 1
        BY <1>1, <3>2
      <4>2. rank[p] = 2 /\ rank[ppid[p]] = 1
        BY <3>2, <4>1
      <4> QED BY <4>2
    <3> QED BY <3>1, <3>2
  <2>3. Ranks(rank)
    BY <1>9, <2>1, <2>2 DEF Ranks
  <2> HIDE DEF rank
  <2> QED BY <2>1, <2>3 DEF Ranked
<1>12. ShowsAll /\ FailsExplained
  BY <1>1 DEF ShowsAll, FailsExplained
<1> QED BY <1>2, <1>3, <1>4, <1>5, <1>6, <1>7, <1>8, <1>10, <1>11, <1>12 DEF ScanInv

\* Every step of a scan and of the others keeps the invariant.
LEMMA ScanStep == ScanInv /\ [ScanNext]_scanVars => ScanInv'
<1> SUFFICES ASSUME ScanInv, [ScanNext]_scanVars PROVE ScanInv'
  OBVIOUS
<1>0. ScanTypes /\ ScanCalls /\ Kernel /\ Reading /\ OpenedRight /\ Table
  BY DEF ScanInv
<1>1. ScanTypes' /\ ScanCalls' /\ Kernel' /\ Reading' /\ OpenedRight' /\ Table'
  BY <1>0, ScanTypesStep, ScanCallsStep, KernelStep, ReadingStep, OpenedStep, TableStep
<1>2. UserShown' /\ FileShown' /\ Nodes' /\ Ranked' /\ ShowsAll' /\ FailsExplained'
  BY UserShownStep, FileShownStep, NodesStep, RankedStep, ShowsAllStep, FailsStep
<1> QED BY <1>1, <1>2 DEF ScanInv

\* A scan of /proc that ends well shows all that stays the whole time, 12_1 but for
\* what its descriptors cost it, 12_2 unless a pid is reused; one that fails has met
\* a process that ends or closes a file, or one of the faults of the code.
THEOREM ScanShows == ScanSpec => []ScanExplained
<1>1. ScanInv => ScanExplained
  BY DEF ScanInv, ScanTypes, ScanExplained
<1> QED BY <1>1, ScanInitInv, ScanStep, PTL DEF ScanSpec

\* A program that does not run stays as it is.
LEMMA IdleInv ==
    /\ TailIdle => TailInv
    /\ ScanIdle => ScanExplained
    /\ ScanIdle /\ [ScanNext]_scanVars => ScanIdle'
<1>1. ASSUME TailIdle PROVE TailInv
  <2>1. /\ file_size = 0 /\ file = <<>> /\ lines = 0 /\ pos = 0 /\ seek_size = 0
        /\ line_count = 0 /\ offset = 0 /\ step = "done" /\ start = 0
        /\ skipped = FALSE /\ overlap = FALSE
    BY <1>1 DEF TailIdle
  <2>2. TailTypeOK
    <3>1. MaxSize \in Nat /\ MaxLines \in Nat /\ BUF_SIZE \in Nat \ {0}
      BY TailAssumption
    <3>2. 0..(file_size - 1) = {} /\ file \in [{} -> {"newline", "other"}]
      BY <2>1
    <3>3. Smaller(BUF_SIZE, file_size) = 0
      BY <2>1, <3>1 DEF Smaller
    <3>4. file \in [0..(file_size - 1) -> {"newline", "other"}]
      BY <3>2
    <3>5. /\ file_size \in 0..MaxSize /\ lines \in 0..MaxLines /\ pos \in 0..file_size
          /\ seek_size \in 0..Smaller(BUF_SIZE, file_size) /\ line_count \in 0..lines
          /\ offset \in 0..TooFar /\ start \in 0..file_size
      BY <2>1, <3>1, <3>3 DEF TooFar
    <3> QED BY <2>1, <3>4, <3>5 DEF TailTypeOK
  <2>3. LastLines = 0
    <3>1. AllNewlines = {}
      BY <2>1 DEF AllNewlines
    <3>2. Cardinality(AllNewlines) = 0
      BY <3>1, FS_EmptySet
    <3> QED BY <2>1, <3>2 DEF LastLines
  <2> QED BY <2>1, <2>2, <2>3 DEF TailInv, Counting, Located, Shown
<1>2. ASSUME ScanIdle PROVE ScanExplained
  <2>1. /\ lister = "none" /\ next = "done"
        /\ born = [p \in Pids |-> 0] /\ ppid = [p \in Pids |-> 0]
        /\ uid = [p \in Pids |-> "root"] /\ files = [p \in Pids |-> {}]
        /\ rest = {} /\ entry = -1 /\ left = {} /\ list_root = <<>> /\ shown = {}
        /\ fds = [f \in Fds |-> IF f =< 2 THEN "std" ELSE IF f = 3 THEN "proc" ELSE "free"]
    BY <1>2 DEF ScanIdle, NothingRead
  <2>2. MaxPid \in Nat /\ MaxForks \in Nat /\ 0 \in 0..(MaxForks + 1) /\ 0 \in 0..MaxPid
    BY ScanAssumption
  <2>3. born \in [Pids -> 0..(MaxForks + 1)] /\ ppid \in [Pids -> 0..MaxPid]
    BY <2>1, <2>2
  <2>4. uid \in [Pids -> Uids] /\ files \in [Pids -> SUBSET Descriptors]
    BY <2>1 DEF Uids
  <2>5. fds \in [Fds -> {"free", "std", "proc", "status", "fd"}]
    BY <2>1
  <2>6. entry \in Entries /\ Len(list_root) =< MaxPid + 2
    BY <2>1, <2>2 DEF Entries
  <2> QED BY <2>1, <2>3, <2>4, <2>5, <2>6 DEF ScanExplained, ScanTypeOK, ShowsAll, FailsExplained
<1>3. ASSUME ScanIdle, [ScanNext]_scanVars PROVE ScanIdle'
  <2>1. next = "done"
    BY <1>3 DEF ScanIdle
  <2>2. CASE ScanNext
    BY <2>1, <2>2 DEF ScanNext, ForkProcess, EndProcess, CloseFile, Scanning, Getdents, EndOfDir,
       Readdir, Closedir, Fopen, Fgets, WriteAndClose, OpenStatus, ReadStatus, BuildAndPrint,
       OpendirFd, ReaddirFd, Readlink, ReadAndPrint, CloseBoth
  <2>3. CASE UNCHANGED scanVars
    BY <1>3, <2>3 DEF scanVars, processes, directory, descriptors, ScanIdle, NothingRead
  <2> QED BY <1>3, <2>2, <2>3
<1> QED BY <1>1, <1>2, <1>3

\* Both, of the specification with either program.
THEOREM ProgramsRight == ProgramsSpec => [](RightWithoutOverlap /\ ScanExplained)
<1> DEFINE Inv == TailInv /\ (ScanInv \/ ScanIdle)
<1>1. ProgramsInit => Inv
  BY IdleInv, TailInitInv, ScanInitInv DEF ProgramsInit
<1>2. Inv /\ [ProgramsNext]_<<tailVars, scanVars>> => Inv'
  <2> SUFFICES ASSUME Inv, [ProgramsNext]_<<tailVars, scanVars>> PROVE Inv'
    OBVIOUS
  <2>1. [TailNext]_tailVars /\ [ScanNext]_scanVars
    BY DEF ProgramsNext
  <2> QED BY <2>1, IdleInv, TailStep, ScanStep
<1>3. Inv => RightWithoutOverlap /\ ScanExplained
  <2>1. TailInv => RightWithoutOverlap
    BY DEF TailInv, Shown, RightWithoutOverlap
  <2>2. ScanInv => ScanExplained
    BY DEF ScanInv, ScanTypes, ScanExplained
  <2> QED BY <2>1, <2>2, IdleInv
<1> QED BY <1>1, <1>2, <1>3, PTL DEF ProgramsSpec
=============================================================================
