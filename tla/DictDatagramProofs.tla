------------------------ MODULE DictDatagramProofs ------------------------
(***************************************************************************)
(* Proofs about BinaryLookup and DictDatagram: powers of two, which bound   *)
(* the window of the search, then the search by itself, then the search as  *)
(* the steps of the server between its clients.  For tables of any size,    *)
(* any limit, any clients and any socket buffer.                            *)
(***************************************************************************)
EXTENDS DictDatagram, TLAPS, FiniteSetTheorems

\* 2^n counts the subsets of a set of n elements: a positive number.
LEMMA PowerPositive ==
    ASSUME NEW n \in Nat
    PROVE  2^n \in Nat /\ 2^n >= 1
<1>1. IsFiniteSet(1..n) /\ Cardinality(1..n) = n
  BY FS_Interval
<1> DEFINE S == SUBSET (1..n)
<1>2. IsFiniteSet(S) /\ Cardinality(S) = 2^n
  BY <1>1, FS_SUBSET
<1>3. S # {}
  OBVIOUS
<1>4. Cardinality(S) \in Nat /\ Cardinality(S) # 0
  BY <1>2, <1>3, FS_CardinalityType, FS_EmptySet
<1> HIDE DEF S
<1> QED BY <1>2, <1>4

\* Half of the subsets of 1..(n+1) hold n+1.
LEMMA PowerDoubles ==
    ASSUME NEW n \in Nat
    PROVE  2^(n + 1) = 2^n + 2^n
<1> DEFINE S == SUBSET (1..n)
           T == SUBSET (1..(n + 1))
           U == {x \union {n + 1} : x \in S}
           f == [x \in S |-> x \union {n + 1}]
<1>1. IsFiniteSet(S) /\ Cardinality(S) = 2^n
  <2>1. IsFiniteSet(1..n) /\ Cardinality(1..n) = n
    BY FS_Interval
  <2> QED BY <2>1, FS_SUBSET
<1>2. Cardinality(T) = 2^(n + 1)
  <2>1. IsFiniteSet(1..(n + 1)) /\ Cardinality(1..(n + 1)) = n + 1
    BY FS_Interval
  <2> QED BY <2>1, FS_SUBSET
<1>3. \A x \in S : n + 1 \notin x
  OBVIOUS
<1>4. T = S \union U
  <2>1. ASSUME NEW x \in T PROVE x \in S \union U
    <3>1. CASE n + 1 \in x
      <4>1. x \ {n + 1} \in S /\ x = (x \ {n + 1}) \union {n + 1}
        BY <3>1
      <4> QED BY <4>1
    <3>2. CASE n + 1 \notin x
      BY <3>2
    <3> QED BY <3>1, <3>2
  <2>2. ASSUME NEW x \in S PROVE x \in T /\ x \union {n + 1} \in T
    <3>1. 1..n \subseteq 1..(n + 1) /\ n + 1 \in 1..(n + 1)
      OBVIOUS
    <3> QED BY <3>1
  <2>3. T \subseteq S \union U
    BY <2>1
  <2>4. S \subseteq T /\ U \subseteq T
    BY <2>2, ZenonT(60)
  <2> HIDE DEF S, T, U
  <2> QED BY <2>3, <2>4
<1>5. S \intersect U = {}
  BY <1>3
<1>6. f \in Bijection(S, U)
  <2>1. f \in [S -> U]
    OBVIOUS
  <2>2. ASSUME NEW x \in S, NEW y \in S, f[x] = f[y] PROVE x = y
    <3>1. x \union {n + 1} = y \union {n + 1}
      BY <2>2
    <3>2. n + 1 \notin x /\ n + 1 \notin y
      BY <1>3
    <3> HIDE DEF S, f
    <3> QED BY <3>1, <3>2
  <2>3. \A u \in U : \E x \in S : f[x] = u
    OBVIOUS
  <2> HIDE DEF S, U, f
  <2> QED BY <2>1, <2>2, <2>3 DEF Bijection, Injection, Surjection, IsInjective
<1>7. IsFiniteSet(U) /\ Cardinality(U) = Cardinality(S)
  BY <1>1, <1>6, FS_Bijection DEF ExistsBijection
<1>8. Cardinality(T) = Cardinality(S) + Cardinality(U) - Cardinality(S \intersect U)
  BY <1>1, <1>4, <1>7, FS_Union
<1>9. Cardinality(S \intersect U) = 0 /\ Cardinality(S) \in Nat
  BY <1>1, <1>5, FS_EmptySet, FS_CardinalityType
<1> HIDE DEF S, T, U
<1> QED BY <1>1, <1>2, <1>7, <1>8, <1>9
-----------------------------------------------------------------------------
(* The search *)

\* A search that goes on has found nothing yet and has iterations left.
Running == ~done => found = None /\ cnt < Limit

\* Every iteration halves the window, but for the record it may keep too many.
Halved == (end - start - 1) * 2^cnt =< numrec - 1

\* A word of the table is missed only when the limit is too small for the table.
Complete == done /\ found = None /\ Present => ~EnoughLimit

LookupInv == LookupTypeOK /\ InOrder /\ WindowHolds /\ NeverWrong /\ Running /\ Halved /\ Complete

\* Where the window is not empty, mid is inside it.
LEMMA MidInside ==
    ASSUME NEW s \in Nat, NEW e \in Nat, s < e
    PROVE  (e - s) \div 2 + s \in s..(e - 1)
  OBVIOUS

\* The whole table is the window, and nothing is found yet.
LEMMA InitLookup == LookupInit => LookupInv
<1> SUFFICES ASSUME LookupInit PROVE LookupInv
  OBVIOUS
<1>1. numrec \in Nat /\ start = 0 /\ end = numrec /\ cnt = 0 /\ found = None /\ ~done
      /\ Limit \in Nat \ {0} /\ numrec \in 0..MaxRec
  BY LookupAssumption DEF LookupInit
<1>2. start # end => Mid \in start..(end - 1)
  BY <1>1, MidInside DEF Mid
<1>6. Halved /\ Complete
  <2>1. 2^0 = 1
    OBVIOUS
  <2> QED BY <1>1, <2>1 DEF Halved, Complete
<1>3. LookupTypeOK
  <2>1. done \in BOOLEAN /\ table \in [Records -> Words] /\ sought \in Words
    BY DEF LookupInit
  <2> QED BY <1>1, <1>2, <2>1 DEF LookupTypeOK
<1>4. WindowHolds /\ NeverWrong /\ Running
  BY <1>1 DEF WindowHolds, NeverWrong, Running, Records, None
<1> QED BY <1>3, <1>6, <1>4 DEF LookupInv, LookupInit

\* The facts about a search under way that each step needs.
LEMMA UnderWay ==
    ASSUME LookupInv, ~done
    PROVE  /\ numrec \in Nat /\ start \in Nat /\ end \in 0..numrec /\ start =< end
           /\ cnt \in Nat /\ Limit \in Nat /\ cnt < Limit /\ found = None
           /\ sought \in Nat /\ \A k \in Records : k \in Int /\ table[k] \in Nat
           /\ start # end => Mid \in start..(end - 1) /\ Mid \in Records
<1>1. /\ numrec \in Nat /\ start \in Nat /\ end \in 0..numrec /\ start =< end
      /\ cnt \in Nat /\ Limit \in Nat /\ table \in [Records -> Words]
      /\ Words \subseteq Nat /\ sought \in Words
      /\ start # end => Mid \in start..(end - 1)
  BY LookupAssumption DEF LookupInv, LookupTypeOK
<1>2. cnt < Limit /\ found = None
  BY DEF LookupInv, Running
<1>3. start # end => Mid \in Records
  BY <1>1 DEF Records
<1>4. sought \in Nat /\ \A k \in Records : k \in Int /\ table[k] \in Nat
  <2>1. \A k \in Records : table[k] \in Words
    BY <1>1
  <2>2. \A k \in Records : k \in Int
    BY <1>1 DEF Records
  <2> QED BY <1>1, <2>1, <2>2
<1> QED BY <1>1, <1>2, <1>3, <1>4

\* A new call starts as the first one did.
LEMMA BeginStep ==
    ASSUME LookupInv, NEW w \in Words, Begin(w)
    PROVE  LookupInv'
<1>1. /\ start' = 0 /\ end' = numrec /\ cnt' = 0 /\ found' = None /\ done' = FALSE
      /\ sought' = w /\ numrec' = numrec /\ table' = table
  BY DEF Begin
<1>2. numrec \in 0..MaxRec /\ numrec \in Nat /\ table \in [Records -> Words]
  BY LookupAssumption DEF LookupInv, LookupTypeOK
<1>3. Records' = Records /\ None' = None
  BY <1>1 DEF Records, None
<1>4. start' # end' => Mid' \in start'..(end' - 1)
  BY <1>1, <1>2, MidInside DEF Mid
<1>5. LookupTypeOK'
  <2>1. numrec' \in 0..MaxRec /\ table' \in [Records' -> Words] /\ sought' \in Words
    BY <1>1, <1>2, <1>3
  <2>2. start' \in Nat /\ end' \in 0..numrec' /\ start' =< end'
    BY <1>1, <1>2
  <2>3. cnt' \in 0..Limit
    BY <1>1, LookupAssumption
  <2>4. found' \in Records' \union {None'} /\ done' \in BOOLEAN
    BY <1>1, <1>3
  <2> QED BY <2>1, <2>2, <2>3, <2>4, <1>4 DEF LookupTypeOK
<1>6. WindowHolds'
  BY <1>1, <1>2, <1>3 DEF WindowHolds, Records
<1>7. NeverWrong'
  BY <1>1, <1>3 DEF NeverWrong
<1>8. Running'
  BY <1>1, <1>3, LookupAssumption DEF Running
<1>9. InOrder'
  BY <1>1, <1>3 DEF LookupInv, InOrder
<1>10. Halved' /\ Complete'
  <2>1. 2^0 = 1
    OBVIOUS
  <2> QED BY <1>1, <1>2, <2>1 DEF Halved, Complete
<1> QED BY <1>5, <1>6, <1>7, <1>8, <1>9, <1>10 DEF LookupInv

\* What one iteration leaves of a window of more than one record, and the power
\* of two that goes with it.
LEMMA HalvedOnce ==
    ASSUME NEW w \in Int, NEW v \in Int, NEW n \in Nat, NEW m \in Int,
           w * 2^n =< m, 2 * v =< w
    PROVE  v * 2^(n + 1) =< m
<1> DEFINE q == 2^n
<1>1. q \in Nat /\ q >= 1 /\ 2^(n + 1) = q + q
  BY PowerPositive, PowerDoubles
<1>2. w * q =< m
  OBVIOUS
<1> HIDE DEF q
<1>3. (2 * v) * q =< w * q
  BY <1>1
<1>4. v * (q + q) = (2 * v) * q
  BY <1>1
<1>5. v * (q + q) \in Int /\ (2 * v) * q \in Int /\ w * q \in Int
  BY <1>1
<1> QED BY <1>1, <1>2, <1>3, <1>4, <1>5

\* At the last iteration a table that the limit is enough for leaves a window of
\* at most one record.
LEMMA LastWindow ==
    ASSUME LookupInv, ~done, EnoughLimit, cnt = Limit - 1
    PROVE  end - start =< 1
<1> DEFINE q == 2^cnt
           w == end - start - 1
<1>1. /\ numrec \in Nat /\ start \in Nat /\ end \in Nat /\ start =< end /\ cnt \in Nat
      /\ cnt < Limit /\ Limit \in Nat
  BY UnderWay
<1>2. q \in Nat /\ q >= 1 /\ w \in Int
  BY <1>1, PowerPositive
<1>3. numrec =< q /\ w * q =< numrec - 1
  BY <1>1 DEF EnoughLimit, LookupInv, Halved
<1>4. w < 1
  <2> HIDE DEF w, q
  <2> SUFFICES ASSUME w >= 1 PROVE FALSE
    BY <1>2
  <2>1. w * q >= q
    BY <1>2
  <2> QED BY <1>1, <1>2, <1>3, <2>1
<1> QED BY <1>1, <1>4

\* One side of the window holds no record with the word, as the table is sorted.
LEMMA NarrowStep == LookupInv /\ Narrow => LookupInv'
<1> SUFFICES ASSUME LookupInv, Narrow PROVE LookupInv'
  OBVIOUS
<1>1. ~done /\ start # end /\ table[Mid] # sought
  BY DEF Narrow
<1>2. /\ Records' = Records /\ table' = table /\ sought' = sought
      /\ numrec' = numrec /\ found' = found /\ None' = None
  BY DEF Narrow, Records, None
<1>3. \/ start' = Mid /\ end' = end /\ table[Mid] < sought
      \/ start' = start /\ end' = Mid /\ table[Mid] > sought
  BY <1>1, UnderWay DEF Narrow
<1>4. start' \in Nat /\ end' \in 0..numrec /\ start' =< end'
  BY <1>1, <1>3, UnderWay
<1>5. start' \in Nat /\ end' \in Nat /\ end' =< numrec
  BY <1>1, <1>3, UnderWay
<1>6. cnt' = cnt + 1 /\ done' = (cnt' = Limit) /\ cnt' \in 0..Limit
  BY <1>1, UnderWay DEF Narrow
<1>7. start' # end' => Mid' \in start'..(end' - 1)
  <2>1. start' # end' => start' < end'
    BY <1>4, <1>5
  <2> QED BY <1>4, <1>5, <2>1, MidInside DEF Mid
<1>8. LookupTypeOK'
  BY <1>2, <1>4, <1>5, <1>6, <1>7, UnderWay, <1>1 DEF LookupTypeOK, LookupInv
<1>9. InOrder'
  BY <1>2 DEF InOrder, LookupInv
<1>10. WindowHolds'
  <2> SUFFICES ASSUME NEW k \in Records, table[k] = sought
               PROVE  k \in start'..(end' - 1)
    BY <1>2 DEF WindowHolds
  <2>1. k \in start..(end - 1)
    BY <1>1, UnderWay DEF LookupInv, WindowHolds
  <2>2. Mid \in Records /\ (k =< Mid => table[k] =< table[Mid])
                        /\ (Mid =< k => table[Mid] =< table[k])
    BY <1>1, UnderWay DEF LookupInv, InOrder
  <2> QED BY <1>1, <1>3, <2>1, <2>2, UnderWay
<1>11. NeverWrong'
  BY <1>1, <1>2, <1>6, UnderWay DEF NeverWrong, None
<1>12. Running'
  <2>1. ~done' => cnt' # Limit
    BY <1>6
  <2>2. cnt' # Limit => cnt' < Limit
    BY <1>1, <1>6, UnderWay
  <2>3. found' = None' /\ Limit' = Limit
    BY <1>1, <1>2, UnderWay
  <2> QED BY <2>1, <2>2, <2>3 DEF Running
<1>13. Halved'
  <2>1. /\ end - start - 1 \in Int /\ end' - start' - 1 \in Int
        /\ 2 * (end' - start' - 1) =< end - start - 1
    BY <1>1, <1>3, UnderWay DEF Mid
  <2>2. (end - start - 1) * 2^cnt =< numrec - 1
    BY DEF LookupInv, Halved
  <2>3. (end' - start' - 1) * 2^(cnt + 1) =< numrec - 1
    <3> DEFINE w == end - start - 1
               v == end' - start' - 1
    <3>1. w \in Int /\ v \in Int /\ 2 * v =< w /\ cnt \in Nat /\ numrec - 1 \in Int
      BY <1>1, <2>1, UnderWay
    <3>2. w * 2^cnt =< numrec - 1
      BY <2>2
    <3> HIDE DEF w, v
    <3>3. v * 2^(cnt + 1) =< numrec - 1
      BY <3>1, <3>2, HalvedOnce
    <3> QED BY <3>3 DEF v
  <2> QED BY <1>2, <1>6, <2>3 DEF Halved
<1>14. Complete'
  <2> SUFFICES ASSUME done', Present, EnoughLimit PROVE FALSE
    BY <1>2 DEF Complete, Present, EnoughLimit
  <2>1. cnt = Limit - 1
    <3>1. cnt + 1 = Limit /\ cnt \in Nat /\ Limit \in Nat
      BY <1>1, <1>6, UnderWay
    <3> QED BY <3>1
  <2>2. end - start =< 1
    BY <1>1, <2>1, LastWindow
  <2>3. PICK k \in Records : table[k] = sought
    BY DEF Present
  <2>4. k \in start..(end - 1)
    BY <1>1, <2>3, UnderWay DEF LookupInv, WindowHolds
  <2>5. k = Mid
    BY <1>1, <2>2, <2>4, UnderWay
  <2> QED BY <1>1, <2>3, <2>5
<1> QED BY <1>8, <1>9, <1>10, <1>11, <1>12, <1>13, <1>14 DEF LookupInv

\* The record found is inside the table.
LEMMA HitStep == LookupInv /\ Hit => LookupInv'
<1> SUFFICES ASSUME LookupInv, Hit PROVE LookupInv'
  OBVIOUS
<1>1. ~done /\ start # end /\ table[Mid] = sought /\ found' = Mid /\ done'
  BY DEF Hit
<1>2. UNCHANGED <<numrec, table, sought, start, end, cnt, Records, None, Mid>>
  BY DEF Hit, Records, None, Mid
<1>3. Mid \in Records /\ Mid # None
  BY <1>1, UnderWay DEF None
<1>4. LookupTypeOK'
  BY <1>1, <1>2, <1>3 DEF LookupTypeOK, LookupInv
<1>5. WindowHolds' /\ NeverWrong' /\ Running'
  BY <1>1, <1>2, <1>3 DEF WindowHolds, NeverWrong, Running
<1>6. Halved' /\ Complete'
  BY <1>1, <1>2, <1>3 DEF LookupInv, Halved, Complete
<1> QED BY <1>2, <1>4, <1>5, <1>6 DEF LookupInv, InOrder

\* An empty window holds no record with the word.
LEMMA ExhaustedStep == LookupInv /\ Exhausted => LookupInv'
<1> SUFFICES ASSUME LookupInv, Exhausted PROVE LookupInv'
  OBVIOUS
<1>1. ~done /\ start = end /\ done'
  BY DEF Exhausted
<1>2. UNCHANGED <<numrec, table, sought, start, end, cnt, found, Records, None, Mid>>
  BY DEF Exhausted, Records, None, Mid
<1>3. ~Present
  BY <1>1, UnderWay DEF Present, LookupInv, WindowHolds
<1>4. LookupTypeOK'
  BY <1>1, <1>2 DEF LookupTypeOK, LookupInv
<1>5. WindowHolds' /\ NeverWrong' /\ Running'
  BY <1>1, <1>2, <1>3, UnderWay DEF LookupInv, WindowHolds, NeverWrong, Running, Present
<1>6. Halved' /\ Complete'
  BY <1>1, <1>2, <1>3 DEF LookupInv, Halved, Complete, Present
<1> QED BY <1>2, <1>4, <1>5, <1>6 DEF LookupInv, InOrder

\* LookupInv holds after any calls of lookup5, one after the other.
THEOREM LookupInvariance == LookupSpec => []LookupInv
<1>1. LookupInv /\ [LookupNext]_lookupVars => LookupInv'
  <2> SUFFICES ASSUME LookupInv, [LookupNext]_lookupVars PROVE LookupInv'
    OBVIOUS
  <2>1. CASE LookupNext
    BY <2>1, NarrowStep, HitStep, ExhaustedStep, BeginStep DEF LookupNext, SearchStep
  <2>2. CASE UNCHANGED lookupVars
    BY <2>2 DEF lookupVars, LookupInv, LookupTypeOK, InOrder, WindowHolds, NeverWrong, Running,
                Records, Mid, Present, None, Halved, Complete, EnoughLimit
  <2> QED BY <2>1, <2>2
<1> QED BY InitLookup, <1>1, PTL DEF LookupSpec

\* The window stays inside the table and mid inside the window, so the search
\* (lookup5.c 58-71) reads no record the file does not have.
THEOREM TypeCorrect == LookupSpec => []LookupTypeOK
<1>1. LookupInv => LookupTypeOK
  BY DEF LookupInv
<1> QED BY LookupInvariance, <1>1, PTL

\* The word is never narrowed away, in a table of any size.
THEOREM WindowKept == LookupSpec => []WindowHolds
<1>1. LookupInv => WindowHolds
  BY DEF LookupInv
<1> QED BY LookupInvariance, <1>1, PTL

\* What is found is the word, and what is reported absent is absent unless the
\* limit on cnt ended the search.
THEOREM Correct == LookupSpec => []NeverWrong
<1>1. LookupInv => NeverWrong
  BY DEF LookupInv
<1> QED BY LookupInvariance, <1>1, PTL
-----------------------------------------------------------------------------
(* The datagrams *)

RightText(w, t) ==
    \/ t = IF InTable(w) THEN w ELSE XXXX
    \/ t = XXXX /\ ~EnoughLimit

InSocket(c, i) == i \in DOMAIN socket /\ socket[i].from = c
AtServer(c) == spc = "lookup" /\ dr.from = c

Types ==
    /\ spc \in {"off", "killed", "recvfrom", "lookup"} /\ run \in 0..MaxRuns
    /\ dr \in Datagram /\ socket \in Seq(Datagram) /\ Len(socket) =< RCVBUF
    /\ cpc \in [Clients -> {"ask", "sendto", "recvfrom", "done", "killed"}]
    /\ word \in [Clients -> Words] /\ lost \in [Clients -> BOOLEAN]
    /\ inbox \in [Clients -> Seq(Words \union {XXXX})]
    /\ answers \in [Clients -> Seq([word : Words, text : Words \union {XXXX}])]

\* A client's question is in one place: in the server's socket, with the server
\* or, as an answer, in the client's socket.
OnePlace ==
    \A c \in Clients :
        /\ \A i, j : InSocket(c, i) /\ InSocket(c, j) => i = j
        /\ AtServer(c) => \A i : ~InSocket(c, i)
        /\ inbox[c] # <<>> => ~AtServer(c) /\ \A i : ~InSocket(c, i)
        /\ Len(inbox[c]) =< 1

\* Only a client that waits has a question or an answer under way, or one that was
\* killed a question that nobody will read the answer to.
OnlyWhileWaiting ==
    \A c \in Clients :
        /\ cpc[c] # "recvfrom" => inbox[c] = <<>>
        /\ cpc[c] \notin {"recvfrom", "killed"} => ~AtServer(c) /\ \A i : ~InSocket(c, i)

\* What is under way belongs to the word the client waits for.
SameWord ==
    /\ spc = "lookup" => sought = dr.word
    /\ \A c \in Clients : cpc[c] = "recvfrom" =>
         /\ \A i : InSocket(c, i) => socket[i].word = word[c]
         /\ AtServer(c) => dr.word = word[c]
         /\ inbox[c] # <<>> => RightText(word[c], Head(inbox[c]))

RightSoFar ==
    \A c \in Clients : \A k \in DOMAIN answers[c] :
        RightText(answers[c][k].word, answers[c][k].text)

IInv == LookupInv /\ Types /\ OnePlace /\ OnlyWhileWaiting /\ SameWord /\ RightSoFar

\* Nothing is under way in the initial states.
LEMMA InitIInv == Init => IInv
<1> SUFFICES ASSUME Init PROVE IInv
  OBVIOUS
<1>1. LookupInv /\ sought \in Words
  BY InitLookup DEF Init, LookupInit
<1>2. (CHOOSE c \in Clients : TRUE) \in Clients
  BY ConstAssumption
<1>3. Types
  <2>1. dr \in Datagram
    BY <1>1, <1>2 DEF Init, Datagram
  <2>2. run \in 0..MaxRuns /\ socket \in Seq(Datagram) /\ Len(socket) =< RCVBUF
    BY ConstAssumption DEF Init
  <2>3. /\ word \in [Clients -> Words]
        /\ inbox \in [Clients -> Seq(Words \union {XXXX})]
        /\ answers \in [Clients -> Seq([word : Words, text : Words \union {XXXX}])]
    <3>1. \A S : <<>> \in Seq(S)
      OBVIOUS
    <3> QED BY <1>1, <3>1 DEF Init
  <2> QED BY <2>1, <2>2, <2>3 DEF Init, Types
<1>4. OnePlace /\ OnlyWhileWaiting /\ SameWord /\ RightSoFar
  BY DEF Init, OnePlace, OnlyWhileWaiting, SameWord, RightSoFar, InSocket, AtServer
<1> QED BY <1>1, <1>3, <1>4 DEF IInv

\* The search sees only its own variables, whatever the clients do.
LEMMA LookupKept == IInv /\ [Next]_vars => LookupInv'
<1> SUFFICES ASSUME IInv, [Next]_vars PROVE LookupInv'
  OBVIOUS
<1>1. LookupInv
  BY DEF IInv
<1>2. CASE UNCHANGED lookupVars
  BY <1>1, <1>2 DEF lookupVars, LookupInv, LookupTypeOK, InOrder, WindowHolds, NeverWrong,
       Running, Records, Mid, Present, None, Halved, Complete, EnoughLimit
<1>3. CASE SearchStep
  BY <1>1, <1>3, NarrowStep, HitStep, ExhaustedStep DEF SearchStep
<1>4. CASE SRecvfrom
  <2>1. socket # <<>> /\ Begin(Head(socket).word)
    BY <1>4 DEF SRecvfrom
  <2>2. Head(socket).word \in Words
    <3>1. Head(socket) \in Datagram
      BY <2>1 DEF IInv, Types
    <3> QED BY <3>1 DEF Datagram
  <2> QED BY <1>1, <2>1, <2>2, BeginStep
<1>5. SRecvfrom \/ SearchStep \/ UNCHANGED lookupVars
  BY DEF Next, vars, serverVars, SBind, ServerStep, Lookup, SSendto, SKilled,
         CAsk, CQuit, ClientStep, CSendto, CRecvfrom, CKilled
<1> QED BY <1>2, <1>3, <1>4, <1>5

\* The file is mapped once and kept, so a right text stays right.
LEMMA TableKept ==
    ASSUME [Next]_vars
    PROVE  \A w, t : (RightText(w, t))' <=> RightText(w, t)
<1>1. numrec' = numrec /\ table' = table
  BY DEF Next, vars, serverVars, SBind, ServerStep, SRecvfrom, Begin, Lookup, SearchStep,
         Exhausted, Hit, Narrow, SSendto, SKilled, lookupVars,
         CAsk, CQuit, ClientStep, CSendto, CRecvfrom, CKilled
<1> QED BY <1>1 DEF RightText, InTable, Records, EnoughLimit

\* What each step does to the datagrams.

LEMMA BindStep == IInv /\ SBind => (Types /\ OnePlace /\ OnlyWhileWaiting /\ SameWord)'
<1> SUFFICES ASSUME IInv, SBind
             PROVE  (Types /\ OnePlace /\ OnlyWhileWaiting /\ SameWord)'
  OBVIOUS
<1>1. UNCHANGED <<dr, socket, cpc, word, inbox, lost, answers, sought, numrec, table>>
  BY DEF SBind, lookupVars
<1>2. spc' = "recvfrom" /\ run' \in 0..MaxRuns
  BY ConstAssumption DEF SBind, IInv, Types
<1>3. Types'
  BY <1>1, <1>2 DEF IInv, Types
<1>4. OnePlace' /\ OnlyWhileWaiting' /\ SameWord'
  BY <1>1, <1>2 DEF IInv, OnePlace, OnlyWhileWaiting, SameWord, InSocket, AtServer,
       RightText, InTable, Records, EnoughLimit
<1> QED BY <1>3, <1>4

\* The first question in the socket goes to the server, with its sender.
LEMMA RecvfromStep == IInv /\ SRecvfrom => (Types /\ OnePlace /\ OnlyWhileWaiting /\ SameWord)'
<1> SUFFICES ASSUME IInv, SRecvfrom
             PROVE  (Types /\ OnePlace /\ OnlyWhileWaiting /\ SameWord)'
  OBVIOUS
<1>1. /\ socket # <<>> /\ dr' = Head(socket) /\ socket' = Tail(socket) /\ spc' = "lookup"
      /\ spc = "recvfrom" /\ sought' = Head(socket).word
      /\ UNCHANGED <<run, cpc, word, inbox, lost, answers, numrec, table>>
  BY DEF SRecvfrom, Begin
<1>2. Types
  BY DEF IInv
<1>3. Types'
  <2>1. dr' \in Datagram /\ socket' \in Seq(Datagram) /\ Len(socket') =< RCVBUF
    BY <1>1, <1>2, ConstAssumption DEF Types
  <2> QED BY <1>1, <1>2, <2>1 DEF Types
<1>4. InSocket(dr'.from, 1) /\ dr'.word = socket[1].word
  BY <1>1, <1>2 DEF Types, InSocket
<1>5. \A c, i : InSocket(c, i)' =>
           i + 1 # 1 /\ i + 1 \in Nat /\ InSocket(c, i + 1) /\ socket'[i] = socket[i + 1]
  BY <1>1, <1>2 DEF Types, InSocket
<1>6. OnePlace'
  <2> SUFFICES ASSUME NEW c \in Clients
               PROVE  /\ \A i, j : InSocket(c, i)' /\ InSocket(c, j)' => i = j
                      /\ AtServer(c)' => \A i : ~InSocket(c, i)'
                      /\ inbox'[c] # <<>> => ~AtServer(c)' /\ \A i : ~InSocket(c, i)'
                      /\ Len(inbox'[c]) =< 1
    BY DEF OnePlace
  <2>1. /\ \A i, j : InSocket(c, i) /\ InSocket(c, j) => i = j
        /\ inbox[c] # <<>> => \A i : ~InSocket(c, i)
        /\ Len(inbox[c]) =< 1
    BY DEF IInv, OnePlace
  <2>2. ASSUME NEW i, NEW j, InSocket(c, i)', InSocket(c, j)' PROVE i = j
    <3>1. i \in Int /\ j \in Int
      BY <1>1, <1>2, <2>2 DEF InSocket, Types
    <3>2. i + 1 = j + 1
      BY <1>5, <2>1, <2>2
    <3> QED BY <3>1, <3>2
  <2>3. AtServer(c)' => InSocket(c, 1)
    BY <1>4 DEF AtServer
  <2>4. AtServer(c)' => \A i : ~InSocket(c, i)'
    BY <1>5, <2>1, <2>3
  <2>5. inbox'[c] # <<>> => ~AtServer(c)' /\ \A i : ~InSocket(c, i)'
    BY <1>1, <1>5, <2>1, <2>3
  <2> QED BY <1>1, <2>1, <2>2, <2>4, <2>5
<1>7. OnlyWhileWaiting'
  <2> SUFFICES ASSUME NEW c \in Clients
               PROVE  /\ cpc'[c] # "recvfrom" => inbox'[c] = <<>>
                      /\ cpc'[c] \notin {"recvfrom", "killed"} =>
                           ~AtServer(c)' /\ \A i : ~InSocket(c, i)'
    BY DEF OnlyWhileWaiting
  <2>1. AtServer(c)' => InSocket(c, 1)
    BY <1>4 DEF AtServer
  <2> QED BY <1>1, <1>5, <2>1 DEF IInv, OnlyWhileWaiting
<1>8. SameWord'
  <2>1. spc' = "lookup" => sought' = dr'.word
    BY <1>1
  <2>2. ASSUME NEW c \in Clients, cpc'[c] = "recvfrom"
        PROVE  /\ \A i : InSocket(c, i)' => socket'[i].word = word'[c]
               /\ AtServer(c)' => dr'.word = word'[c]
               /\ inbox'[c] # <<>> => RightText(word[c], Head(inbox[c]))
    <3>1. /\ \A i : InSocket(c, i) => socket[i].word = word[c]
          /\ inbox[c] # <<>> => RightText(word[c], Head(inbox[c]))
      BY <1>1, <2>2 DEF IInv, SameWord
    <3>2. AtServer(c)' => InSocket(c, 1)
      BY <1>4 DEF AtServer
    <3>3. AtServer(c)' => dr'.word = word'[c]
      <4> SUFFICES ASSUME AtServer(c)' PROVE dr'.word = word'[c]
        OBVIOUS
      <4>1. socket[1].word = word[c]
        BY <3>1, <3>2
      <4> QED BY <1>1, <1>4, <4>1
    <3>4. \A i : InSocket(c, i)' => socket'[i].word = word'[c]
      <4> SUFFICES ASSUME NEW i, InSocket(c, i)' PROVE socket'[i].word = word'[c]
        OBVIOUS
      <4>1. InSocket(c, i + 1) /\ socket'[i] = socket[i + 1]
        BY <1>5
      <4>2. socket[i + 1].word = word[c]
        BY <3>1, <4>1
      <4> QED BY <1>1, <4>1, <4>2
    <3> QED BY <1>1, <3>1, <3>3, <3>4
  <2> QED BY <1>1, <2>1, <2>2 DEF SameWord, RightText, InTable, Records, EnoughLimit
<1> QED BY <1>3, <1>6, <1>7, <1>8

\* An iteration of the search sends and receives nothing.
LEMMA SearchingStep == IInv /\ Lookup => (Types /\ OnePlace /\ OnlyWhileWaiting /\ SameWord)'
<1> SUFFICES ASSUME IInv, Lookup
             PROVE  (Types /\ OnePlace /\ OnlyWhileWaiting /\ SameWord)'
  OBVIOUS
<1>1. UNCHANGED <<spc, run, dr, socket, cpc, word, inbox, lost, answers, sought, numrec, table>>
  BY DEF Lookup, SearchStep, Exhausted, Hit, Narrow
<1> QED BY <1>1 DEF IInv, Types, OnePlace, OnlyWhileWaiting, SameWord, InSocket, AtServer,
              RightText, InTable, Records, EnoughLimit

\* A search that is over has the right text for the word it was called with.
LEMMA SearchRight ==
    ASSUME IInv, spc = "lookup", done
    PROVE  LET t == IF found = None THEN XXXX ELSE table[found] IN
           RightText(dr.word, t) /\ t \in Words \union {XXXX}
<1>1. LookupTypeOK /\ NeverWrong /\ Complete /\ sought = dr.word
  BY DEF IInv, LookupInv, SameWord
<1>2. CASE found = None
  BY <1>1, <1>2 DEF Complete, Present, RightText, InTable
<1>3. CASE found # None
  <2>1. found \in Records /\ table[found] = sought /\ table[found] \in Words
    BY <1>1, <1>3 DEF LookupTypeOK, NeverWrong
  <2> QED BY <1>1, <1>3, <2>1 DEF RightText, InTable
<1> QED BY <1>2, <1>3

\* The answer goes to the sender of the question, whose word it belongs to.
LEMMA SendtoStep == IInv /\ SSendto => (Types /\ OnePlace /\ OnlyWhileWaiting /\ SameWord)'
<1> SUFFICES ASSUME IInv, SSendto
             PROVE  (Types /\ OnePlace /\ OnlyWhileWaiting /\ SameWord)'
  OBVIOUS
<1> DEFINE d == dr.from
           t == IF found = None THEN XXXX ELSE table[found]
<1>1. /\ spc = "lookup" /\ done /\ spc' = "recvfrom"
      /\ UNCHANGED <<run, dr, socket, cpc, word, lost, answers, sought, numrec, table>>
      /\ inbox' = IF Gone(d) THEN inbox ELSE [inbox EXCEPT ![d] = Append(@, t)]
  BY DEF SSendto, lookupVars
<1>2. Types /\ d \in Clients /\ AtServer(d)
  BY <1>1 DEF IInv, Types, Datagram, AtServer
<1>3. inbox[d] = <<>> /\ \A i : ~InSocket(d, i)
  BY <1>2 DEF IInv, OnePlace
<1>4. RightText(dr.word, t) /\ t \in Words \union {XXXX}
  BY <1>1, SearchRight
<1>5. \A c, i : InSocket(c, i)' <=> InSocket(c, i)
  BY <1>1 DEF InSocket
<1>6. \A c : ~AtServer(c)'
  BY <1>1 DEF AtServer
<1>7. /\ \A c \in Clients : c # d => inbox'[c] = inbox[c]
      /\ inbox'[d] = <<>> \/ (inbox'[d] = <<t>> /\ ~Gone(d))
      /\ inbox' \in [Clients -> Seq(Words \union {XXXX})]
  <2>1. Append(<<>>, t) = <<t>> /\ <<t>> \in Seq(Words \union {XXXX})
    BY <1>4
  <2> HIDE DEF t
  <2>2. inbox \in [Clients -> Seq(Words \union {XXXX})]
    BY <1>2 DEF Types
  <2> HIDE DEF d
  <2>3. CASE Gone(d)
    <3>1. inbox' = inbox
      BY <1>1, <2>3 DEF Gone
    <3> QED BY <1>3, <2>2, <3>1
  <2>4. CASE ~Gone(d)
    <3>1. inbox' = [inbox EXCEPT ![d] = Append(@, t)]
      BY <1>1, <2>4
    <3>2. inbox'[d] = <<t>> /\ \A c \in Clients : c # d => inbox'[c] = inbox[c]
      BY <1>2, <1>3, <2>1, <2>2, <3>1
    <3>3. inbox' \in [Clients -> Seq(Words \union {XXXX})]
      BY <1>3, <2>1, <2>2, <3>1
    <3> QED BY <2>4, <3>2, <3>3
  <2> QED BY <2>3, <2>4
<1> HIDE DEF d, t
<1>8. Types'
  BY <1>1, <1>2, <1>7 DEF Types
<1>9. Len(<<t>>) = 1 /\ Head(<<t>>) = t /\ Len(<<>>) = 0
  OBVIOUS
<1>10. OnePlace'
  <2> SUFFICES ASSUME NEW c \in Clients
               PROVE  /\ \A i, j : InSocket(c, i)' /\ InSocket(c, j)' => i = j
                      /\ AtServer(c)' => \A i : ~InSocket(c, i)'
                      /\ inbox'[c] # <<>> => ~AtServer(c)' /\ \A i : ~InSocket(c, i)'
                      /\ Len(inbox'[c]) =< 1
    BY DEF OnePlace
  <2>1. CASE c = d
    <3>1. Len(inbox'[d]) =< 1
      <4>1. CASE inbox'[d] = <<>>
        BY <4>1
      <4>2. CASE inbox'[d] = <<t>>
        BY <4>2
      <4> QED BY <1>7, <4>1, <4>2
    <3> QED BY <1>3, <1>5, <1>6, <2>1, <3>1
  <2>2. CASE c # d
    BY <1>5, <1>6, <1>7, <2>2 DEF IInv, OnePlace
  <2> QED BY <2>1, <2>2
<1>11. OnlyWhileWaiting'
  <2> SUFFICES ASSUME NEW c \in Clients
               PROVE  /\ cpc'[c] # "recvfrom" => inbox'[c] = <<>>
                      /\ cpc'[c] \notin {"recvfrom", "killed"} =>
                           ~AtServer(c)' /\ \A i : ~InSocket(c, i)'
    BY DEF OnlyWhileWaiting
  <2>1. CASE c = d
    <3>1. cpc[c] \in {"recvfrom", "killed"}
      BY <1>2, <2>1 DEF IInv, OnlyWhileWaiting
    <3> QED BY <1>1, <1>7, <2>1, <3>1 DEF Gone
  <2>2. CASE c # d
    BY <1>1, <1>5, <1>6, <1>7, <2>2 DEF IInv, OnlyWhileWaiting
  <2> QED BY <2>1, <2>2
<1>12. SameWord'
  <2>1. ASSUME NEW c \in Clients, cpc[c] = "recvfrom"
        PROVE  /\ \A i : InSocket(c, i) => socket[i].word = word[c]
               /\ inbox'[c] # <<>> => RightText(word[c], Head(inbox'[c]))
    <3>1. CASE c = d
      <4>1. dr.word = word[c]
        BY <1>2, <2>1, <3>1 DEF IInv, SameWord
      <4> QED BY <1>3, <1>4, <1>7, <1>9, <3>1, <4>1
    <3>2. CASE c # d
      BY <1>7, <2>1, <3>2 DEF IInv, SameWord
    <3> QED BY <3>1, <3>2
  <2>2. ASSUME NEW c \in Clients, cpc'[c] = "recvfrom"
        PROVE  /\ \A i : InSocket(c, i)' => socket'[i].word = word'[c]
               /\ AtServer(c)' => dr'.word = word'[c]
               /\ inbox'[c] # <<>> => RightText(word[c], Head(inbox'[c]))
    BY <1>1, <1>5, <1>6, <2>1, <2>2
  <2> QED BY <1>1, <2>2 DEF SameWord, RightText, InTable, Records, EnoughLimit
<1> QED BY <1>8, <1>10, <1>11, <1>12

\* Its questions and answers die with the server, but for those in the clients'
\* sockets.
LEMMA KilledStep == IInv /\ SKilled => (Types /\ OnePlace /\ OnlyWhileWaiting /\ SameWord)'
<1> SUFFICES ASSUME IInv, SKilled
             PROVE  (Types /\ OnePlace /\ OnlyWhileWaiting /\ SameWord)'
  OBVIOUS
<1>1. /\ spc' = "killed" /\ socket' = <<>>
      /\ UNCHANGED <<run, dr, cpc, word, inbox, answers, sought, numrec, table>>
  BY DEF SKilled, lookupVars
<1>2. \A c, i : ~InSocket(c, i)'
  BY <1>1 DEF InSocket
<1>3. \A c : ~AtServer(c)'
  BY <1>1 DEF AtServer
<1>4. Types'
  <2>1. lost' \in [Clients -> BOOLEAN]
    BY DEF SKilled, IInv, Types
  <2>2. socket' \in Seq(Datagram) /\ Len(socket') =< RCVBUF
    BY <1>1, ConstAssumption
  <2> QED BY <1>1, <2>1, <2>2 DEF IInv, Types
<1>5. OnePlace' /\ OnlyWhileWaiting'
  BY <1>1, <1>2, <1>3 DEF IInv, OnePlace, OnlyWhileWaiting
<1>6. SameWord'
  BY <1>1, <1>2, <1>3 DEF IInv, SameWord, RightText, InTable, Records, EnoughLimit
<1> QED BY <1>4, <1>5, <1>6

\* A client that has no question under way chooses a word or leaves.
LEMMA IdleStep ==
    ASSUME IInv, NEW e \in Clients, CAsk(e) \/ CQuit(e)
    PROVE  (Types /\ OnePlace /\ OnlyWhileWaiting /\ SameWord)'
<1>1. /\ UNCHANGED <<spc, run, dr, socket, inbox, lost, answers, sought, numrec, table>>
      /\ cpc[e] = "ask"
      /\ \E q \in {"sendto", "done"} : cpc' = [cpc EXCEPT ![e] = q]
      /\ word' = word \/ \E w \in Words : word' = [word EXCEPT ![e] = w]
  BY DEF CAsk, CQuit, serverVars, lookupVars
<1>2. Types
  BY DEF IInv
<1>3. /\ \A c \in Clients : c # e => cpc'[c] = cpc[c] /\ word'[c] = word[c]
      /\ cpc'[e] \in {"sendto", "done"}
  BY <1>1, <1>2 DEF Types
<1>4. Types'
  BY <1>1, <1>2 DEF Types
<1>5. OnePlace'
  BY <1>1 DEF IInv, OnePlace, InSocket, AtServer
<1>6. OnlyWhileWaiting'
  BY <1>1, <1>3 DEF IInv, OnlyWhileWaiting, InSocket, AtServer
<1>7. SameWord'
  BY <1>1, <1>3 DEF IInv, SameWord, InSocket, AtServer, RightText, InTable, Records, EnoughLimit
<1> QED BY <1>4, <1>5, <1>6, <1>7

\* The question goes to the end of the socket, or nowhere.
LEMMA SendStep ==
    ASSUME IInv, NEW e \in Clients, CSendto(e)
    PROVE  (Types /\ OnePlace /\ OnlyWhileWaiting /\ SameWord)'
<1> DEFINE m == [from |-> e, word |-> word[e]]
<1>1. /\ UNCHANGED <<spc, run, dr, word, inbox, answers, sought, numrec, table>>
      /\ cpc[e] = "sendto" /\ cpc' = [cpc EXCEPT ![e] = "recvfrom"]
      /\ lost' \in {lost, [lost EXCEPT ![e] = TRUE]}
      /\ socket' = socket \/ (Len(socket) < RCVBUF /\ socket' = Append(socket, m))
  <2>1. UNCHANGED <<spc, run, dr, word, inbox, answers, sought, numrec, table>>
    BY DEF CSendto, serverVars, lookupVars
  <2>2. cpc[e] = "sendto" /\ cpc' = [cpc EXCEPT ![e] = "recvfrom"]
    BY DEF CSendto
  <2>3. CASE Bound /\ Len(socket) < RCVBUF
    BY <2>1, <2>2, <2>3 DEF CSendto, Bound
  <2>4. CASE ~(Bound /\ Len(socket) < RCVBUF)
    BY <2>1, <2>2, <2>4 DEF CSendto, Bound
  <2> QED BY <2>3, <2>4
<1>2. Types /\ m \in Datagram
  BY DEF IInv, Types, Datagram
<1>3. /\ \A c \in Clients : c # e => cpc'[c] = cpc[c]
      /\ cpc'[e] = "recvfrom"
  BY <1>1, <1>2 DEF Types
<1>4. Types'
  <2>1. lost' \in [Clients -> BOOLEAN]
    BY <1>1, <1>2 DEF Types
  <2>2. socket' \in Seq(Datagram) /\ Len(socket') =< RCVBUF
    <3> HIDE DEF m
    <3>1. socket \in Seq(Datagram) /\ Len(socket) =< RCVBUF /\ m \in Datagram /\ RCVBUF \in Nat
      BY <1>2, ConstAssumption DEF Types
    <3>2. CASE socket' = socket
      BY <3>1, <3>2
    <3>3. CASE Len(socket) < RCVBUF /\ socket' = Append(socket, m)
      <4>1. Len(socket') = Len(socket) + 1 /\ Len(socket) \in Nat
        BY <3>1, <3>3
      <4> QED BY <3>1, <3>3, <4>1
    <3> QED BY <1>1, <3>2, <3>3
  <2> QED BY <1>1, <1>2, <2>1, <2>2 DEF Types
<1>5. inbox[e] = <<>> /\ ~AtServer(e) /\ \A i : ~InSocket(e, i)
  BY <1>1 DEF IInv, OnlyWhileWaiting
<1>6. /\ \A c, i : c # e => (InSocket(c, i)' <=> InSocket(c, i))
      /\ \A c, i : c # e /\ InSocket(c, i) => socket'[i] = socket[i]
      /\ \A i : InSocket(e, i)' => i = Len(socket) + 1 /\ socket'[i] = m
  <2>1. CASE socket' = socket
    BY <1>5, <2>1 DEF InSocket
  <2>2. CASE socket' = Append(socket, m)
    <3>1. /\ DOMAIN socket' = DOMAIN socket \union {Len(socket) + 1}
          /\ Len(socket) + 1 \notin DOMAIN socket
          /\ \A i \in DOMAIN socket : socket'[i] = socket[i]
          /\ socket'[Len(socket) + 1] = m
      <4> HIDE DEF m
      <4> QED BY <1>2, <2>2 DEF Types
    <3>2. m.from = e
      OBVIOUS
    <3> HIDE DEF m
    <3> QED BY <1>5, <3>1, <3>2 DEF InSocket
  <2> QED BY <1>1, <2>1, <2>2
<1>7. \A c : AtServer(c)' <=> AtServer(c)
  BY <1>1 DEF AtServer
<1>8. OnePlace'
  <2> SUFFICES ASSUME NEW c \in Clients
               PROVE  /\ \A i, j : InSocket(c, i)' /\ InSocket(c, j)' => i = j
                      /\ AtServer(c)' => \A i : ~InSocket(c, i)'
                      /\ inbox'[c] # <<>> => ~AtServer(c)' /\ \A i : ~InSocket(c, i)'
                      /\ Len(inbox'[c]) =< 1
    BY DEF OnePlace
  <2>1. Len(inbox'[c]) =< 1
    BY <1>1 DEF IInv, OnePlace
  <2>2. CASE c = e
    BY <1>1, <1>5, <1>6, <1>7, <2>1, <2>2
  <2>3. CASE c # e
    BY <1>1, <1>6, <1>7, <2>1, <2>3 DEF IInv, OnePlace
  <2> QED BY <2>2, <2>3
<1>9. OnlyWhileWaiting'
  <2> SUFFICES ASSUME NEW c \in Clients, c # e
               PROVE  /\ cpc'[c] # "recvfrom" => inbox'[c] = <<>>
                      /\ cpc'[c] \notin {"recvfrom", "killed"} =>
                           ~AtServer(c)' /\ \A i : ~InSocket(c, i)'
    BY <1>3 DEF OnlyWhileWaiting
  <2> QED BY <1>1, <1>3, <1>6, <1>7 DEF IInv, OnlyWhileWaiting
<1>10. SameWord'
  <2>1. m.word = word[e]
    OBVIOUS
  <2> HIDE DEF m
  <2>2. ASSUME NEW c \in Clients, cpc'[c] = "recvfrom"
        PROVE  /\ \A i : InSocket(c, i)' => socket'[i].word = word'[c]
               /\ AtServer(c)' => dr'.word = word'[c]
               /\ inbox'[c] # <<>> => RightText(word[c], Head(inbox'[c]))
    <3>1. CASE c = e
      BY <1>1, <1>5, <1>6, <1>7, <2>1, <3>1
    <3>2. CASE c # e
      <4>1. cpc[c] = "recvfrom"
        BY <1>3, <2>2, <3>2
      <4>2. \A i : InSocket(c, i)' => socket'[i].word = word'[c]
        <5> SUFFICES ASSUME NEW i, InSocket(c, i)' PROVE socket'[i].word = word'[c]
          OBVIOUS
        <5>1. InSocket(c, i) /\ socket'[i] = socket[i]
          BY <1>6, <3>2
        <5>2. socket[i].word = word[c]
          BY <4>1, <5>1 DEF IInv, SameWord
        <5> QED BY <1>1, <5>1, <5>2
      <4> QED BY <1>1, <1>7, <4>1, <4>2 DEF IInv, SameWord
    <3> QED BY <3>1, <3>2
  <2>3. spc' = "lookup" => sought' = dr'.word
    BY <1>1 DEF IInv, SameWord
  <2> QED BY <1>1, <2>2, <2>3 DEF SameWord, RightText, InTable, Records, EnoughLimit
<1> QED BY <1>4, <1>8, <1>9, <1>10

\* The answer read was the only thing under way; a killed client has no socket.
LEMMA EndStep ==
    ASSUME IInv, NEW e \in Clients, CRecvfrom(e) \/ CKilled(e)
    PROVE  (Types /\ OnePlace /\ OnlyWhileWaiting /\ SameWord)'
<1>1. /\ UNCHANGED <<spc, run, dr, socket, word, lost, sought, numrec, table>>
      /\ \/ /\ inbox[e] # <<>> /\ cpc' = [cpc EXCEPT ![e] = "ask"]
            /\ inbox' = [inbox EXCEPT ![e] = Tail(@)]
         \/ /\ cpc' = [cpc EXCEPT ![e] = "killed"]
            /\ inbox' = [inbox EXCEPT ![e] = <<>>]
  BY DEF CRecvfrom, CKilled, serverVars, lookupVars
<1>2. Types
  BY DEF IInv
<1>3. inbox[e] # <<>> => Tail(inbox[e]) = <<>> /\ ~AtServer(e) /\ \A i : ~InSocket(e, i)
  <2>1. inbox[e] \in Seq(Words \union {XXXX}) /\ Len(inbox[e]) =< 1
    BY <1>2 DEF IInv, Types, OnePlace
  <2>2. inbox[e] # <<>> => Tail(inbox[e]) = <<>>
    BY <2>1
  <2> QED BY <2>2 DEF IInv, OnePlace
<1>4. /\ \A c \in Clients : c # e => cpc'[c] = cpc[c] /\ inbox'[c] = inbox[c]
      /\ cpc'[e] \in {"ask", "killed"} /\ inbox'[e] = <<>>
      /\ cpc'[e] = "ask" => ~AtServer(e) /\ \A i : ~InSocket(e, i)
  BY <1>1, <1>2, <1>3 DEF Types
<1>5. Types'
  <2>1. inbox' \in [Clients -> Seq(Words \union {XXXX})]
    <3>1. \A S : <<>> \in Seq(S)
      OBVIOUS
    <3>2. inbox' = [inbox EXCEPT ![e] = <<>>]
      BY <1>1, <1>3
    <3> QED BY <1>2, <3>1, <3>2 DEF Types
  <2>2. cpc' \in [Clients -> {"ask", "sendto", "recvfrom", "done", "killed"}]
    BY <1>1, <1>2 DEF Types
  <2>3. answers' \in [Clients -> Seq([word : Words, text : Words \union {XXXX}])]
    <3>1. CASE CKilled(e)
      BY <1>2, <3>1 DEF Types, CKilled
    <3>2. CASE CRecvfrom(e)
      <4> DEFINE a == [word |-> word[e], text |-> Head(inbox[e])]
                 R == [word : Words, text : Words \union {XXXX}]
      <4>1. Head(inbox[e]) \in Words \union {XXXX} /\ word[e] \in Words
        BY <1>2, <3>2 DEF Types, CRecvfrom
      <4>2. a \in R
        BY <4>1
      <4>3. answers' = [answers EXCEPT ![e] = Append(@, a)]
        BY <3>2 DEF CRecvfrom
      <4>4. answers \in [Clients -> Seq(R)]
        BY <1>2 DEF Types
      <4> HIDE DEF a, R
      <4>5. answers' \in [Clients -> Seq(R)]
        BY <4>2, <4>3, <4>4
      <4> QED BY <4>5 DEF R
    <3> QED BY <3>1, <3>2
  <2> QED BY <1>1, <1>2, <2>1, <2>2, <2>3 DEF Types
<1>6. OnePlace'
  <2>1. Len(<<>>) = 0
    OBVIOUS
  <2> QED BY <1>1, <1>4, <2>1 DEF IInv, OnePlace, InSocket, AtServer
<1>7. OnlyWhileWaiting'
  BY <1>1, <1>4 DEF IInv, OnlyWhileWaiting, InSocket, AtServer
<1>8. SameWord'
  BY <1>1, <1>4 DEF IInv, SameWord, InSocket, AtServer, RightText, InTable, Records, EnoughLimit
<1> QED BY <1>5, <1>6, <1>7, <1>8

\* Only the text of the client's own datagram is ever printed, beside the word it
\* belongs to.
LEMMA AnswersStep == IInv /\ [Next]_vars => RightSoFar'
<1> SUFFICES ASSUME IInv, [Next]_vars PROVE RightSoFar'
  OBVIOUS
<1>1. RightSoFar /\ \A w, t : (RightText(w, t))' <=> RightText(w, t)
  BY TableKept DEF IInv
<1>2. CASE answers' = answers
  <2> SUFFICES ASSUME NEW c \in Clients, NEW k \in DOMAIN answers[c]
               PROVE  RightText(answers[c][k].word, answers[c][k].text)'
    BY <1>2 DEF RightSoFar
  <2> DEFINE w == answers[c][k].word
             t == answers[c][k].text
  <2>1. RightText(w, t)
    BY <1>1 DEF RightSoFar
  <2> QED BY <1>1, <1>2, <2>1 DEF RightText, InTable, Records, EnoughLimit
<1>3. ASSUME NEW e \in Clients, CRecvfrom(e) PROVE RightSoFar'
  <2> DEFINE a == [word |-> word[e], text |-> Head(inbox[e])]
  <2>1. RightText(a.word, a.text)
    BY <1>3 DEF IInv, SameWord, CRecvfrom
  <2>2. answers' = [answers EXCEPT ![e] = Append(@, a)] /\ numrec' = numrec /\ table' = table
    BY <1>3 DEF CRecvfrom, serverVars, lookupVars
  <2>3. \A c \in Clients : answers[c] \in Seq([word : Words, text : Words \union {XXXX}])
    BY DEF IInv, Types
  <2>4. answers \in [Clients -> Seq([word : Words, text : Words \union {XXXX}])]
    BY DEF IInv, Types
  <2> HIDE DEF a
  <2> SUFFICES ASSUME NEW c \in Clients, NEW k \in DOMAIN answers'[c]
               PROVE  RightText(answers'[c][k].word, answers'[c][k].text)
    BY <2>2 DEF RightSoFar, RightText, InTable, Records, EnoughLimit
  <2>5. CASE c # e
    <3>1. answers'[c] = answers[c]
      BY <2>2, <2>4, <2>5
    <3> QED BY <1>1, <3>1 DEF RightSoFar
  <2>6. CASE c = e
    <3>1. answers'[c] = Append(answers[c], a)
      BY <2>2, <2>4, <2>6
    <3>2. (k \in DOMAIN answers[c] /\ answers'[c][k] = answers[c][k]) \/ answers'[c][k] = a
      BY <2>3, <3>1
    <3> QED BY <1>1, <2>1, <3>2 DEF RightSoFar
  <2> QED BY <2>5, <2>6
<1>4. answers' = answers \/ \E e \in Clients : CRecvfrom(e)
  BY DEF Next, vars, serverVars, SBind, ServerStep, SRecvfrom, Lookup,
         SSendto, SKilled, CAsk, CQuit, ClientStep, CSendto, CKilled
<1> QED BY <1>2, <1>3, <1>4

\* IInv holds in every state of clients and server.
THEOREM Invariance == Spec => []IInv
<1>1. IInv /\ [Next]_vars => (Types /\ OnePlace /\ OnlyWhileWaiting /\ SameWord)'
  <2> SUFFICES ASSUME IInv, [Next]_vars
               PROVE  (Types /\ OnePlace /\ OnlyWhileWaiting /\ SameWord)'
    OBVIOUS
  <2>1. CASE SBind \/ ServerStep \/ SKilled
    BY <2>1, BindStep, RecvfromStep, SearchingStep, SendtoStep, KilledStep DEF ServerStep
  <2>2. ASSUME NEW c \in Clients, CAsk(c) \/ CQuit(c) \/ ClientStep(c) \/ CKilled(c)
        PROVE  (Types /\ OnePlace /\ OnlyWhileWaiting /\ SameWord)'
    BY <2>2, IdleStep, SendStep, EndStep DEF ClientStep
  <2>3. CASE UNCHANGED vars
    BY <2>3 DEF vars, lookupVars, IInv, Types, OnePlace, OnlyWhileWaiting, SameWord,
                InSocket, AtServer, RightText, InTable, Records, EnoughLimit
  <2> QED BY <2>1, <2>2, <2>3 DEF Next
<1>2. IInv /\ [Next]_vars => IInv'
  BY <1>1, LookupKept, AnswersStep DEF IInv
<1> QED BY InitIInv, <1>2, PTL DEF Spec

\* A set of positions with at most one element has at most one.
LEMMA AtMostOne ==
    ASSUME NEW n \in Nat, NEW S \in SUBSET (1..n), \A i, j \in S : i = j
    PROVE  Cardinality(S) \in Nat /\ Cardinality(S) =< 1 /\ (S = {} => Cardinality(S) = 0)
<1>1. CASE S = {}
  BY <1>1, FS_EmptySet
<1>2. CASE S # {}
  <2>1. PICK i \in S : TRUE
    BY <1>2
  <2>2. S = {i}
    BY <2>1
  <2>3. Cardinality(S) = 1
    BY <2>2, FS_Singleton
  <2> QED BY <1>2, <2>3
<1> QED BY <1>1, <1>2

\* No client is ever given the answer to another word or to another client, over
\* any number of clients and restarts of the server, and a word of the table is
\* found whenever the limit of lookup5.c 70 is enough for the table: RightAnswers,
\* with the types and the one datagram under way that it states.
THEOREM AnswersRight == Spec => []RightAnswers
<1>1. IInv => RightAnswers
  <2> SUFFICES ASSUME IInv PROVE RightAnswers
    OBVIOUS
  <2>1. ASSUME NEW c \in Clients
        PROVE  Cardinality({i \in DOMAIN socket : socket[i].from = c}) + Len(inbox[c])
                 + (IF spc = "lookup" /\ dr.from = c THEN 1 ELSE 0) =< 1
    <3> DEFINE S == {i \in DOMAIN socket : socket[i].from = c}
    <3>1. DOMAIN socket = 1..Len(socket) /\ Len(socket) \in Nat
      BY DEF IInv, Types
    <3>2. \A i : i \in S <=> InSocket(c, i)
      BY DEF InSocket
    <3>3. S \in SUBSET (1..Len(socket)) /\ \A i, j \in S : i = j
      BY <3>1, <3>2 DEF IInv, OnePlace
    <3> HIDE DEF S
    <3>4. Cardinality(S) \in Nat /\ Cardinality(S) =< 1 /\ (S = {} => Cardinality(S) = 0)
      BY <3>1, <3>3, AtMostOne
    <3>5. Len(inbox[c]) \in Nat /\ Len(inbox[c]) =< 1 /\ (inbox[c] = <<>> => Len(inbox[c]) = 0)
      BY DEF IInv, Types, OnePlace
    <3>6. /\ inbox[c] # <<>> => S = {} /\ ~AtServer(c)
          /\ AtServer(c) => S = {} /\ inbox[c] = <<>>
      BY <3>2 DEF IInv, OnePlace
    <3>7. Cardinality(S) + Len(inbox[c]) + (IF AtServer(c) THEN 1 ELSE 0) =< 1
      BY <3>4, <3>5, <3>6
    <3> QED BY <3>7 DEF S, AtServer
  <2>2. TypeOK
    BY <2>1 DEF TypeOK, IInv, Types
  <2>3. \A c \in Clients : \A k \in DOMAIN answers[c] :
           LET a == answers[c][k] IN
           \/ a.text = IF InTable(a.word) THEN a.word ELSE XXXX
           \/ a.text = XXXX /\ ~EnoughLimit
    BY DEF IInv, RightSoFar, RightText
  <2> QED BY <2>2, <2>3 DEF RightAnswers
<1> QED BY Invariance, <1>1, PTL

\* The searches of the server, whatever was asked before, find only what was
\* sought and miss a word only at the limit.
THEOREM SearchesRight == Spec => []NeverWrong
<1>1. IInv => NeverWrong
  BY DEF IInv, LookupInv
<1> QED BY Invariance, <1>1, PTL
=============================================================================
