--------------------------- MODULE GrepProcProofs ---------------------------
(***************************************************************************)
(* Proofs about GrepProc: the type invariant, the balance of grep_begin()  *)
(* and grep_end(), and that no request is left behind, for every text,     *)
(* chunk size, number of children and batch size.                          *)
(***************************************************************************)
EXTENDS GrepProc, TLAPS

\* What a stop condition is.
Until == [type : {"line", "eof"}, line : Nat]

\* Integer division is bounded as the round-robin split needs it.
LEMMA DivBound ==
    ASSUME NEW a \in Nat, NEW n \in Nat \ {0}
    PROVE  a \div n \in Nat /\ n * (a \div n) <= a
  OBVIOUS

\* The product of two naturals is a natural.
LEMMA MulNat == \A a, b \in Nat : a * b \in Nat
  OBVIOUS

\* The k-th item of child c in a round-robin split of a queue of length len
\* among n children exists.
LEMMA RoundRobinIndex ==
    ASSUME NEW len \in Nat, NEW n \in Nat \ {0}, NEW c \in 1..n, c <= len,
           NEW k \in 1..((len - c) \div n + 1)
    PROVE  (k - 1) * n + c \in 1..len
  <1>1. /\ len - c \in Nat
        /\ (len - c) \div n \in Nat
        /\ n * ((len - c) \div n) <= len - c
    BY DivBound
  <1> DEFINE d == (len - c) \div n
  <1>2. d \in Nat /\ k - 1 \in Nat /\ k - 1 <= d /\ n * d <= len - c
    BY <1>1
  <1> HIDE DEF d
  <1>3. (k - 1) * n \in Nat /\ (k - 1) * n <= n * d
    BY <1>2
  <1> QED
    BY <1>2, <1>3

\* queue_request() makes well-formed requests of any range with an end that is
\* not before its start.
LEMMA QueueRequestType ==
    ASSUME NEW s \in Nat \cup {NoLine}, NEW until \in Until,
           s = NoLine \/ s <= until.line
    PROVE  QueueRequest(s, until) \in Seq(Request)
  <1>1. CASE s = NoLine
    BY <1>1 DEF QueueRequest, MkRequest, Request, Until, NoLine
  <1>2. CASE s # NoLine
    <2> DEFINE n == (until.line - s + CHUNK_SIZE - 1) \div CHUNK_SIZE
               R(i) == MkRequest(s + (i - 1) * CHUNK_SIZE,
                                 IF i < n THEN UntilLine(s + i * CHUNK_SIZE)
                                          ELSE until)
    <2>1. s \in Nat /\ until.line \in Nat /\ s <= until.line
      BY <1>2 DEF Until
    <2>2. CHUNK_SIZE \in Nat \ {0}
      BY BoundsAssumption
    <2>3. until.line - s + CHUNK_SIZE - 1 \in Nat
      BY <2>1, <2>2
    <2>4. n \in Nat
      BY <2>2, <2>3, DivBound
    <2> HIDE DEF n
    <2>5. ASSUME NEW i \in 1..n PROVE R(i) \in Request
      <3>1. (i - 1) * CHUNK_SIZE \in Nat /\ i * CHUNK_SIZE \in Nat
        <4>1. i - 1 \in Nat /\ i \in Nat
          BY <2>4
        <4> QED BY <4>1, <2>2, MulNat
      <3> DEFINE a == (i - 1) * CHUNK_SIZE
                 b == i * CHUNK_SIZE
      <3>2. a \in Nat /\ b \in Nat
        BY <3>1
      <3> HIDE DEF a, b
      <3>3. s + a \in Nat /\ s + b \in Nat
        BY <3>2, <2>1
      <3> QED
        BY <3>3 DEF MkRequest, UntilLine, Request, Until, a, b
    <2>6. QueueRequest(s, until) = [i \in 1..n |-> R(i)]
      BY <1>2 DEF QueueRequest, n
    <2> HIDE DEF R
    <2> QED
      BY <2>4, <2>5, <2>6
  <1> QED BY <1>1, <1>2

\* What start() forks for a non-empty queue is a non-empty set of well-formed
\* children, at most MAX_CHILDREN of them.
LEMMA ForkType ==
    ASSUME NEW q \in Seq(Request), q # << >>, NEW high \in Nat,
           NEW txt \in Seq(BOOLEAN)
    PROVE  /\ DOMAIN Fork(q, high, txt) # {}
           /\ DOMAIN Fork(q, high, txt) \subseteq 1..MAX_CHILDREN
           /\ Fork(q, high, txt) \in [DOMAIN Fork(q, high, txt) -> Child]
           /\ \A c \in DOMAIN Fork(q, high, txt) :
                 /\ Fork(q, high, txt)[c].snap = txt
                 /\ Fork(q, high, txt)[c].out = {}
  <1> DEFINE n == IF Len(q) < MAX_CHILDREN THEN Len(q) ELSE MAX_CHILDREN
             m(c) == (Len(q) - c) \div n + 1
             reqs(c) == [k \in 1..m(c) |-> q[(k - 1) * n + c]]
             kid(c) == [reqs |-> reqs(c), snap |-> txt, high |-> high,
                        out |-> {}, hi |-> NoLine]
  <1>1. Len(q) \in Nat \ {0} /\ MAX_CHILDREN \in Nat \ {0}
    BY BoundsAssumption
  <1>2. n \in Nat \ {0} /\ n <= Len(q) /\ n <= MAX_CHILDREN
    BY <1>1
  <1> HIDE DEF n
  <1>3. ASSUME NEW c \in 1..n PROVE reqs(c) \in Seq(Request)
    <2>1. c <= Len(q) /\ Len(q) - c \in Nat /\ Len(q) \in Nat
      BY <1>1, <1>2
    <2>2. (Len(q) - c) \div n \in Nat
      BY <2>1, <1>2, DivBound
    <2>3. m(c) \in Nat
      BY <2>2
    <2>4. ASSUME NEW k \in 1..m(c) PROVE (k - 1) * n + c \in 1..Len(q)
      BY <2>1, <1>2, RoundRobinIndex
    <2> HIDE DEF m
    <2>5. \A k \in 1..m(c) : q[(k - 1) * n + c] \in Request
      BY <2>4
    <2> QED
      BY <2>3, <2>5
  <1> HIDE DEF reqs
  <1>4. \A c \in 1..n : kid(c) \in Child
    BY <1>3 DEF Child
  <1>5. Fork(q, high, txt) = [c \in 1..n |-> kid(c)]
    BY DEF Fork, n, reqs
  <1>6. /\ DOMAIN Fork(q, high, txt) = 1..n
        /\ \A c \in 1..n : Fork(q, high, txt)[c] = kid(c)
    BY <1>5
  <1>7. 1 \in 1..n /\ 1..n \subseteq 1..MAX_CHILDREN
    BY <1>1, <1>2
  <1>8. Fork(q, high, txt) \in [1..n -> Child]
    BY <1>4, <1>5
  <1> QED
    BY <1>6, <1>7, <1>8

-----------------------------------------------------------------------------
(* The inductive invariant.  SearchBalance alone is not inductive: start()  *)
(* overwrites gp_child_queue_size, so its old value must have been zero,    *)
(* which is what QueueWaits says of a proc without children.                *)

IInv == TypeOK /\ SearchBalance /\ QueueWaits

\* The part of TypeOK that start() can disturb.
ProcType ==
    /\ gp_queue \in Seq(Request)
    /\ DOMAIN gp_children \subseteq 1..MAX_CHILDREN
    /\ gp_children \in [DOMAIN gp_children -> Child]
    /\ gp_child_queue_size \in Nat
    /\ gp_highest_line \in Nat

\* start() neither loses nor invents a request, and leaves none in the queue
\* of a proc without children.
LEMMA StartKeeps ==
    ASSUME NEW q \in Seq(Request), NEW kids,
           DOMAIN kids \subseteq 1..MAX_CHILDREN,
           kids \in [DOMAIN kids -> Child],
           NEW size \in Nat, NEW high \in Nat, NEW txt \in Seq(BOOLEAN),
           DOMAIN kids = {} => size = 0,
           Start(q, kids, size, high, txt)
    PROVE  /\ ProcType'
           /\ Len(gp_queue)' + gp_child_queue_size' = Len(q) + size
           /\ (DOMAIN gp_children = {} =>
                  gp_queue = << >> /\ gp_child_queue_size = 0)'
           /\ q = << >> /\ DOMAIN kids = {} => DOMAIN gp_children' = {}
  <1>1. CASE DOMAIN kids # {} \/ q = << >>
    <2>1. /\ gp_queue' = q /\ gp_children' = kids
          /\ gp_child_queue_size' = size /\ gp_highest_line' = high
      BY <1>1 DEF Start
    <2> QED
      BY <1>1, <2>1 DEF ProcType
  <1>2. CASE DOMAIN kids = {} /\ q # << >>
    <2>1. /\ gp_queue' = << >> /\ gp_children' = Fork(q, high, txt)
          /\ gp_child_queue_size' = Len(q) /\ gp_highest_line' = high
      BY <1>2 DEF Start
    <2>2. /\ DOMAIN gp_children' # {}
          /\ DOMAIN gp_children' \subseteq 1..MAX_CHILDREN
          /\ gp_children' \in [DOMAIN gp_children' -> Child]
      BY <1>2, <2>1, ForkType
    <2>3. Len(q) \in Nat /\ size = 0 /\ Len(<< >>) = 0
      BY <1>2
    <2>4. gp_queue' \in Seq(Request)
      BY <2>1
    <2>5. ProcType'
      BY <2>1, <2>2, <2>3, <2>4 DEF ProcType
    <2>6. Len(gp_queue)' + gp_child_queue_size' = Len(q) + size
      BY <2>1, <2>3
    <2> QED
      BY <1>2, <2>2, <2>5, <2>6
  <1> QED BY <1>1, <1>2

\* The invariant holds at the start: nothing is queued or running.
LEMMA InitIInv == Init => IInv
  <1> SUFFICES ASSUME Init PROVE IInv
    OBVIOUS
  <1>1. text \in Seq(BOOLEAN)
    BY BoundsAssumption DEF Init, Texts
  <1>2. gp_children \in [DOMAIN gp_children -> Child] /\ DOMAIN gp_children = {}
    BY DEF Init
  <1>3. gp_queue \in Seq(Request)
    BY DEF Init
  <1>4. Len(gp_queue) = 0 /\ gp_queue = << >> /\ gp_child_queue_size = 0
    BY DEF Init
  <1>5. active = FALSE
    BY DEF Init
  <1>6. TypeOK
    BY <1>1, <1>2, <1>3, <1>5 DEF Init, TypeOK
  <1>7. SearchBalance
    BY <1>4 DEF Init, SearchBalance
  <1>8. QueueWaits
    BY <1>2, <1>4 DEF QueueWaits
  <1> QED
    BY <1>6, <1>7, <1>8 DEF IInv

\* A child's step leaves the books alone and keeps its record well formed.
LEMMA ChildStepIInv ==
    ASSUME IInv, NEW i \in DOMAIN gp_children, ChildStep(i)
    PROVE  IInv'
  <1> USE DEF IInv
  <1> DEFINE child == gp_children[i]
             r == Head(child.reqs)
             new == [child EXCEPT
                       !.reqs = Tail(child.reqs),
                       !.out  = child.out \cup FoundLines(child, r),
                       !.hi   = HighestSeen(child, r)]
  <1>1. child \in Child
    BY DEF TypeOK
  <1>2. /\ child.reqs \in Seq(Request) /\ child.reqs # << >>
        /\ child.snap \in Seq(BOOLEAN) /\ child.high \in Nat
        /\ child.out \subseteq Nat /\ child.hi \in Nat \cup {NoLine}
    BY <1>1 DEF Child, ChildStep
  <1>3. r \in Request /\ Tail(child.reqs) \in Seq(Request)
    BY <1>2
  <1>4. First(child, r) \in Nat
    BY <1>2, <1>3 DEF First, Request
  <1>5. Last(child, r) \in Nat
    <2>1. Len(child.snap) \in Nat /\ r.line \in Nat
      BY <1>2, <1>3 DEF Request
    <2> QED BY <1>4, <2>1 DEF Last, Larger
  <1>6. FoundLines(child, r) \subseteq Nat
    BY <1>4, <1>5 DEF FoundLines
  <1>7. HighestSeen(child, r) \in Nat \cup {NoLine}
    BY <1>2, <1>5 DEF HighestSeen, Larger
  <1>8. new \in Child
    BY <1>1, <1>2, <1>3, <1>6, <1>7 DEF Child
  <1>9. /\ gp_children' = [gp_children EXCEPT ![i] = new]
        /\ UNCHANGED <<text, active, gp_queue, gp_child_queue_size,
                       gp_highest_line, tc_searching, bm_search, lost, ops>>
    BY DEF ChildStep
  <1> HIDE DEF new
  <1>10. /\ DOMAIN gp_children' = DOMAIN gp_children
         /\ gp_children' \in [DOMAIN gp_children -> Child]
    BY <1>8, <1>9 DEF TypeOK
  <1>11. TypeOK'
    BY <1>9, <1>10 DEF TypeOK
  <1> QED
    BY <1>9, <1>10, <1>11 DEF SearchBalance, QueueWaits

\* Reading from a child: the counter is given back only with the last child,
\* and start() then takes over what was queued meanwhile.
LEMMA CheckPollSetIInv ==
    ASSUME IInv, NEW i \in DOMAIN gp_children,
           NEW b \in SUBSET gp_children[i].out, CheckPollSet(i, b)
    PROVE  IInv'
  <1> USE DEF IInv
  <1> DEFINE child == gp_children[i]
             high == IF Drained(b, child)
                     THEN Larger(gp_highest_line, child.hi)
                     ELSE gp_highest_line
             left == IF Drained(b, child) /\ child.reqs = << >>
                     THEN DOMAIN gp_children \ {i}
                     ELSE DOMAIN gp_children
             hi == IF Drained(b, child) THEN NoLine ELSE child.hi
             new == [child EXCEPT !.out = child.out \ b, !.hi = hi]
  <1>1. child \in Child
    BY DEF TypeOK
  <1>2. child.out \subseteq Nat /\ child.hi \in Nat \cup {NoLine}
    BY <1>1 DEF Child
  <1>3. high \in Nat
    BY <1>2 DEF TypeOK, Larger, NoLine
  <1>4. hi \in Nat \cup {NoLine}
    BY <1>2
  <1>5. new \in Child
    BY <1>1, <1>2, <1>4 DEF Child
  <1>6. bm_search' \subseteq Nat
    BY <1>2 DEF CheckPollSet, GrepMatch, TypeOK
  <1>7. UNCHANGED <<text, active, lost, ops>>
    BY DEF CheckPollSet
  <1>8. left \subseteq DOMAIN gp_children
    OBVIOUS
  <1>9. CASE left = {}
    <2>1. Cleanup(high)
      BY <1>9 DEF CheckPollSet
    <2> HIDE DEF high, left, hi, new, child
    <2>2. /\ tc_searching' = tc_searching - gp_child_queue_size
          /\ Start(gp_queue, << >>, 0, high, text)
      BY <2>1 DEF Cleanup, GrepEnd
    <2>3. /\ DOMAIN << >> = {} /\ << >> \in [DOMAIN << >> -> Child]
          /\ gp_queue \in Seq(Request) /\ text \in Seq(BOOLEAN)
      BY DEF TypeOK
    <2>4. /\ ProcType'
          /\ Len(gp_queue)' + gp_child_queue_size' = Len(gp_queue) + 0
          /\ (DOMAIN gp_children = {} =>
                  gp_queue = << >> /\ gp_child_queue_size = 0)'
      BY <1>3, <2>2, <2>3, StartKeeps
    <2>5. tc_searching' = Len(gp_queue) /\ Len(gp_queue) \in Nat
      BY <2>2, <2>3 DEF SearchBalance, TypeOK
    <2>6. TypeOK'
      BY <1>6, <1>7, <2>4, <2>5 DEF TypeOK, ProcType
    <2>7. SearchBalance'
      BY <2>4, <2>5 DEF SearchBalance
    <2>8. active
      BY DEF QueueWaits
    <2>9. QueueWaits'
      BY <1>7, <2>4, <2>8 DEF QueueWaits
    <2> QED BY <2>6, <2>7, <2>9
  <1>10. CASE left # {}
    <2>1. /\ gp_highest_line' = high
          /\ gp_children' =
               [j \in left |-> IF j = i THEN new ELSE gp_children[j]]
          /\ UNCHANGED <<gp_queue, gp_child_queue_size, tc_searching>>
      BY <1>10 DEF CheckPollSet
    <2> HIDE DEF high, left, hi, new, child
    <2>2. /\ DOMAIN gp_children' = left
          /\ gp_children' \in [left -> Child]
      BY <1>5, <1>8, <2>1 DEF TypeOK
    <2>3. TypeOK'
      BY <1>3, <1>6, <1>7, <1>8, <2>1, <2>2 DEF TypeOK
    <2>4. active
      BY DEF QueueWaits
    <2> QED
      BY <1>7, <1>10, <2>1, <2>2, <2>3, <2>4 DEF SearchBalance, QueueWaits
  <1> QED BY <1>9, <1>10

-----------------------------------------------------------------------------
(* The operations of the view.                                             *)

\* Requests added to a live search are counted once each.
LEMMA EnqueueIInv ==
    ASSUME IInv, NEW reqs \in Seq(Request), NEW erased, active,
           text' \in Seq(BOOLEAN), active' = active, ops' \in Nat, lost' \subseteq Nat,
           Enqueue(reqs, erased)
    PROVE  IInv'
  <1> USE DEF IInv
  <1>1. gp_queue \in Seq(Request) /\ gp_queue \o reqs \in Seq(Request)
        /\ Len(gp_queue \o reqs) = Len(gp_queue) + Len(reqs)
        /\ Len(gp_queue) \in Nat /\ Len(reqs) \in Nat
    BY DEF TypeOK
  <1> DEFINE q == gp_queue \o reqs
  <1>2. /\ tc_searching' = tc_searching + Len(reqs)
        /\ bm_search' = bm_search \ erased
        /\ Start(q, gp_children, gp_child_queue_size,
                 gp_highest_line, text')
    BY DEF Enqueue
  <1>3. /\ DOMAIN gp_children \subseteq 1..MAX_CHILDREN
        /\ gp_children \in [DOMAIN gp_children -> Child]
        /\ gp_child_queue_size \in Nat /\ gp_highest_line \in Nat
        /\ DOMAIN gp_children = {} => gp_child_queue_size = 0
    BY DEF TypeOK, QueueWaits
  <1>4. q \in Seq(Request) /\ Len(q) = Len(gp_queue) + Len(reqs)
    BY <1>1
  <1> HIDE DEF q
  <1>5. /\ ProcType'
        /\ Len(gp_queue)' + gp_child_queue_size' = Len(q) + gp_child_queue_size
        /\ (DOMAIN gp_children = {} =>
                gp_queue = << >> /\ gp_child_queue_size = 0)'
    BY <1>2, <1>3, <1>4, StartKeeps
  <1>6. tc_searching' = Len(q) + gp_child_queue_size /\ tc_searching' \in Nat
    BY <1>1, <1>2, <1>3, <1>4 DEF SearchBalance, TypeOK
  <1>7. TypeOK'
    BY <1>2, <1>5, <1>6 DEF TypeOK, ProcType
  <1>8. SearchBalance'
    BY <1>5, <1>6 DEF SearchBalance
  <1>9. QueueWaits'
    BY <1>5 DEF QueueWaits
  <1> QED BY <1>7, <1>8, <1>9

\* invalidate() settles every outstanding request before the new ones count.
LEMMA RestartIInv ==
    ASSUME IInv, NEW reqs \in Seq(Request), text' \in Seq(BOOLEAN),
           active' \in BOOLEAN, ~active' => reqs = << >>, ops' \in Nat,
           Restart(reqs)
    PROVE  IInv'
  <1> USE DEF IInv
  <1>1. /\ tc_searching' = tc_searching - Len(gp_queue) - gp_child_queue_size
                             + Len(reqs)
        /\ bm_search' = {} /\ lost' = {}
        /\ Start(reqs, << >>, 0, 0, text')
    BY DEF Restart
  <1>2. /\ DOMAIN << >> = {} /\ << >> \in [DOMAIN << >> -> Child]
        /\ Len(reqs) \in Nat
    OBVIOUS
  <1>3. Len(gp_queue) \in Nat /\ gp_child_queue_size \in Nat
    BY DEF TypeOK
  <1>4. /\ ProcType'
        /\ Len(gp_queue)' + gp_child_queue_size' = Len(reqs) + 0
        /\ (DOMAIN gp_children = {} =>
                gp_queue = << >> /\ gp_child_queue_size = 0)'
        /\ reqs = << >> => DOMAIN gp_children' = {}
    BY <1>1, <1>2, StartKeeps
  <1>5. tc_searching' = Len(reqs)
    BY <1>1, <1>2, <1>3 DEF SearchBalance
  <1>6. TypeOK'
    BY <1>1, <1>2, <1>4, <1>5 DEF TypeOK, ProcType
  <1>7. SearchBalance'
    BY <1>2, <1>4, <1>5 DEF SearchBalance
  <1>8. QueueWaits'
    BY <1>4 DEF QueueWaits
  <1> QED BY <1>6, <1>7, <1>8

\* An operation that leaves the search alone.
LEMMA IdleIInv ==
    ASSUME IInv, text' \in Seq(BOOLEAN), active' = active, ops' \in Nat, lost' \subseteq Nat,
           UNCHANGED <<gp, tc_searching, bm_search>>
    PROVE  IInv'
  BY DEF IInv, TypeOK, SearchBalance, QueueWaits, gp

\* Every operation of the bounded environment advances its counter.
LEMMA CountType == ASSUME IInv, Count PROVE ops' \in Nat
  BY DEF IInv, TypeOK, Count

\* The lines that have lost their match are lines.
LEMMA LostType == ASSUME IInv PROVE lost \subseteq Nat
  BY DEF IInv, TypeOK

\* search_new_data() after the text has become another one.
LEMMA SearchNewDataIInv ==
    ASSUME IInv, NEW s \in Nat \cup {NoLine}, text' \in Seq(BOOLEAN),
           s = NoLine \/ s <= Len(text'),
           active' = active, ops' \in Nat, lost' \subseteq Nat, SearchNewData(s)
    PROVE  IInv'
  <1>1. CASE active
    <2> DEFINE u == UntilEof(Len(text'))
    <2>1. u \in Until /\ u.line = Len(text')
      BY DEF UntilEof, Until
    <2>2. Enqueue(QueueRequest(s, u), Erased(s, u))
      BY <1>1 DEF SearchNewData
    <2> HIDE DEF u
    <2>3. QueueRequest(s, u) \in Seq(Request)
      BY <2>1, QueueRequestType
    <2> QED BY <1>1, <2>2, <2>3, EnqueueIInv
  <1>2. CASE ~active
    BY <1>2, IdleIInv DEF SearchNewData
  <1> QED BY <1>1, <1>2

\* The texts of the bounded environment are sequences of lines.
LEMMA TextsType == ASSUME NEW n \in Nat PROVE Texts(n) \subseteq Seq(BOOLEAN)
  BY DEF Texts

\* Completing the last line of a text gives a text of the same length, and no
\* other line is touched.
LEMMA CompletedType ==
    ASSUME NEW t \in Seq(BOOLEAN), NEW now \in BOOLEAN
    PROVE  /\ [t EXCEPT ![Len(t)] = now] \in Seq(BOOLEAN)
           /\ Len([t EXCEPT ![Len(t)] = now]) = Len(t)
           /\ \A i \in 1..Len(t) : [t EXCEPT ![Len(t)] = now][i] =
                                      IF i = Len(t) THEN now ELSE t[i]
  <1> DEFINE u == [t EXCEPT ![Len(t)] = now]
  <1>1. Len(t) \in Nat /\ t \in [1..Len(t) -> BOOLEAN]
    OBVIOUS
  <1>2. u \in [1..Len(t) -> BOOLEAN] /\ DOMAIN u = 1..Len(t)
    BY <1>1
  <1>3. \A i \in 1..Len(t) : u[i] = IF i = Len(t) THEN now ELSE t[i]
    BY <1>1, Zenon
  <1> HIDE DEF u
  <1>4. u \in Seq(BOOLEAN)
    BY <1>1, <1>2
  <1>5. Len(u) = Len(t)
    BY <1>1, <1>2, <1>4
  <1> QED BY <1>3, <1>4, <1>5 DEF u

\* A new search settles the old one and counts its own two ranges.
LEMMA ExecuteSearchIInv ==
    ASSUME IInv, NEW txt \in Seq(BOOLEAN), NEW top \in Nat,
           top < Len(text) \/ top = 0, ExecuteSearch(txt, top)
    PROVE  IInv'
  <1> DEFINE below == QueueRequest(top, UntilEof(Len(txt)))
             above == IF top > 0 THEN QueueRequest(0, UntilLine(top))
                                 ELSE << >>
  <1>1. /\ Len(txt) = Len(text) /\ text' = txt /\ active' = TRUE /\ Count
        /\ Restart(below \o above)
    BY DEF ExecuteSearch
  <1>2. top <= Len(txt) /\ Len(txt) \in Nat
    BY <1>1
  <1>3. /\ UntilEof(Len(txt)) \in Until /\ UntilEof(Len(txt)).line = Len(txt)
        /\ UntilLine(top) \in Until /\ UntilLine(top).line = top
    BY <1>2 DEF Until, UntilEof, UntilLine
  <1>4. below \in Seq(Request)
    BY <1>2, <1>3, QueueRequestType
  <1>5. above \in Seq(Request)
    <2>1. QueueRequest(0, UntilLine(top)) \in Seq(Request)
      BY <1>3, QueueRequestType
    <2> QED BY <2>1
  <1> HIDE DEF below, above
  <1>6. below \o above \in Seq(Request)
    BY <1>4, <1>5
  <1> QED BY <1>1, <1>6, CountType, RestartIInv

\* Clearing the search settles everything and leaves no child.
LEMMA ClearSearchIInv == ASSUME IInv, ClearSearch PROVE IInv'
  <1>1. << >> \in Seq(Request) /\ text \in Seq(BOOLEAN)
    BY DEF IInv, TypeOK
  <1>2. text' = text /\ active' = FALSE /\ Count /\ Restart(<< >>)
    BY DEF ClearSearch
  <1> QED BY <1>1, <1>2, CountType, RestartIInv

\* Marking lines queues their range and the new data, each counted once.
LEMMA ToggleUserMarkIInv ==
    ASSUME IInv, NEW a \in Nat, NEW b \in Nat, ToggleUserMark(a, b)
    PROVE  IInv'
  <1> DEFINE marked == QueueRequest(a, UntilLine(b + 1))
             rest == QueueRequest(NoLine, UntilEof(Len(text)))
  <1>1. /\ a <= b /\ text' = text /\ active' = active /\ Count
        /\ text \in Seq(BOOLEAN) /\ Len(text) \in Nat
    BY DEF ToggleUserMark, IInv, TypeOK
  <1>2. ops' \in Nat /\ lost' \subseteq Nat
    BY <1>1, CountType, LostType DEF ToggleUserMark
  <1>3. CASE active
    <2>1. Enqueue(marked \o rest, Erased(a, UntilLine(b + 1)))
      BY <1>3 DEF ToggleUserMark
    <2>2. /\ UntilLine(b + 1) \in Until /\ UntilLine(b + 1).line = b + 1
          /\ UntilEof(Len(text)) \in Until
      BY <1>1 DEF UntilLine, UntilEof, Until
    <2>3. marked \in Seq(Request)
      BY <1>1, <2>2, QueueRequestType
    <2>4. rest \in Seq(Request)
      BY <2>2, QueueRequestType
    <2> HIDE DEF marked, rest
    <2>5. marked \o rest \in Seq(Request)
      BY <2>3, <2>4
    <2> QED BY <1>1, <1>2, <1>3, <2>1, <2>5, EnqueueIInv
  <1>4. CASE ~active
    BY <1>1, <1>2, <1>4, IdleIInv DEF ToggleUserMark
  <1> QED BY <1>3, <1>4

\* A change of the text queues what search_new_data() or redo_search() asks for
\* and keeps the books.
LEMMA TextStepIInv == ASSUME IInv, TextStep PROVE IInv'
  <1>1. text \in Seq(BOOLEAN) /\ MaxLines \in Nat /\ NoLine \in Nat \cup {NoLine}
    BY BoundsAssumption DEF IInv, TypeOK
  <1>2. Texts(MaxLines) \subseteq Seq(BOOLEAN) /\ Texts(1) \subseteq Seq(BOOLEAN)
    BY <1>1, TextsType
  <1>3. ASSUME NEW new \in Texts(MaxLines), AppendLines(new) PROVE IInv'
    <2>1. /\ text' = text \o new /\ Count /\ active' = active
          /\ SearchNewData(NoLine) /\ lost' = lost
      BY <1>3 DEF AppendLines
    <2>2. text' \in Seq(BOOLEAN)
      BY <1>1, <1>2, <2>1
    <2> QED BY <1>1, <2>1, <2>2, CountType, LostType, SearchNewDataIInv
  <1>4. ASSUME NEW now \in BOOLEAN, NEW new \in Texts(1), GrowLastLine(now, new)
        PROVE  IInv'
    <2>1. /\ text' = [text EXCEPT ![Len(text)] = now] \o new /\ Count
          /\ active' = active /\ SearchNewData(NoLine)
      BY <1>4 DEF GrowLastLine
    <2>2. [text EXCEPT ![Len(text)] = now] \in Seq(BOOLEAN)
      BY <1>1, CompletedType
    <2>4. lost' \subseteq lost \cup {Len(text) - 1} /\ text # << >>
      BY <1>4 DEF GrowLastLine
    <2>5. Len(text) - 1 \in Nat
      BY <1>1, <2>4
    <2>6. lost' \subseteq Nat
      BY <2>4, <2>5, LostType
    <2>3. text' \in Seq(BOOLEAN)
      BY <1>2, <2>1, <2>2
    <2> QED BY <1>1, <2>1, <2>3, <2>6, CountType, SearchNewDataIInv
  <1>5. ASSUME NEW k \in 0..(MaxLines - 1), NEW tail \in Texts(MaxLines),
               PartialRebuild(k, tail)
        PROVE  IInv'
    <2>1. /\ k < Len(text) /\ k + Len(tail) >= Len(text) + 1
          /\ text' = SubSeq(text, 1, k) \o tail
          /\ Count /\ active' = active /\ SearchNewData(k) /\ lost' = lost
      BY <1>5 DEF PartialRebuild
    <2>2. k \in Nat /\ tail \in Seq(BOOLEAN)
      BY <1>1, <1>2
    <2>3. SubSeq(text, 1, k) \in Seq(BOOLEAN) /\ Len(SubSeq(text, 1, k)) = k
      BY <1>1, <2>1, <2>2
    <2>4. text' \in Seq(BOOLEAN) /\ Len(text') = k + Len(tail)
      BY <2>1, <2>2, <2>3
    <2>5. k <= Len(text')
      BY <2>2, <2>4
    <2> QED BY <2>1, <2>2, <2>4, <2>5, CountType, LostType, SearchNewDataIInv
  <1>6. ASSUME NEW txt \in Texts(MaxLines), FullRebuild(txt) PROVE IInv'
    <2>1. txt \in Seq(BOOLEAN) /\ Len(txt) \in Nat
      BY <1>2
    <2>2. text' = txt /\ Count /\ active' = active
      BY <1>6 DEF FullRebuild
    <2>3. CASE active
      <3>1. Restart(QueueRequest(0, UntilEof(Len(txt))))
        BY <1>6, <2>3 DEF FullRebuild
      <3>2. UntilEof(Len(txt)) \in Until /\ UntilEof(Len(txt)).line = Len(txt)
        BY <2>1 DEF UntilEof, Until
      <3>3. QueueRequest(0, UntilEof(Len(txt))) \in Seq(Request)
        BY <2>1, <3>2, QueueRequestType
      <3>4. active' \in BOOLEAN /\ active'
        BY <2>2, <2>3 DEF IInv, TypeOK
      <3> QED BY <2>1, <2>2, <3>1, <3>3, <3>4, CountType, RestartIInv
    <2>4. CASE ~active
      <3>1. UNCHANGED <<gp, tc_searching, bm_search, lost>>
        BY <1>6, <2>4 DEF FullRebuild
      <3> QED BY <2>1, <2>2, <3>1, CountType, LostType, IdleIInv
    <2> QED BY <2>3, <2>4
  <1> QED BY <1>3, <1>4, <1>5, <1>6 DEF TextStep

\* Every step of the specification preserves the invariant.
LEMMA NextIInv == IInv /\ [Next]_vars => IInv'
  <1> SUFFICES ASSUME IInv, [Next]_vars PROVE IInv'
    OBVIOUS
  <1>1. CASE SomeChildStep
    BY <1>1, ChildStepIInv DEF SomeChildStep
  <1>2. CASE SomePoll
    BY <1>2, CheckPollSetIInv DEF SomePoll
  <1>3. CASE UserStep
    <2>1. MaxLines \in Nat /\ Texts(MaxLines) \subseteq Seq(BOOLEAN)
      BY BoundsAssumption, TextsType
    <2>2. ASSUME NEW txt \in Texts(MaxLines), NEW top \in 0..MaxLines,
                 (top < Len(text) \/ top = 0), ExecuteSearch(txt, top)
          PROVE  IInv'
      <3>1. txt \in Seq(BOOLEAN) /\ top \in Nat
        BY <2>1
      <3> QED BY <2>2, <3>1, ExecuteSearchIInv
    <2>3. ASSUME NEW a \in 0..(MaxLines - 1), NEW b \in 0..(MaxLines - 1),
                 ToggleUserMark(a, b)
          PROVE  IInv'
      <3>1. a \in Nat /\ b \in Nat
        BY <2>1
      <3> QED BY <2>3, <3>1, ToggleUserMarkIInv
    <2> QED BY <1>3, <2>2, <2>3, ClearSearchIInv DEF UserStep
  <1>4. CASE TextStep
    BY <1>4, TextStepIInv
  <1>5. CASE UNCHANGED vars
    BY <1>5 DEF vars, gp, IInv, TypeOK, SearchBalance, QueueWaits
  <1> QED BY <1>1, <1>2, <1>3, <1>4, <1>5 DEF Next

\* The invariant behind the next three theorems, for every value of the
\* constants: any interleaving of the user, the indexer, the children and the
\* main loop.
THEOREM InvariantTheorem == Spec => []IInv
  BY InitIInv, NextIInv, PTL DEF Spec

\* Every variable keeps its type; in particular grep_end() never drives the
\* view's counter below zero, which its ensure() asserts.
THEOREM TypeTheorem == Spec => []TypeOK
  <1>1. IInv => TypeOK
    BY DEF IInv
  <1> QED BY <1>1, InvariantTheorem, PTL

\* The view's counter is always the number of requests queued or handed out.
THEOREM BalanceTheorem == Spec => []SearchBalance
  <1>1. IInv => SearchBalance
    BY DEF IInv
  <1> QED BY <1>1, InvariantTheorem, PTL

\* No request waits in the queue of a grep_proc that has no child, and a view
\* without a search has no child.
THEOREM QueueTheorem == Spec => []QueueWaits
  <1>1. IInv => QueueWaits
    BY DEF IInv
  <1> QED BY <1>1, InvariantTheorem, PTL

-----------------------------------------------------------------------------
(* Hits are matches, or were while the line was unfinished, as long as the  *)
(* text only grows at its end or is rebuilt as a whole.  (A partial rebuild *)
(* renumbers lines under running children and does break it.)  What makes   *)
(* it true: a child's copy of the text is never ahead of the text, so what  *)
(* matched in the copy matches now or is known to be lost.                  *)

\* Line l of t is there and matches.
Match(t, l) == l < Len(t) /\ t[l + 1]

\* Line l of t is there and matches, or is one of those that have lost it.
Shown(t, gone, l) == l < Len(t) /\ (t[l + 1] \/ l \in gone)

HitInv ==
    /\ HitsAreMatches
    /\ ~active => bm_search = {}
    /\ \A i \in DOMAIN gp_children :
          /\ \A l \in Nat : Match(gp_children[i].snap, l) => Shown(text, lost, l)
          /\ \A l \in gp_children[i].out : Match(gp_children[i].snap, l)

\* What start() does to the children when the text is at least txt.
LEMMA StartHits ==
    ASSUME NEW q \in Seq(Request), NEW kids, NEW size, NEW high \in Nat,
           NEW txt \in Seq(BOOLEAN), NEW t2, NEW gone,
           \A l \in Nat : Match(txt, l) => Shown(t2, gone, l),
           \A i \in DOMAIN kids :
              /\ \A l \in Nat : Match(kids[i].snap, l) => Shown(t2, gone, l)
              /\ \A l \in kids[i].out : Match(kids[i].snap, l),
           Start(q, kids, size, high, txt)
    PROVE  \A i \in DOMAIN gp_children' :
              /\ \A l \in Nat :
                    Match(gp_children'[i].snap, l) => Shown(t2, gone, l)
              /\ \A l \in gp_children'[i].out : Match(gp_children'[i].snap, l)
  <1>1. CASE DOMAIN kids # {} \/ q = << >>
    BY <1>1 DEF Start
  <1>2. CASE ~(DOMAIN kids # {} \/ q = << >>)
    <2>1. gp_children' = Fork(q, high, txt)
      BY <1>2 DEF Start
    <2>2. \A c \in DOMAIN Fork(q, high, txt) :
             /\ Fork(q, high, txt)[c].snap = txt
             /\ Fork(q, high, txt)[c].out = {}
      BY <1>2, ForkType
    <2> QED BY <2>1, <2>2
  <1> QED BY <1>1, <1>2

\* A child only reports lines that match in its copy.
LEMMA FoundMatch ==
    ASSUME NEW child \in Child, NEW r \in Request, NEW l \in FoundLines(child, r)
    PROVE  l \in Nat /\ Match(child.snap, l)
  <1>1. /\ child.snap \in Seq(BOOLEAN) /\ child.high \in Nat
        /\ Len(child.snap) \in Nat
        /\ r.line \in Nat /\ r.start \in Nat \cup {NoLine}
    BY DEF Child, Request
  <1>2. First(child, r) \in Nat
    BY <1>1 DEF First
  <1>3. /\ Last(child, r) \in Nat
        /\ Last(child, r) <= First(child, r) \/ Last(child, r) <= Len(child.snap)
    BY <1>1, <1>2 DEF Last, Larger
  <1>4. /\ l \in First(child, r) .. (Last(child, r) - 1)
        /\ child.snap[l + 1]
    BY DEF FoundLines
  <1>5. l \in Nat /\ l < Len(child.snap)
    BY <1>1, <1>2, <1>3, <1>4
  <1> QED BY <1>4, <1>5 DEF Match

\* A child prints only lines that match in its copy of the text.
LEMMA ChildStepHits ==
    ASSUME IInv, HitInv, NEW i \in DOMAIN gp_children, ChildStep(i)
    PROVE  HitInv'
  <1> DEFINE child == gp_children[i]
             r == Head(child.reqs)
             new == [child EXCEPT
                       !.reqs = Tail(child.reqs),
                       !.out  = child.out \cup FoundLines(child, r),
                       !.hi   = HighestSeen(child, r)]
  <1>1. child \in Child
    BY DEF IInv, TypeOK
  <1>2. r \in Request
    BY <1>1 DEF Child, ChildStep
  <1>3. /\ new.snap = child.snap
        /\ new.out = child.out \cup FoundLines(child, r)
    BY <1>1 DEF Child
  <1>4. \A l \in FoundLines(child, r) : Match(child.snap, l)
    BY <1>1, <1>2, FoundMatch
  <1>5. /\ gp_children' = [gp_children EXCEPT ![i] = new]
        /\ UNCHANGED <<text, active, bm_search, lost>>
    BY DEF ChildStep
  <1> HIDE DEF new
  <1>6. /\ DOMAIN gp_children' = DOMAIN gp_children
        /\ \A j \in DOMAIN gp_children :
              gp_children'[j] = IF j = i THEN new ELSE gp_children[j]
    BY <1>5 DEF IInv, TypeOK
  <1>7. \A j \in DOMAIN gp_children' :
           /\ \A l \in Nat : Match(gp_children'[j].snap, l) => Shown(text, lost, l)
           /\ \A l \in gp_children'[j].out : Match(gp_children'[j].snap, l)
    BY <1>3, <1>4, <1>6 DEF HitInv
  <1>8. HitsAreMatches' /\ (~active' => bm_search' = {})
    BY <1>5 DEF HitInv, HitsAreMatches
  <1>9. text' = text /\ lost' = lost
    BY <1>5
  <1> QED BY <1>7, <1>8, <1>9 DEF HitInv, Match, Shown

\* What is read from a child still matches in the text as it is now.
LEMMA CheckPollSetHits ==
    ASSUME IInv, HitInv, NEW i \in DOMAIN gp_children,
           NEW b \in SUBSET gp_children[i].out, CheckPollSet(i, b)
    PROVE  HitInv'
  <1> DEFINE child == gp_children[i]
             high == IF Drained(b, child)
                     THEN Larger(gp_highest_line, child.hi)
                     ELSE gp_highest_line
             left == IF Drained(b, child) /\ child.reqs = << >>
                     THEN DOMAIN gp_children \ {i}
                     ELSE DOMAIN gp_children
             hi == IF Drained(b, child) THEN NoLine ELSE child.hi
             new == [child EXCEPT !.out = child.out \ b, !.hi = hi]
  <1>1. child \in Child
    BY DEF IInv, TypeOK
  <1>2. new.snap = child.snap /\ new.out = child.out \ b
    BY <1>1 DEF Child
  <1>3. /\ text' = text /\ lost' = lost /\ active' = active /\ active
        /\ bm_search' = bm_search \cup b
    BY DEF CheckPollSet, GrepMatch, IInv, QueueWaits
  <1>4. \A l \in b : Shown(text, lost, l)
    BY <1>1 DEF HitInv, Child
  <1>5. HitsAreMatches' /\ (~active' => bm_search' = {})
    BY <1>3, <1>4 DEF HitInv, HitsAreMatches, Match, Shown
  <1>6. high \in Nat
    BY <1>1 DEF IInv, TypeOK, Larger, NoLine, Child
  <1>7. CASE left = {}
    <2>1. Start(gp_queue, << >>, 0, high, text)
      BY <1>7 DEF CheckPollSet, GrepMatch, Cleanup, GrepEnd
    <2> HIDE DEF high, left, hi, new, child
    <2>2. gp_queue \in Seq(Request) /\ text \in Seq(BOOLEAN) /\ DOMAIN << >> = {}
      BY DEF IInv, TypeOK
    <2>4. \A l \in Nat : Match(text, l) => Shown(text, lost, l)
      BY DEF Match, Shown
    <2>3. \A j \in DOMAIN gp_children' :
             /\ \A l \in Nat : Match(gp_children'[j].snap, l) => Shown(text, lost, l)
             /\ \A l \in gp_children'[j].out : Match(gp_children'[j].snap, l)
      BY <1>6, <2>1, <2>2, <2>4, StartHits
    <2> QED BY <1>3, <1>5, <2>3 DEF HitInv, Match, Shown
  <1>8. CASE left # {}
    <2>1. gp_children' =
               [j \in left |-> IF j = i THEN new ELSE gp_children[j]]
      BY <1>8 DEF CheckPollSet, GrepMatch
    <2>2. left \subseteq DOMAIN gp_children
      OBVIOUS
    <2> HIDE DEF high, left, hi, new
    <2>3. \A j \in DOMAIN gp_children' :
             /\ \A l \in Nat : Match(gp_children'[j].snap, l) => Shown(text, lost, l)
             /\ \A l \in gp_children'[j].out : Match(gp_children'[j].snap, l)
      BY <1>2, <2>1, <2>2 DEF HitInv
    <2> QED BY <1>3, <1>5, <2>3 DEF HitInv, Match, Shown
  <1> QED BY <1>7, <1>8

\* More requests for a text that has only grown.
LEMMA EnqueueHits ==
    ASSUME IInv, HitInv, NEW reqs \in Seq(Request), NEW erased, active,
           text' \in Seq(BOOLEAN), active' = active,
           \A l \in Nat : Shown(text, lost, l) => Shown(text', lost', l),
           Enqueue(reqs, erased)
    PROVE  HitInv'
  <1> DEFINE q == gp_queue \o reqs
  <1>1. q \in Seq(Request) /\ gp_highest_line \in Nat /\ bm_search \subseteq Nat
    BY DEF IInv, TypeOK
  <1>2. /\ bm_search' = bm_search \ erased
        /\ Start(q, gp_children, gp_child_queue_size, gp_highest_line, text')
    BY DEF Enqueue
  <1> HIDE DEF q
  <1>3. \A j \in DOMAIN gp_children :
           /\ \A l \in Nat : Match(gp_children[j].snap, l) => Shown(text', lost', l)
           /\ \A l \in gp_children[j].out : Match(gp_children[j].snap, l)
    BY DEF HitInv
  <1>4. \A j \in DOMAIN gp_children' :
           /\ \A l \in Nat : Match(gp_children'[j].snap, l) => Shown(text', lost', l)
           /\ \A l \in gp_children'[j].out : Match(gp_children'[j].snap, l)
    <2>1. \A l \in Nat : Match(text', l) => Shown(text', lost', l)
      BY DEF Match, Shown
    <2> QED BY <1>1, <1>2, <1>3, <2>1, StartHits
  <1>5. \A l \in bm_search' : Shown(text', lost', l)
    BY <1>1, <1>2 DEF HitInv, HitsAreMatches, Match, Shown
  <1> QED BY <1>4, <1>5 DEF HitInv, HitsAreMatches, Match, Shown

\* A new run scans the new text with no hit left of the old one.
LEMMA RestartHits ==
    ASSUME NEW reqs \in Seq(Request), text' \in Seq(BOOLEAN), Restart(reqs)
    PROVE  HitInv'
  <1>1. bm_search' = {} /\ Start(reqs, << >>, 0, 0, text') /\ DOMAIN << >> = {}
    BY DEF Restart
  <1>2. \A j \in DOMAIN gp_children' :
           /\ \A l \in Nat : Match(gp_children'[j].snap, l) => Shown(text', lost', l)
           /\ \A l \in gp_children'[j].out : Match(gp_children'[j].snap, l)
    <2>1. \A l \in Nat : Match(text', l) => Shown(text', lost', l)
      BY DEF Match, Shown
    <2> QED BY <1>1, <2>1, StartHits
  <1> QED BY <1>1, <1>2 DEF HitInv, HitsAreMatches, Match, Shown

\* A view without a search has neither hits nor children to go stale.
LEMMA IdleHits ==
    ASSUME IInv, HitInv, ~active, active' = active,
           UNCHANGED <<gp, tc_searching, bm_search>>
    PROVE  HitInv'
  <1>1. DOMAIN gp_children' = {} /\ bm_search' = {}
    BY DEF IInv, QueueWaits, HitInv, gp
  <1> QED BY <1>1 DEF HitInv, HitsAreMatches

\* Requests from a line of the text to its end, and up to a line.
LEMMA RangeRequests ==
    ASSUME NEW s \in Nat \cup {NoLine}, NEW n \in Nat, s = NoLine \/ s <= n
    PROVE  /\ QueueRequest(s, UntilEof(n)) \in Seq(Request)
           /\ QueueRequest(s, UntilLine(n)) \in Seq(Request)
  <1>1. /\ UntilEof(n) \in Until /\ UntilEof(n).line = n
        /\ UntilLine(n) \in Until /\ UntilLine(n).line = n
    BY DEF UntilEof, UntilLine, Until
  <1> QED BY <1>1, QueueRequestType

\* Searching new data drops bookmarks and forks children of the new text.
LEMMA SearchNewDataHits ==
    ASSUME IInv, HitInv, text' \in Seq(BOOLEAN), active' = active,
           \A l \in Nat : Shown(text, lost, l) => Shown(text', lost', l),
           SearchNewData(NoLine)
    PROVE  HitInv'
  <1>1. CASE active
    <2>1. QueueRequest(NoLine, UntilEof(Len(text'))) \in Seq(Request)
      <3> DEFINE n == Len(text')
      <3>1. n \in Nat /\ NoLine \in Nat \cup {NoLine}
        OBVIOUS
      <3> HIDE DEF n
      <3>2. QueueRequest(NoLine, UntilEof(n)) \in Seq(Request)
        BY <3>1, RangeRequests
      <3> QED BY <3>2 DEF n
    <2> QED BY <1>1, <2>1, EnqueueHits DEF SearchNewData
  <1>2. CASE ~active
    BY <1>2, IdleHits DEF SearchNewData
  <1> QED BY <1>1, <1>2

\* No operation of the user leaves a stale hit behind.
LEMMA UserStepHits ==
    ASSUME IInv, HitInv, UserStep
    PROVE  HitInv'
  <1>1. /\ MaxLines \in Nat /\ Texts(MaxLines) \subseteq Seq(BOOLEAN)
        /\ text \in Seq(BOOLEAN) /\ Len(text) \in Nat
    BY BoundsAssumption, TextsType DEF IInv, TypeOK
  <1>2. ASSUME NEW txt \in Texts(MaxLines), NEW top \in 0..MaxLines,
               top < Len(text) \/ top = 0, ExecuteSearch(txt, top)
        PROVE  HitInv'
    <2> DEFINE below == QueueRequest(top, UntilEof(Len(txt)))
               above == IF top > 0 THEN QueueRequest(0, UntilLine(top))
                                   ELSE << >>
    <2>1. Len(txt) = Len(text) /\ text' = txt /\ Restart(below \o above)
      BY <1>2 DEF ExecuteSearch
    <2>2. top \in Nat /\ top <= Len(txt) /\ txt \in Seq(BOOLEAN)
      BY <1>1, <1>2, <2>1
    <2>3. below \in Seq(Request) /\ QueueRequest(0, UntilLine(top)) \in Seq(Request)
      <3>1. 0 \in Nat \cup {NoLine} /\ top \in Nat \cup {NoLine}
            /\ Len(txt) \in Nat
        BY <2>2
      <3> QED BY <2>2, <3>1, RangeRequests
    <2>4. above \in Seq(Request)
      BY <2>3
    <2> HIDE DEF below, above
    <2>5. below \o above \in Seq(Request)
      BY <2>3, <2>4
    <2> QED BY <2>1, <2>2, <2>5, RestartHits
  <1>3. ASSUME ClearSearch PROVE HitInv'
    <2>1. << >> \in Seq(Request) /\ text' = text /\ Restart(<< >>)
      BY <1>3 DEF ClearSearch
    <2> QED BY <1>1, <2>1, RestartHits
  <1>4. ASSUME NEW a \in 0..(MaxLines - 1), NEW b \in 0..(MaxLines - 1),
               ToggleUserMark(a, b)
        PROVE  HitInv'
    <2> DEFINE marked == QueueRequest(a, UntilLine(b + 1))
               rest == QueueRequest(NoLine, UntilEof(Len(text)))
    <2>1. /\ a \in Nat /\ b + 1 \in Nat /\ a <= b + 1
          /\ text' = text /\ active' = active /\ lost' = lost
      BY <1>1, <1>4 DEF ToggleUserMark
    <2>2. CASE active
      <3>1. Enqueue(marked \o rest, Erased(a, UntilLine(b + 1)))
        BY <1>4, <2>2 DEF ToggleUserMark
      <3>2. marked \in Seq(Request) /\ rest \in Seq(Request)
        BY <1>1, <2>1, RangeRequests
      <3> HIDE DEF marked, rest
      <3>3. marked \o rest \in Seq(Request)
        BY <3>2
      <3>4. \A l \in Nat : Shown(text, lost, l) => Shown(text', lost', l)
        BY <2>1
      <3> QED BY <1>1, <2>1, <2>2, <3>1, <3>3, <3>4, EnqueueHits
    <2>3. CASE ~active
      BY <1>4, <2>1, <2>3, IdleHits DEF ToggleUserMark
    <2> QED BY <2>2, <2>3
  <1> QED BY <1>2, <1>3, <1>4 DEF UserStep

\* No change of the text other than a partial rebuild makes a hit stale, unless
\* the line has lost its match when it was completed.
LEMMA TextStepHits ==
    ASSUME "partial" \notin Changes, IInv, HitInv, TextStep
    PROVE  HitInv'
  <1>1. /\ MaxLines \in Nat /\ Texts(MaxLines) \subseteq Seq(BOOLEAN)
        /\ Texts(1) \subseteq Seq(BOOLEAN)
        /\ text \in Seq(BOOLEAN) /\ Len(text) \in Nat
    BY BoundsAssumption, TextsType DEF IInv, TypeOK
  <1>2. ASSUME NEW new \in Texts(MaxLines), AppendLines(new) PROVE HitInv'
    <2>1. /\ text' = text \o new /\ active' = active /\ SearchNewData(NoLine)
          /\ lost' = lost
      BY <1>2 DEF AppendLines
    <2>2. text' \in Seq(BOOLEAN)
      BY <1>1, <2>1
    <2>3. \A l \in Nat : Shown(text, lost, l) => Shown(text', lost', l)
      BY <1>1, <2>1 DEF Shown
    <2> QED BY <2>1, <2>2, <2>3, SearchNewDataHits
  <1>3. ASSUME NEW now \in BOOLEAN, NEW new \in Texts(1), GrowLastLine(now, new)
        PROVE  HitInv'
    <2> DEFINE whole == [text EXCEPT ![Len(text)] = now]
    <2>1. /\ text' = whole \o new /\ active' = active /\ SearchNewData(NoLine)
          /\ lost' = lost \cup {l \in {Len(text) - 1} : text[l + 1] /\ ~now}
      BY <1>3 DEF GrowLastLine
    <2>2. /\ whole \in Seq(BOOLEAN) /\ Len(whole) = Len(text)
          /\ \A i \in 1..Len(text) : whole[i] = IF i = Len(text) THEN now ELSE text[i]
      BY <1>1, CompletedType
    <2> HIDE DEF whole
    <2>3. text' \in Seq(BOOLEAN)
      BY <1>1, <2>1, <2>2
    <2>4. ASSUME NEW l \in Nat, Shown(text, lost, l) PROVE Shown(text', lost', l)
      <3>1. l < Len(text) /\ (text[l + 1] \/ l \in lost)
        BY <2>4 DEF Shown
      <3>2. l < Len(text') /\ l + 1 \in 1..Len(text) /\ text'[l + 1] = whole[l + 1]
        BY <1>1, <2>1, <2>2, <3>1
      <3>3. CASE l \in lost
        BY <2>1, <3>2, <3>3 DEF Shown
      <3>4. CASE l # Len(text) - 1 /\ text[l + 1]
        <4>1. l + 1 # Len(text)
          BY <1>1, <3>4
        <4>2. whole[l + 1] = text[l + 1]
          BY <2>2, <3>2, <4>1
        <4> QED BY <3>2, <3>4, <4>2 DEF Shown
      <3>5. CASE l = Len(text) - 1 /\ text[l + 1]
        <4>1. l + 1 = Len(text)
          BY <1>1, <3>5
        <4>2. whole[l + 1] = now
          BY <2>2, <3>2, <4>1
        <4>3. now \/ l \in lost'
          BY <2>1, <3>5, Zenon
        <4> QED BY <3>2, <4>2, <4>3 DEF Shown
      <3> QED BY <3>1, <3>3, <3>4, <3>5
    <2> QED BY <2>1, <2>3, <2>4, SearchNewDataHits
  <1>4. ASSUME NEW txt \in Texts(MaxLines), FullRebuild(txt) PROVE HitInv'
    <2>1. text' = txt /\ active' = active /\ txt \in Seq(BOOLEAN)
          /\ Len(txt) \in Nat /\ 0 \in Nat /\ 0 <= Len(txt)
      BY <1>1, <1>4 DEF FullRebuild
    <2>2. QueueRequest(0, UntilEof(Len(txt))) \in Seq(Request)
      <3>1. 0 \in Nat \cup {NoLine} /\ 0 <= Len(txt) /\ Len(txt) \in Nat
        BY <2>1
      <3> QED BY <3>1, RangeRequests
    <2>3. CASE active
      <3>1. Restart(QueueRequest(0, UntilEof(Len(txt))))
        BY <1>4, <2>3 DEF FullRebuild
      <3> QED BY <2>1, <2>2, <3>1, RestartHits
    <2>4. CASE ~active
      BY <1>4, <2>1, <2>4, IdleHits DEF FullRebuild
    <2> QED BY <2>3, <2>4
  <1> QED BY <1>2, <1>3, <1>4 DEF TextStep, PartialRebuild

\* While the source only appends lines, completes its last one or is rebuilt
\* as a whole, every bookmark of the view is on a line that matches the current
\* pattern, or did so until the line was completed: no late line of a child, of
\* an older pattern or otherwise of an older text, reaches the bookmarks.
THEOREM HitsTheorem ==
    ASSUME "partial" \notin Changes
    PROVE  Spec => []HitsAreMatches
  <1>1. Init => HitInv
    BY DEF Init, HitInv, HitsAreMatches
  <1>2. IInv /\ HitInv /\ [Next]_vars => HitInv'
    <2> SUFFICES ASSUME IInv, HitInv, [Next]_vars PROVE HitInv'
      OBVIOUS
    <2>1. CASE SomeChildStep
      BY <2>1, ChildStepHits DEF SomeChildStep
    <2>2. CASE SomePoll
      BY <2>2, CheckPollSetHits DEF SomePoll
    <2>3. CASE UserStep
      BY <2>3, UserStepHits
    <2>4. CASE TextStep
      BY <2>4, TextStepHits
    <2>5. CASE UNCHANGED vars
      BY <2>5 DEF vars, gp, HitInv, HitsAreMatches, Match, Shown
    <2> QED BY <2>1, <2>2, <2>3, <2>4, <2>5 DEF Next
  <1>3. HitInv => HitsAreMatches
    BY DEF HitInv
  <1> QED BY <1>1, <1>2, <1>3, InvariantTheorem, PTL DEF Spec
=============================================================================
