------------------------- MODULE GrepCompleteProofs -------------------------
(***************************************************************************)
(* Proof that no match is missing when a search is over (SearchComplete),  *)
(* for every text, chunk size, number of children and batch size, as long  *)
(* as lines are complete when they are indexed.                            *)
(*                                                                         *)
(* The idea: at every moment each matching line is accounted for.  It is   *)
(* bookmarked; or a child has printed it, or has a request that will find  *)
(* it in its copy of the text; or a queued request asks for it by number;  *)
(* or it is beyond everything that can become gp_highest_line before the   *)
(* next start(), and a request that begins there is queued.                *)
(***************************************************************************)
EXTENDS GrepProcProofs

\* Line l has been printed by a child, or a request of a child will find it.
Held(kids, l) ==
    \E i \in DOMAIN kids :
        \/ l \in kids[i].out
        \/ \E k \in 1..Len(kids[i].reqs) : l \in FoundLines(kids[i], kids[i].reqs[k])

\* A request with a start of its own covers line l, whatever the text is.
Covers(r, l) ==
    r.start # NoLine /\ r.start <= l /\ (r.type = "line" => l < r.line)

Asked(q, l) == \E k \in 1..Len(q) : Covers(q[k], l)

\* No child has reported, or will report, a highest line above l.
Beyond(kids, high, l) ==
    /\ high <= l
    /\ \A i \in DOMAIN kids :
          /\ kids[i].hi <= l
          /\ \A k \in 1..Len(kids[i].reqs) :
                kids[i].reqs[k].type = "eof" => Last(kids[i], kids[i].reqs[k]) <= l

\* A request for what follows gp_highest_line is queued.
Follows(r) == r.start = NoLine /\ r.type = "eof"
Continued(q) == \E k \in 1..Len(q) : Follows(q[k])

Accounted(bm, q, kids, high, l) ==
    \/ l \in bm
    \/ Held(kids, l)
    \/ Asked(q, l)
    \/ Continued(q) /\ Beyond(kids, high, l)

\* Nothing queued or reported is past the end of a text of n lines.
Within(q, kids, high, n) ==
    /\ Beyond(kids, high, n)
    /\ \A k \in 1..Len(q) : q[k].start <= n

\* Every matching line is accounted for.
AllAccounted(t, bm, q, kids, high) ==
    \A l \in 0..(Len(t) - 1) : t[l + 1] => Accounted(bm, q, kids, high, l)

CompleteInv ==
    active =>
        /\ Within(gp_queue, gp_children, gp_highest_line, Len(text))
        /\ DOMAIN gp_children # {} => gp_child_queue_size > 0
        /\ AllAccounted(text, bm_search, gp_queue, gp_children, gp_highest_line)
-----------------------------------------------------------------------------
(* What is queued, and what becomes of it.                                 *)

\* Integer division rounds down.
LEMMA DivRest ==
    ASSUME NEW a \in Nat, NEW n \in Nat \ {0}
    PROVE  a < n * (a \div n) + n
  OBVIOUS

\* ... and to the greatest quotient that fits.
LEMMA DivGreatest ==
    ASSUME NEW a \in Nat, NEW n \in Nat \ {0}, NEW e \in Nat, n * e <= a
    PROVE  e <= a \div n
  <1> DEFINE d == a \div n
  <1>1. d \in Nat /\ a < n * d + n
    BY DivBound, DivRest
  <1> HIDE DEF d
  <1>2. n * e < n * (d + 1)
    BY <1>1
  <1>3. e < d + 1
    BY <1>1, <1>2
  <1> QED BY <1>1, <1>3 DEF d

\* queue_request() asks for every line of its range, and begins no request
\* after the range.
LEMMA QueueRequestCovers ==
    ASSUME NEW s \in Nat, NEW until \in Until, s <= until.line
    PROVE  /\ \A l \in s..(until.line - 1) : Asked(QueueRequest(s, until), l)
           /\ \A k \in 1..Len(QueueRequest(s, until)) :
                 QueueRequest(s, until)[k].start <= until.line
  <1> DEFINE C == CHUNK_SIZE
             m == until.line
             n == (m - s + C - 1) \div C
             R(i) == MkRequest(s + (i - 1) * C,
                               IF i < n THEN UntilLine(s + i * C) ELSE until)
  <1>1. C \in Nat \ {0} /\ m \in Nat /\ s <= m /\ m - s + C - 1 \in Nat
    BY BoundsAssumption DEF Until
  <1>2. n \in Nat /\ C * n <= m - s + C - 1
    BY <1>1, DivBound
  <1>3. QueueRequest(s, until) = [i \in 1..n |-> R(i)]
    BY DEF QueueRequest, NoLine
  <1>4. \A i : R(i).start = s + (i - 1) * C
    BY DEF MkRequest
  <1> HIDE DEF R, n, m, C
  <1>5. /\ Len(QueueRequest(s, until)) = n
        /\ \A i \in 1..n : QueueRequest(s, until)[i] = R(i)
    BY <1>2, <1>3
  <1>6. ASSUME NEW l \in s..(m - 1) PROVE Asked(QueueRequest(s, until), l)
    <2> DEFINE d == (l - s) \div C
    <2>1. l - s \in Nat /\ l \in Nat /\ l < m
      BY <1>1
    <2>2. d \in Nat /\ C * d <= l - s /\ l - s < C * d + C
      BY <1>1, <2>1, DivBound, DivRest
    <2> HIDE DEF d
    <2>3. C * (d + 1) <= m - s + C - 1
      BY <1>1, <2>1, <2>2
    <2>4. d + 1 <= n
      BY <1>1, <2>2, <2>3, DivGreatest DEF n
    <2> DEFINE i == d + 1
    <2>5. i \in 1..n /\ (i - 1) * C = C * d /\ i * C = C * d + C
      BY <1>1, <1>2, <2>2, <2>4
    <2> HIDE DEF i
    <2>6. C * d \in Nat
      BY <1>1, <2>2, MulNat
    <2>7. /\ R(i).start = s + C * d
          /\ R(i).type = "line" => R(i).line = s + C * d + C \/ R(i).line = m
      <3>1. /\ R(i).start = s + (i - 1) * C
            /\ i < n => R(i).line = s + i * C
            /\ ~(i < n) => R(i).line = m
        BY DEF R, MkRequest, UntilLine, m
      <3> QED BY <1>1, <3>1, <2>5, <2>6
    <2>8. Covers(R(i), l)
      BY <1>1, <2>1, <2>2, <2>6, <2>7 DEF Covers, NoLine
    <2> QED BY <1>5, <2>5, <2>8 DEF Asked
  <1>7. ASSUME NEW k \in 1..n PROVE R(k).start <= m
    <2>1. k - 1 \in Nat /\ k <= n
      BY <1>2
    <2>2. C * k <= C * n
      BY <1>1, <1>2, <2>1
    <2>3. (k - 1) * C = C * k - C /\ C * k \in Nat /\ C * n \in Nat
      BY <1>1, <1>2, <2>1, MulNat
    <2> QED BY <1>1, <1>2, <1>4, <2>2, <2>3
  <1> QED BY <1>5, <1>6, <1>7 DEF m

\* The k-th request of a queue of length len goes to one of n children.
LEMMA RoundRobinFinds ==
    ASSUME NEW len \in Nat, NEW n \in Nat \ {0}, n <= len, NEW k \in 1..len
    PROVE  \E c \in 1..n : \E j \in 1..((len - c) \div n + 1) :
              k = (j - 1) * n + c
  <1> DEFINE d == (k - 1) \div n
             c == k - n * d
  <1>1. k - 1 \in Nat /\ k \in Nat
    OBVIOUS
  <1>2. d \in Nat /\ n * d <= k - 1 /\ k - 1 < n * d + n
    BY <1>1, DivBound, DivRest
  <1> HIDE DEF d
  <1>3. n * d \in Nat
    BY <1>2, MulNat
  <1>4. c \in 1..n /\ len - c \in Nat /\ n * d <= len - c
    BY <1>1, <1>2, <1>3
  <1> HIDE DEF c
  <1>5. d <= (len - c) \div n /\ (len - c) \div n \in Nat
    BY <1>2, <1>4, DivGreatest, DivBound
  <1> DEFINE e == (len - c) \div n
             j == d + 1
  <1>6. j \in 1..(e + 1) /\ (j - 1) * n + c = k
    <2>1. e \in Nat /\ d <= e
      BY <1>5
    <2> HIDE DEF e
    <2> QED BY <1>1, <1>2, <1>3, <2>1 DEF c
  <1> HIDE DEF j, e
  <1> QED BY <1>4, <1>6 DEF e

\* Every request of the queue is handed to a child, and to no child anything else;
\* all children have the text and the highest line of the fork.
Hands(kids, q, high, txt) ==
    /\ \A k \in 1..Len(q) : \E c \in DOMAIN kids :
          \E j \in 1..Len(kids[c].reqs) : kids[c].reqs[j] = q[k]
    /\ \A c \in DOMAIN kids :
          /\ kids[c].snap = txt /\ kids[c].high = high /\ kids[c].hi = NoLine
          /\ \A j \in 1..Len(kids[c].reqs) : \E k \in 1..Len(q) : kids[c].reqs[j] = q[k]

LEMMA ForkHands ==
    ASSUME NEW q \in Seq(Request), q # << >>, NEW high \in Nat,
           NEW txt \in Seq(BOOLEAN)
    PROVE  Hands(Fork(q, high, txt), q, high, txt)
  <1> DEFINE n == IF Len(q) < MAX_CHILDREN THEN Len(q) ELSE MAX_CHILDREN
             m(c) == (Len(q) - c) \div n + 1
             reqs(c) == [k \in 1..m(c) |-> q[(k - 1) * n + c]]
             kid(c) == [reqs |-> reqs(c), snap |-> txt, high |-> high,
                        out |-> {}, hi |-> NoLine]
             F == Fork(q, high, txt)
  <1>1. Len(q) \in Nat \ {0} /\ MAX_CHILDREN \in Nat \ {0}
    BY BoundsAssumption
  <1>2. n \in Nat \ {0} /\ n <= Len(q)
    BY <1>1
  <1>3. F = [c \in 1..n |-> kid(c)]
    BY DEF Fork
  <1> HIDE DEF n, F
  <1>4. DOMAIN F = 1..n /\ \A c \in 1..n : F[c] = kid(c)
    BY <1>3
  <1>5. ASSUME NEW c \in 1..n
        PROVE  /\ m(c) \in Nat /\ Len(reqs(c)) = m(c)
               /\ \A j \in 1..m(c) : /\ (j - 1) * n + c \in 1..Len(q)
                                     /\ reqs(c)[j] = q[(j - 1) * n + c]
    <2>1. c <= Len(q) /\ Len(q) - c \in Nat /\ Len(q) \in Nat
      BY <1>1, <1>2
    <2>2. (Len(q) - c) \div n \in Nat
      BY <2>1, <1>2, DivBound
    <2>3. m(c) \in Nat
      BY <2>2
    <2>4. ASSUME NEW k \in 1..m(c) PROVE (k - 1) * n + c \in 1..Len(q)
      BY <2>1, <1>2, RoundRobinIndex
    <2> HIDE DEF m
    <2>5. \A k \in 1..m(c) : q[(k - 1) * n + c] \in Request
      BY <2>4
    <2>6. reqs(c) \in Seq(Request) /\ Len(reqs(c)) = m(c)
      BY <2>3, <2>5
    <2> QED BY <2>3, <2>4, <2>6
  <1>6. ASSUME NEW k \in 1..Len(q)
        PROVE  \E c \in 1..n : \E j \in 1..m(c) : k = (j - 1) * n + c
    BY <1>1, <1>2, RoundRobinFinds, ZenonT(30)
  <1> HIDE DEF m, reqs
  <1>7. \A c \in 1..n : /\ kid(c).reqs = reqs(c) /\ kid(c).snap = txt
                        /\ kid(c).high = high /\ kid(c).hi = NoLine
    OBVIOUS
  <1> HIDE DEF kid
  <1>8. \A k \in 1..Len(q) : \E c \in DOMAIN F :
           \E j \in 1..Len(F[c].reqs) : F[c].reqs[j] = q[k]
    <2> SUFFICES ASSUME NEW k \in 1..Len(q)
                 PROVE  \E c \in DOMAIN F :
                           \E j \in 1..Len(F[c].reqs) : F[c].reqs[j] = q[k]
      OBVIOUS
    <2>1. PICK c \in 1..n : \E j \in 1..m(c) : k = (j - 1) * n + c
      BY <1>6
    <2>2. PICK j \in 1..m(c) : k = (j - 1) * n + c
      BY <2>1
    <2>3. F[c].reqs = reqs(c) /\ Len(reqs(c)) = m(c) /\ reqs(c)[j] = q[k]
      BY <1>4, <1>5, <1>7, <2>2
    <2> QED BY <1>4, <2>3
  <1>9. \A c \in DOMAIN F :
           /\ F[c].snap = txt /\ F[c].high = high /\ F[c].hi = NoLine
           /\ \A j \in 1..Len(F[c].reqs) : \E k \in 1..Len(q) : F[c].reqs[j] = q[k]
    <2> SUFFICES ASSUME NEW c \in DOMAIN F
                 PROVE  /\ F[c].snap = txt /\ F[c].high = high /\ F[c].hi = NoLine
                        /\ \A j \in 1..Len(F[c].reqs) :
                              \E k \in 1..Len(q) : F[c].reqs[j] = q[k]
      OBVIOUS
    <2>1. c \in 1..n /\ F[c] = kid(c)
      BY <1>4
    <2>2. /\ F[c].reqs = reqs(c) /\ F[c].snap = txt
          /\ F[c].high = high /\ F[c].hi = NoLine
      BY <1>7, <2>1
    <2>3. ASSUME NEW j \in 1..Len(reqs(c))
          PROVE  \E k \in 1..Len(q) : reqs(c)[j] = q[k]
      BY <1>5, <2>1
    <2> QED BY <2>2, <2>3
  <1> QED BY <1>8, <1>9 DEF F, Hands
-----------------------------------------------------------------------------
(* Starting a run.                                                         *)

\* A child with a copy of the text finds the matching lines that a request asks
\* for by number, and those from the highest line on if it follows that.
LEMMA RequestFinds ==
    ASSUME NEW child, NEW r \in Request, NEW l \in Nat,
           child.snap \in Seq(BOOLEAN), child.high \in Nat,
           l < Len(child.snap), child.snap[l + 1],
           Covers(r, l) \/ (Follows(r) /\ child.high <= l)
    PROVE  l \in FoundLines(child, r)
  <1>1. r.line \in Nat /\ r.start \in Nat \cup {NoLine} /\ Len(child.snap) \in Nat
    BY DEF Request
  <1>2. First(child, r) \in Nat /\ First(child, r) <= l
    BY <1>1 DEF First, Covers, Follows
  <1>3. Last(child, r) \in Nat /\ l < Last(child, r)
    <2>1. r.type = "line" => l < r.line
      BY DEF Covers, Follows
    <2>2. r.type \in {"line", "eof"}
      BY DEF Request
    <2> QED BY <1>1, <1>2, <2>1, <2>2 DEF Last, Larger
  <1> QED BY <1>2, <1>3 DEF FoundLines

\* A run that is started with nobody at work takes over every line that was queued.
LEMMA ForkAccounts ==
    ASSUME NEW q \in Seq(Request), q # << >>, NEW high \in Nat,
           NEW txt \in Seq(BOOLEAN), NEW bm, NEW kids, DOMAIN kids = {},
           Within(q, kids, high, Len(txt)),
           AllAccounted(txt, bm, q, kids, high)
    PROVE  /\ Within(<< >>, Fork(q, high, txt), high, Len(txt))
           /\ AllAccounted(txt, bm, << >>, Fork(q, high, txt), high)
  <1> DEFINE F == Fork(q, high, txt)
             n == Len(txt)
  <1>1. Hands(F, q, high, txt)
    BY ForkHands
  <1>2. \A k \in 1..Len(q) : q[k] \in Request
    OBVIOUS
  <1>3. n \in Nat /\ high <= n /\ \A k \in 1..Len(q) : q[k].start <= n
    BY DEF Within, Beyond
  <1> HIDE DEF F
  <1>4. /\ \A k \in 1..Len(q) : \E c \in DOMAIN F :
              \E j \in 1..Len(F[c].reqs) : F[c].reqs[j] = q[k]
        /\ \A c \in DOMAIN F :
              /\ F[c].snap = txt /\ F[c].high = high /\ F[c].hi = NoLine
              /\ \A j \in 1..Len(F[c].reqs) : \E k \in 1..Len(q) : F[c].reqs[j] = q[k]
    BY <1>1 DEF Hands
  <1>5. Within(<< >>, F, high, n)
    <2>1. ASSUME NEW c \in DOMAIN F, NEW j \in 1..Len(F[c].reqs)
          PROVE  Last(F[c], F[c].reqs[j]) <= n
      <3>1. PICK k \in 1..Len(q) : F[c].reqs[j] = q[k]
        BY <1>4
      <3>2. q[k] \in Request /\ q[k].start <= n
        BY <1>2, <1>3
      <3>3. First(F[c], q[k]) \in Nat /\ First(F[c], q[k]) <= n
        BY <1>4, <1>3, <3>2 DEF First, Request
      <3>4. Last(F[c], q[k]) <= n
        BY <1>4, <1>3, <3>2, <3>3, SMTT(30) DEF Last, Larger, Request
      <3> QED BY <3>1, <3>4
    <2>2. \A c \in DOMAIN F : F[c].hi <= n
      BY <1>4, <1>3 DEF NoLine
    <2>3. Len(<< >>) = 0
      OBVIOUS
    <2> QED BY <1>3, <2>1, <2>2, <2>3 DEF Within, Beyond
  <1>6. AllAccounted(txt, bm, << >>, F, high)
    <2> SUFFICES ASSUME NEW l \in 0..(n - 1), txt[l + 1]
                 PROVE  Accounted(bm, << >>, F, high, l)
      BY DEF AllAccounted
    <2>1. Accounted(bm, q, kids, high, l)
      BY DEF AllAccounted
    <2>2. ~Held(kids, l)
      BY DEF Held
    <2>3. CASE l \in bm
      BY <2>3 DEF Accounted
    <2>4. CASE l \notin bm
      <3>1. PICK k \in 1..Len(q) : Covers(q[k], l) \/ (Follows(q[k]) /\ high <= l)
        BY <2>1, <2>2, <2>4 DEF Accounted, Asked, Continued, Beyond
      <3>2. PICK c \in DOMAIN F : \E j \in 1..Len(F[c].reqs) : F[c].reqs[j] = q[k]
        BY <1>4
      <3>3. PICK j \in 1..Len(F[c].reqs) : F[c].reqs[j] = q[k]
        BY <3>2
      <3>4. /\ q[k] \in Request /\ l \in Nat /\ l < Len(txt)
            /\ F[c].snap = txt /\ F[c].high = high
        BY <1>4, <1>2, <1>3
      <3>5. l \in FoundLines(F[c], q[k])
        BY <3>1, <3>4, RequestFinds
      <3>6. Held(F, l)
        BY <3>3, <3>5 DEF Held
      <3> QED BY <3>6 DEF Accounted
    <2> QED BY <2>3, <2>4
  <1> QED BY <1>5, <1>6 DEF F

\* start() keeps every line accounted for.
LEMMA StartComplete ==
    ASSUME NEW q \in Seq(Request), NEW kids, NEW size \in Nat, NEW high \in Nat,
           NEW txt \in Seq(BOOLEAN), NEW bm,
           DOMAIN kids # {} => size > 0,
           Within(q, kids, high, Len(txt)),
           AllAccounted(txt, bm, q, kids, high),
           Start(q, kids, size, high, txt)
    PROVE  /\ Within(gp_queue', gp_children', gp_highest_line', Len(txt))
           /\ DOMAIN gp_children' # {} => gp_child_queue_size' > 0
           /\ AllAccounted(txt, bm, gp_queue', gp_children', gp_highest_line')
  <1>1. CASE DOMAIN kids # {} \/ q = << >>
    BY <1>1 DEF Start
  <1>2. CASE DOMAIN kids = {} /\ q # << >>
    <2>1. /\ gp_queue' = << >> /\ gp_children' = Fork(q, high, txt)
          /\ gp_child_queue_size' = Len(q) /\ gp_highest_line' = high
      BY <1>2 DEF Start
    <2>2. Len(q) \in Nat /\ Len(q) > 0
      BY <1>2
    <2>3. /\ Within(<< >>, Fork(q, high, txt), high, Len(txt))
          /\ AllAccounted(txt, bm, << >>, Fork(q, high, txt), high)
      BY <1>2, ForkAccounts
    <2> QED BY <2>1, <2>2, <2>3
  <1> QED BY <1>1, <1>2
-----------------------------------------------------------------------------
(* The steps of the children and of the main loop.                         *)

\* What a request finds depends on the child's copy and highest line only.
LEMMA SameCopy ==
    ASSUME NEW a, NEW b, NEW r, a.snap = b.snap, a.high = b.high
    PROVE  Last(a, r) = Last(b, r) /\ FoundLines(a, r) = FoundLines(b, r)
  BY DEF First, Last, FoundLines

\* The bounds of a request are line numbers.
LEMMA LastType ==
    ASSUME NEW child \in Child, NEW r \in Request
    PROVE  Last(child, r) \in Nat
  <1>1. /\ r.line \in Nat /\ r.start \in Nat \cup {NoLine}
        /\ Len(child.snap) \in Nat /\ child.high \in Nat
    BY DEF Request, Child
  <1>2. First(child, r) \in Nat
    BY <1>1 DEF First
  <1> QED BY <1>1, <1>2 DEF Last, Larger

\* A request that is done has left its lines in the output and its end in the
\* highest line.
LEMMA ChildStepComplete ==
    ASSUME IInv, CompleteInv, NEW i \in DOMAIN gp_children, ChildStep(i)
    PROVE  CompleteInv'
  <1> DEFINE child == gp_children[i]
             r == Head(child.reqs)
             new == [child EXCEPT
                       !.reqs = Tail(child.reqs),
                       !.out  = child.out \cup FoundLines(child, r),
                       !.hi   = HighestSeen(child, r)]
  <1>1. child \in Child /\ child.reqs \in Seq(Request) /\ child.reqs # << >>
        /\ child.hi \in Nat \cup {NoLine}
    BY DEF IInv, TypeOK, Child, ChildStep
  <1>2. /\ r \in Request /\ r = child.reqs[1] /\ 1 \in 1..Len(child.reqs)
        /\ Len(Tail(child.reqs)) = Len(child.reqs) - 1
        /\ \A k \in 1..Len(Tail(child.reqs)) :
              k + 1 \in 1..Len(child.reqs) /\ Tail(child.reqs)[k] = child.reqs[k + 1]
        /\ \A k \in 1..Len(child.reqs) :
              k # 1 => k - 1 \in 1..Len(Tail(child.reqs))
                       /\ Tail(child.reqs)[k - 1] = child.reqs[k]
    BY <1>1
  <1>3. /\ new.snap = child.snap /\ new.high = child.high
        /\ new.reqs = Tail(child.reqs)
        /\ new.out = child.out \cup FoundLines(child, r)
        /\ new.hi = HighestSeen(child, r)
    BY <1>1 DEF Child
  <1>4. Last(child, r) \in Nat
    BY <1>1, <1>2, LastType
  <1>5. /\ gp_children' = [gp_children EXCEPT ![i] = new]
        /\ UNCHANGED <<text, active, gp_queue, gp_child_queue_size,
                       gp_highest_line, bm_search>>
    BY DEF ChildStep
  <1> HIDE DEF new, r
  <1>6. /\ DOMAIN gp_children' = DOMAIN gp_children
        /\ gp_children'[i] = new
        /\ \A j \in DOMAIN gp_children : j # i => gp_children'[j] = gp_children[j]
    BY <1>5 DEF IInv, TypeOK
  <1>7. \A p : Last(new, p) = Last(child, p) /\ FoundLines(new, p) = FoundLines(child, p)
    BY <1>3, SameCopy
  <1>8. ASSUME NEW l, Held(gp_children, l) PROVE Held(gp_children', l)
    <2>1. PICK j \in DOMAIN gp_children :
             \/ l \in gp_children[j].out
             \/ \E k \in 1..Len(gp_children[j].reqs) :
                   l \in FoundLines(gp_children[j], gp_children[j].reqs[k])
      BY <1>8 DEF Held
    <2>2. CASE j # i
      BY <1>6, <2>1, <2>2 DEF Held
    <2>3. CASE j = i
      <3>1. CASE l \in child.out
        BY <1>3, <1>6, <3>1 DEF Held
      <3>2. ASSUME NEW k \in 1..Len(child.reqs), l \in FoundLines(child, child.reqs[k])
            PROVE  Held(gp_children', l)
        <4>1. CASE k = 1
          BY <1>2, <1>3, <1>6, <3>2, <4>1 DEF Held
        <4>2. CASE k # 1
          <5>1. /\ k - 1 \in 1..Len(new.reqs)
                /\ l \in FoundLines(new, new.reqs[k - 1])
            BY <1>2, <1>3, <1>7, <3>2, <4>2
          <5> QED BY <1>6, <5>1 DEF Held
        <4> QED BY <4>1, <4>2
      <3> QED BY <2>1, <2>3, <3>1, <3>2
    <2> QED BY <2>2, <2>3
  <1>9. ASSUME NEW l \in Nat, NEW high, Beyond(gp_children, high, l)
        PROVE  Beyond(gp_children', high, l)
    <2>1. /\ high <= l /\ child.hi <= l
          /\ \A k \in 1..Len(child.reqs) :
                child.reqs[k].type = "eof" => Last(child, child.reqs[k]) <= l
      BY <1>9 DEF Beyond
    <2>2. new.hi <= l
      BY <1>1, <1>2, <1>3, <1>4, <2>1 DEF HighestSeen, Larger
    <2>3. ASSUME NEW k \in 1..Len(new.reqs), new.reqs[k].type = "eof"
          PROVE  Last(new, new.reqs[k]) <= l
      <3>1. k + 1 \in 1..Len(child.reqs) /\ new.reqs[k] = child.reqs[k + 1]
        BY <1>2, <1>3
      <3>2. Last(child, child.reqs[k + 1]) <= l
        BY <2>1, <2>3, <3>1
      <3> QED BY <1>7, <3>1, <3>2
    <2> QED BY <1>6, <1>9, <2>1, <2>2, <2>3 DEF Beyond
  <1>10. /\ text' = text /\ active' = active /\ gp_queue' = gp_queue
         /\ gp_child_queue_size' = gp_child_queue_size
         /\ gp_highest_line' = gp_highest_line /\ bm_search' = bm_search
    BY <1>5
  <1> SUFFICES ASSUME active PROVE
         /\ Within(gp_queue, gp_children', gp_highest_line, Len(text))
         /\ DOMAIN gp_children' # {} => gp_child_queue_size > 0
         /\ AllAccounted(text, bm_search, gp_queue, gp_children', gp_highest_line)
    BY <1>10 DEF CompleteInv
  <1>11. Len(text) \in Nat
    BY DEF IInv, TypeOK
  <1>12. Within(gp_queue, gp_children', gp_highest_line, Len(text))
    BY <1>9, <1>11 DEF CompleteInv, Within
  <1>13. AllAccounted(text, bm_search, gp_queue, gp_children', gp_highest_line)
    <2> SUFFICES ASSUME NEW l \in 0..(Len(text) - 1), text[l + 1]
                 PROVE  Accounted(bm_search, gp_queue, gp_children', gp_highest_line, l)
      BY DEF AllAccounted
    <2>1. Accounted(bm_search, gp_queue, gp_children, gp_highest_line, l) /\ l \in Nat
      BY <1>11 DEF CompleteInv, AllAccounted
    <2> QED BY <1>8, <1>9, <2>1 DEF Accounted
  <1> QED BY <1>6, <1>12, <1>13 DEF CompleteInv

\* What is read becomes a bookmark or stays in the pipe; the highest line that is
\* taken over was a bound of the child's already.
LEMMA CheckPollSetComplete ==
    ASSUME IInv, CompleteInv, NEW i \in DOMAIN gp_children,
           NEW b \in SUBSET gp_children[i].out, CheckPollSet(i, b)
    PROVE  CompleteInv'
  <1> DEFINE child == gp_children[i]
             high == IF Drained(b, child)
                     THEN Larger(gp_highest_line, child.hi)
                     ELSE gp_highest_line
             left == IF Drained(b, child) /\ child.reqs = << >>
                     THEN DOMAIN gp_children \ {i}
                     ELSE DOMAIN gp_children
             hi == IF Drained(b, child) THEN NoLine ELSE child.hi
             new == [child EXCEPT !.out = child.out \ b, !.hi = hi]
  <1>1. child \in Child
    BY DEF IInv, TypeOK
  <1>2. child.hi \in Nat \cup {NoLine} /\ gp_highest_line \in Nat
    BY <1>1 DEF Child, IInv, TypeOK
  <1>3. /\ new.snap = child.snap /\ new.high = child.high /\ new.reqs = child.reqs
        /\ new.out = child.out \ b /\ new.hi = hi
    BY <1>1 DEF Child
  <1>4. high \in Nat
    BY <1>2 DEF Larger, NoLine
  <1>5. \A l \in Nat : gp_highest_line <= l /\ child.hi <= l => high <= l /\ hi <= l
    BY <1>2 DEF Larger, NoLine
  <1>6. left \subseteq DOMAIN gp_children
    OBVIOUS
  <1>7. i \notin left => child.out \subseteq b /\ child.reqs = << >>
    BY DEF Drained
  <1>8. \A j \in DOMAIN gp_children : j # i => j \in left
    OBVIOUS
  <1>9. /\ text' = text /\ active' = active /\ active
        /\ bm_search' = bm_search \cup b
    BY DEF CheckPollSet, GrepMatch, IInv, QueueWaits
  <1>10. left = {} => Start(gp_queue, << >>, 0, high, text)
    BY DEF CheckPollSet, GrepMatch, Cleanup, GrepEnd
  <1>11. left # {} =>
            /\ gp_highest_line' = high
            /\ gp_children' = [j \in left |-> IF j = i THEN new ELSE gp_children[j]]
            /\ gp_queue' = gp_queue /\ gp_child_queue_size' = gp_child_queue_size
    BY DEF CheckPollSet, GrepMatch
  <1> HIDE DEF high, left, hi, new
  <1> DEFINE Rest(kids) ==
               /\ DOMAIN kids = left
               /\ \A j \in left : kids[j] = IF j = i THEN new ELSE gp_children[j]
  <1>12. \A p : Last(new, p) = Last(child, p) /\ FoundLines(new, p) = FoundLines(child, p)
    BY <1>3, SameCopy
  <1>13. ASSUME NEW kids, Rest(kids), NEW l, Held(gp_children, l), l \notin b
         PROVE  Held(kids, l)
    <2>1. PICK j \in DOMAIN gp_children :
             \/ l \in gp_children[j].out
             \/ \E k \in 1..Len(gp_children[j].reqs) :
                   l \in FoundLines(gp_children[j], gp_children[j].reqs[k])
      BY <1>13 DEF Held
    <2>2. CASE j # i
      BY <1>8, <1>13, <2>1, <2>2 DEF Held
    <2>3. CASE j = i
      <3>1. i \in left
        <4>1. Len(<< >>) = 0
          OBVIOUS
        <4> QED BY <1>7, <1>13, <2>1, <2>3, <4>1
      <3>2. kids[i] = new
        BY <1>13, <3>1
      <3> QED BY <1>3, <1>12, <1>13, <2>1, <2>3, <3>1, <3>2 DEF Held
    <2> QED BY <2>2, <2>3
  <1>14. ASSUME NEW kids, Rest(kids), NEW l \in Nat, Beyond(gp_children, gp_highest_line, l)
         PROVE  Beyond(kids, high, l)
    <2>1. high <= l /\ hi <= l
      BY <1>5, <1>14 DEF Beyond
    <2>2. \A k \in 1..Len(new.reqs) : new.reqs[k].type = "eof" => Last(new, new.reqs[k]) <= l
      BY <1>3, <1>12, <1>14 DEF Beyond
    <2> QED BY <1>3, <1>6, <1>14, <2>1, <2>2 DEF Beyond
  <1>15. ASSUME NEW kids, Rest(kids)
         PROVE  /\ Within(gp_queue, kids, high, Len(text))
                /\ AllAccounted(text, bm_search \cup b, gp_queue, kids, high)
    <2>1. Len(text) \in Nat
      BY DEF IInv, TypeOK
    <2>2. Within(gp_queue, kids, high, Len(text))
      BY <1>9, <1>14, <1>15, <2>1 DEF CompleteInv, Within
    <2> SUFFICES ASSUME NEW l \in 0..(Len(text) - 1), text[l + 1]
                 PROVE  Accounted(bm_search \cup b, gp_queue, kids, high, l)
      BY <2>2 DEF AllAccounted
    <2>3. Accounted(bm_search, gp_queue, gp_children, gp_highest_line, l) /\ l \in Nat
      BY <1>9, <2>1 DEF CompleteInv, AllAccounted
    <2> QED BY <1>13, <1>14, <1>15, <2>3 DEF Accounted
  <1>16. CASE left = {}
    <2>1. Rest(<< >>) /\ DOMAIN << >> = {}
      BY <1>16
    <2>2. /\ Within(gp_queue, << >>, high, Len(text))
          /\ AllAccounted(text, bm_search \cup b, gp_queue, << >>, high)
      BY <1>15, <2>1
    <2>3. gp_queue \in Seq(Request) /\ text \in Seq(BOOLEAN)
      BY DEF IInv, TypeOK
    <2> HIDE DEF Rest
    <2>4. /\ Within(gp_queue', gp_children', gp_highest_line', Len(text))
          /\ DOMAIN gp_children' # {} => gp_child_queue_size' > 0
          /\ AllAccounted(text, bm_search \cup b, gp_queue', gp_children', gp_highest_line')
      BY <1>4, <1>10, <1>16, <2>1, <2>2, <2>3, StartComplete
    <2> QED BY <1>9, <2>4 DEF CompleteInv
  <1>17. CASE left # {}
    <2>1. Rest(gp_children')
      BY <1>11, <1>17
    <2> HIDE DEF Rest
    <2>2. /\ Within(gp_queue, gp_children', high, Len(text))
          /\ AllAccounted(text, bm_search \cup b, gp_queue, gp_children', high)
      BY <1>15, <2>1
    <2>3. gp_child_queue_size' > 0
      BY <1>9, <1>11, <1>17 DEF CompleteInv
    <2> QED BY <1>9, <1>11, <1>17, <2>2, <2>3 DEF CompleteInv
  <1> QED BY <1>16, <1>17
-----------------------------------------------------------------------------
(* The operations of the view and of the indexer.                          *)

\* Two lists of requests ask together for what each asks for.
LEMMA ConcatAsks ==
    ASSUME NEW p \in Seq(Request), NEW q \in Seq(Request)
    PROVE  /\ \A l : Asked(p \o q, l) <=> Asked(p, l) \/ Asked(q, l)
           /\ Continued(p \o q) <=> Continued(p) \/ Continued(q)
           /\ \A n : (\A k \in 1..Len(p) : p[k].start <= n)
                     /\ (\A k \in 1..Len(q) : q[k].start <= n)
                     => \A k \in 1..Len(p \o q) : (p \o q)[k].start <= n
  <1> DEFINE pq == p \o q
  <1>1. /\ Len(pq) = Len(p) + Len(q) /\ Len(p) \in Nat /\ Len(q) \in Nat
        /\ \A k \in 1..Len(p) : pq[k] = p[k]
        /\ \A k \in 1..Len(q) : pq[Len(p) + k] = q[k]
    OBVIOUS
  <1> HIDE DEF pq
  <1>2. \A k \in 1..Len(p) : k \in 1..Len(pq) /\ pq[k] = p[k]
    BY <1>1
  <1>3. \A k \in 1..Len(q) : Len(p) + k \in 1..Len(pq) /\ pq[Len(p) + k] = q[k]
    BY <1>1
  <1>4. ASSUME NEW k \in 1..Len(pq)
        PROVE  \/ k \in 1..Len(p) /\ pq[k] = p[k]
               \/ k - Len(p) \in 1..Len(q) /\ pq[k] = q[k - Len(p)]
    <2>1. CASE k <= Len(p)
      BY <1>1, <2>1
    <2>2. CASE k > Len(p)
      <3>1. k - Len(p) \in 1..Len(q) /\ Len(p) + (k - Len(p)) = k
        BY <1>1, <2>2
      <3> QED BY <1>3, <3>1
    <2> QED BY <1>1, <2>1, <2>2
  <1>5. \A l : Asked(pq, l) <=> Asked(p, l) \/ Asked(q, l)
    BY <1>2, <1>3, <1>4 DEF Asked
  <1>6. Continued(pq) <=> Continued(p) \/ Continued(q)
    BY <1>2, <1>3, <1>4 DEF Continued
  <1>7. \A n : (\A k \in 1..Len(p) : p[k].start <= n)
               /\ (\A k \in 1..Len(q) : q[k].start <= n)
               => \A k \in 1..Len(pq) : pq[k].start <= n
    BY <1>4
  <1> QED BY <1>5, <1>6, <1>7 DEF pq

\* The start of a request is a number.
LEMMA StartsType ==
    ASSUME NEW q \in Seq(Request)
    PROVE  \A k \in 1..Len(q) : q[k].start \in Int
  <1>1. \A k \in 1..Len(q) : q[k] \in Request
    OBVIOUS
  <1>2. \A r \in Request : r.start \in Int
    BY DEF Request, NoLine
  <1> QED BY <1>1, <1>2

\* What is past the end of the old text is beyond every line that was seen.
LEMMA BeyondEnd ==
    ASSUME NEW kids, kids \in [DOMAIN kids -> Child], NEW high \in Nat,
           NEW n \in Nat, NEW m \in Nat, n <= m, Beyond(kids, high, n)
    PROVE  Beyond(kids, high, m)
  <1>1. ASSUME NEW i \in DOMAIN kids
        PROVE  /\ kids[i].hi <= m
               /\ \A k \in 1..Len(kids[i].reqs) :
                     kids[i].reqs[k].type = "eof" => Last(kids[i], kids[i].reqs[k]) <= m
    <2>1. kids[i] \in Child
      OBVIOUS
    <2>2. kids[i].hi \in Int /\ kids[i].reqs \in Seq(Request)
      BY <2>1 DEF Child, NoLine
    <2>3. \A k \in 1..Len(kids[i].reqs) : Last(kids[i], kids[i].reqs[k]) \in Nat
      BY <2>1, <2>2, LastType
    <2> QED BY <2>2, <2>3 DEF Beyond
  <1>2. high <= m
    BY DEF Beyond
  <1> QED BY <1>1, <1>2 DEF Beyond

\* Requests added to a live search on a text that did not shrink: each line that
\* matches now was there and keeps its bookmark, or is asked for, or is new and
\* the search continues.
LEMMA EnqueueComplete ==
    ASSUME IInv, CompleteInv, NEW reqs \in Seq(Request), NEW erased, active,
           text' \in Seq(BOOLEAN), active' = active, Len(text) <= Len(text'),
           \A k \in 1..Len(reqs) : reqs[k].start <= Len(text'),
           \A l \in 0..(Len(text') - 1) : text'[l + 1] =>
              \/ l < Len(text) /\ text[l + 1] /\ l \notin erased
              \/ Asked(reqs, l)
              \/ Continued(reqs) /\ Len(text) <= l,
           Enqueue(reqs, erased)
    PROVE  CompleteInv'
  <1> DEFINE q == gp_queue \o reqs
             new == text'
             bm == bm_search \ erased
  <1>1. /\ gp_queue \in Seq(Request) /\ q \in Seq(Request) /\ gp_highest_line \in Nat
        /\ gp_child_queue_size \in Nat /\ text \in Seq(BOOLEAN)
        /\ gp_children \in [DOMAIN gp_children -> Child]
    BY DEF IInv, TypeOK
  <1>2. /\ \A l : Asked(q, l) <=> Asked(gp_queue, l) \/ Asked(reqs, l)
        /\ Continued(q) <=> Continued(gp_queue) \/ Continued(reqs)
        /\ \A n : (\A k \in 1..Len(gp_queue) : gp_queue[k].start <= n)
                  /\ (\A k \in 1..Len(reqs) : reqs[k].start <= n)
                  => \A k \in 1..Len(q) : q[k].start <= n
    BY <1>1, ConcatAsks
  <1>3. /\ bm_search' = bm
        /\ Start(q, gp_children, gp_child_queue_size, gp_highest_line, new)
    BY DEF Enqueue
  <1>4. /\ Within(gp_queue, gp_children, gp_highest_line, Len(text))
        /\ DOMAIN gp_children # {} => gp_child_queue_size > 0
        /\ AllAccounted(text, bm_search, gp_queue, gp_children, gp_highest_line)
    BY DEF CompleteInv
  <1>5. /\ new \in Seq(BOOLEAN) /\ Len(new) \in Nat /\ Len(text) \in Nat
        /\ Len(text) <= Len(new)
        /\ \A k \in 1..Len(reqs) : reqs[k].start <= Len(new)
        /\ \A l \in 0..(Len(new) - 1) : new[l + 1] =>
              \/ l < Len(text) /\ text[l + 1] /\ l \notin erased
              \/ Asked(reqs, l)
              \/ Continued(reqs) /\ Len(text) <= l
    BY <1>1
  <1>6. CompleteInv' <=> (active' =>
            /\ Within(gp_queue', gp_children', gp_highest_line', Len(new))
            /\ DOMAIN gp_children' # {} => gp_child_queue_size' > 0
            /\ AllAccounted(new, bm_search', gp_queue', gp_children', gp_highest_line'))
    BY DEF CompleteInv
  <1> HIDE DEF q, new, bm
  <1>7. Within(q, gp_children, gp_highest_line, Len(new))
    <2>1. Beyond(gp_children, gp_highest_line, Len(new))
      BY <1>1, <1>4, <1>5, BeyondEnd DEF Within
    <2>2. \A k \in 1..Len(gp_queue) : gp_queue[k].start <= Len(new)
      <3>1. \A k \in 1..Len(gp_queue) : gp_queue[k].start \in Int
        BY <1>1, StartsType
      <3> QED BY <1>4, <1>5, <3>1 DEF Within
    <2> QED BY <1>2, <1>5, <2>1, <2>2 DEF Within
  <1>8. AllAccounted(new, bm, q, gp_children, gp_highest_line)
    <2> SUFFICES ASSUME NEW l \in 0..(Len(new) - 1), new[l + 1]
                 PROVE  Accounted(bm, q, gp_children, gp_highest_line, l)
      BY DEF AllAccounted
    <2>1. l \in Nat
      BY <1>5
    <2>2. CASE l < Len(text) /\ text[l + 1] /\ l \notin erased
      <3>1. Accounted(bm_search, gp_queue, gp_children, gp_highest_line, l)
        BY <1>4, <1>5, <2>1, <2>2 DEF AllAccounted
      <3> QED BY <1>2, <2>2, <3>1 DEF Accounted, bm
    <2>3. CASE Asked(reqs, l)
      BY <1>2, <2>3 DEF Accounted
    <2>4. CASE Continued(reqs) /\ Len(text) <= l
      <3>1. Beyond(gp_children, gp_highest_line, l)
        BY <1>1, <1>4, <1>5, <2>1, <2>4, BeyondEnd DEF Within
      <3> QED BY <1>2, <2>4, <3>1 DEF Accounted
    <2> QED BY <1>5, <2>2, <2>3, <2>4
  <1>9. /\ Within(gp_queue', gp_children', gp_highest_line', Len(new))
        /\ DOMAIN gp_children' # {} => gp_child_queue_size' > 0
        /\ AllAccounted(new, bm, gp_queue', gp_children', gp_highest_line')
    BY <1>1, <1>3, <1>4, <1>5, <1>7, <1>8, StartComplete
  <1> QED BY <1>3, <1>6, <1>9

\* A fresh run that asks for every line of the text.
LEMMA RestartComplete ==
    ASSUME NEW reqs \in Seq(Request), text' \in Seq(BOOLEAN),
           \A k \in 1..Len(reqs) : reqs[k].start <= Len(text'),
           active' => \A l \in 0..(Len(text') - 1) : Asked(reqs, l),
           Restart(reqs)
    PROVE  CompleteInv'
  <1> DEFINE new == text'
  <1>1. /\ bm_search' = {} /\ Start(reqs, << >>, 0, 0, new) /\ DOMAIN << >> = {}
        /\ new \in Seq(BOOLEAN) /\ Len(new) \in Nat
        /\ \A k \in 1..Len(reqs) : reqs[k].start <= Len(new)
        /\ active' => \A l \in 0..(Len(new) - 1) : Asked(reqs, l)
    BY DEF Restart
  <1>2. CompleteInv' <=> (active' =>
            /\ Within(gp_queue', gp_children', gp_highest_line', Len(new))
            /\ DOMAIN gp_children' # {} => gp_child_queue_size' > 0
            /\ AllAccounted(new, bm_search', gp_queue', gp_children', gp_highest_line'))
    BY DEF CompleteInv
  <1> HIDE DEF new
  <1> SUFFICES ASSUME active'
               PROVE  /\ Within(gp_queue', gp_children', gp_highest_line', Len(new))
                      /\ DOMAIN gp_children' # {} => gp_child_queue_size' > 0
                      /\ AllAccounted(new, {}, gp_queue', gp_children', gp_highest_line')
    BY <1>1, <1>2
  <1>3. Within(reqs, << >>, 0, Len(new))
    BY <1>1 DEF Within, Beyond
  <1>4. AllAccounted(new, {}, reqs, << >>, 0)
    BY <1>1 DEF AllAccounted, Accounted
  <1> QED BY <1>1, <1>3, <1>4, StartComplete

\* The requests from a line of the text to its end, and up to a line.
LEMMA RangeAsks ==
    ASSUME NEW s \in Nat, NEW n \in Nat, s <= n
    PROVE  /\ \A l \in s..(n - 1) : Asked(QueueRequest(s, UntilEof(n)), l)
           /\ \A l \in s..(n - 1) : Asked(QueueRequest(s, UntilLine(n)), l)
           /\ \A k \in 1..Len(QueueRequest(s, UntilEof(n))) :
                 QueueRequest(s, UntilEof(n))[k].start <= n
           /\ \A k \in 1..Len(QueueRequest(s, UntilLine(n))) :
                 QueueRequest(s, UntilLine(n))[k].start <= n
  <1>1. /\ UntilEof(n) \in Until /\ UntilEof(n).line = n
        /\ UntilLine(n) \in Until /\ UntilLine(n).line = n
    BY DEF UntilEof, UntilLine, Until
  <1> QED BY <1>1, QueueRequestCovers

\* The request for what follows the highest line.
LEMMA FollowAsks ==
    ASSUME NEW n \in Nat
    PROVE  /\ QueueRequest(NoLine, UntilEof(n)) \in Seq(Request)
           /\ Continued(QueueRequest(NoLine, UntilEof(n)))
           /\ \A k \in 1..Len(QueueRequest(NoLine, UntilEof(n))) :
                 QueueRequest(NoLine, UntilEof(n))[k].start <= n
  <1> DEFINE r == MkRequest(NoLine, UntilEof(n))
  <1>1. QueueRequest(NoLine, UntilEof(n)) = << r >>
    BY DEF QueueRequest
  <1>2. r \in Request /\ Follows(r) /\ r.start <= n
    BY DEF MkRequest, UntilEof, Request, NoLine, Follows
  <1> HIDE DEF r
  <1>3. << r >> \in Seq(Request) /\ Len(<< r >>) = 1 /\ << r >>[1] = r
    BY <1>2
  <1> QED BY <1>1, <1>2, <1>3 DEF Continued

\* A view without a search promises nothing.
LEMMA IdleComplete == ASSUME ~active, active' = active PROVE CompleteInv'
  BY DEF CompleteInv

\* Appended lines are past everything that was seen.
LEMMA AppendComplete ==
    ASSUME IInv, CompleteInv, NEW new \in Seq(BOOLEAN), AppendLines(new)
    PROVE  CompleteInv'
  <1> DEFINE n == Len(text')
             reqs == QueueRequest(NoLine, UntilEof(n))
  <1>1. text \in Seq(BOOLEAN) /\ text' = text \o new /\ active' = active
    BY DEF AppendLines, IInv, TypeOK
  <1>2. /\ text' \in Seq(BOOLEAN) /\ n \in Nat /\ Len(text) \in Nat /\ Len(text) <= n
        /\ \A l \in 0..(n - 1) : l < Len(text) => text'[l + 1] = text[l + 1]
    BY <1>1
  <1>3. CASE active
    <2>1. Enqueue(reqs, {})
      BY <1>3 DEF AppendLines, SearchNewData, Erased
    <2> HIDE DEF n
    <2>2. /\ reqs \in Seq(Request) /\ Continued(reqs)
          /\ \A k \in 1..Len(reqs) : reqs[k].start <= n
      BY <1>2, FollowAsks
    <2> HIDE DEF reqs
    <2>3. \A l \in 0..(n - 1) : text'[l + 1] =>
              \/ l < Len(text) /\ text[l + 1] /\ l \notin {}
              \/ Asked(reqs, l)
              \/ Continued(reqs) /\ Len(text) <= l
      BY <1>2, <2>2
    <2> QED BY <1>1, <1>2, <1>3, <2>1, <2>2, <2>3, EnqueueComplete DEF n
  <1>4. CASE ~active
    BY <1>1, <1>4, IdleComplete
  <1> QED BY <1>3, <1>4

\* The rows from k on are asked for again; those before are what they were.
LEMMA PartialRebuildComplete ==
    ASSUME IInv, CompleteInv, NEW k \in Nat, NEW tail \in Seq(BOOLEAN),
           PartialRebuild(k, tail)
    PROVE  CompleteInv'
  <1> DEFINE n == Len(text')
             reqs == QueueRequest(k, UntilEof(n))
             front == SubSeq(text, 1, k)
  <1>1. /\ text \in Seq(BOOLEAN) /\ text' = front \o tail /\ active' = active
        /\ k < Len(text) /\ k + Len(tail) \in (Len(text) + 1) .. MaxLines
    BY DEF PartialRebuild, IInv, TypeOK
  <1>2. /\ front \in Seq(BOOLEAN) /\ Len(front) = k
        /\ \A i \in 1..k : front[i] = text[i]
    BY <1>1
  <1> HIDE DEF front
  <1>3. /\ text' \in Seq(BOOLEAN) /\ n = k + Len(tail)
        /\ \A i \in 1..k : text'[i] = text[i]
    <2>1. \A i \in 1..Len(front) : (front \o tail)[i] = front[i]
      BY <1>2
    <2>2. front \o tail \in Seq(BOOLEAN) /\ Len(front \o tail) = k + Len(tail)
      BY <1>2
    <2> QED BY <1>1, <1>2, <2>1, <2>2
  <1>4. n \in Nat /\ Len(text) \in Nat /\ Len(text) <= n /\ k <= n
    BY <1>1, <1>3
  <1>5. CASE active
    <2>1. Enqueue(reqs, Erased(k, UntilEof(n)))
      BY <1>5 DEF PartialRebuild, SearchNewData
    <2> HIDE DEF n
    <2>2. /\ reqs \in Seq(Request)
          /\ \A l \in k..(n - 1) : Asked(reqs, l)
          /\ \A j \in 1..Len(reqs) : reqs[j].start <= n
      BY <1>4, RangeAsks, RangeRequests
    <2>3. \A l \in Nat : l < k => l \notin Erased(k, UntilEof(n))
      BY <1>4 DEF Erased, UntilEof, NoLine
    <2> HIDE DEF reqs
    <2>4. \A l \in 0..(n - 1) : text'[l + 1] =>
              \/ l < Len(text) /\ text[l + 1] /\ l \notin Erased(k, UntilEof(n))
              \/ Asked(reqs, l)
              \/ Continued(reqs) /\ Len(text) <= l
      <3> SUFFICES ASSUME NEW l \in 0..(n - 1), text'[l + 1], ~Asked(reqs, l)
                   PROVE  l < Len(text) /\ text[l + 1] /\ l \notin Erased(k, UntilEof(n))
        OBVIOUS
      <3>1. l \in Nat /\ l < k /\ l + 1 \in 1..k
        BY <1>4, <2>2
      <3>2. text'[l + 1] = text[l + 1] /\ l \notin Erased(k, UntilEof(n))
        BY <1>3, <2>3, <3>1
      <3>3. l < Len(text)
        BY <1>1, <1>4, <3>1
      <3> QED BY <3>2, <3>3
    <2> QED BY <1>1, <1>3, <1>4, <1>5, <2>1, <2>2, <2>4, EnqueueComplete DEF n
  <1>6. CASE ~active
    BY <1>1, <1>6, IdleComplete
  <1> QED BY <1>5, <1>6

\* A full rebuild searches the whole text again.
LEMMA FullRebuildComplete ==
    ASSUME IInv, CompleteInv, NEW txt \in Seq(BOOLEAN), FullRebuild(txt)
    PROVE  CompleteInv'
  <1> DEFINE reqs == QueueRequest(0, UntilEof(Len(txt)))
  <1>1. /\ text' = txt /\ active' = active /\ Len(txt) \in Nat
        /\ 0 \in Nat /\ 0 \in Nat \cup {NoLine} /\ 0 <= Len(txt)
    BY DEF FullRebuild
  <1>2. CASE active
    <2>1. Restart(reqs)
      BY <1>2 DEF FullRebuild
    <2>2. reqs \in Seq(Request)
      BY <1>1, RangeRequests
    <2>3. /\ \A l \in 0..(Len(txt) - 1) : Asked(reqs, l)
          /\ \A k \in 1..Len(reqs) : reqs[k].start <= Len(txt)
      BY <1>1, RangeAsks
    <2> HIDE DEF reqs
    <2> QED BY <1>1, <2>1, <2>2, <2>3, RestartComplete
  <1>3. CASE ~active
    BY <1>1, <1>3, IdleComplete
  <1> QED BY <1>2, <1>3

\* A new search asks for the lines from the top of the window, then for those above.
LEMMA ExecuteSearchComplete ==
    ASSUME IInv, CompleteInv, NEW txt \in Seq(BOOLEAN), NEW top \in Nat,
           top < Len(text) \/ top = 0, ExecuteSearch(txt, top)
    PROVE  CompleteInv'
  <1> DEFINE below == QueueRequest(top, UntilEof(Len(txt)))
             first == QueueRequest(0, UntilLine(top))
             above == IF top > 0 THEN first ELSE << >>
  <1>1. /\ Len(txt) = Len(text) /\ text' = txt /\ Restart(below \o above)
        /\ Len(txt) \in Nat
    BY DEF ExecuteSearch
  <1>2. /\ top <= Len(txt) /\ 0 <= top /\ 0 \in Nat /\ 0 \in Nat \cup {NoLine}
        /\ top \in Nat \cup {NoLine}
    BY <1>1
  <1>3. /\ below \in Seq(Request)
        /\ \A l \in top..(Len(txt) - 1) : Asked(below, l)
        /\ \A k \in 1..Len(below) : below[k].start <= Len(txt)
    BY <1>1, <1>2, RangeRequests, RangeAsks
  <1>4. /\ first \in Seq(Request)
        /\ \A l \in 0..(top - 1) : Asked(first, l)
        /\ \A k \in 1..Len(first) : first[k].start <= top
    BY <1>1, <1>2, RangeRequests, RangeAsks
  <1> HIDE DEF below, first
  <1>5. /\ above \in Seq(Request)
        /\ \A l \in 0..(top - 1) : Asked(above, l)
        /\ \A k \in 1..Len(above) : above[k].start <= Len(txt)
    <2>1. CASE top > 0
      <3>1. \A k \in 1..Len(first) : first[k].start \in Int
        BY <1>4, StartsType
      <3> QED BY <1>1, <1>2, <1>4, <2>1, <3>1
    <2>2. CASE ~(top > 0)
      <3>1. << >> \in Seq(Request) /\ Len(<< >>) = 0 /\ above = << >>
        BY <2>2
      <3>2. 0..(top - 1) = {}
        BY <2>2
      <3> QED BY <3>1, <3>2
    <2> QED BY <2>1, <2>2
  <1> HIDE DEF above
  <1> DEFINE reqs == below \o above
  <1>6. reqs \in Seq(Request)
    BY <1>3, <1>5
  <1>7. \A k \in 1..Len(reqs) : reqs[k].start <= Len(txt)
    BY <1>3, <1>5, ConcatAsks
  <1>8. ASSUME NEW l \in 0..(Len(txt) - 1) PROVE Asked(reqs, l)
    <2>1. l \in top..(Len(txt) - 1) \/ l \in 0..(top - 1)
      BY <1>1
    <2>2. Asked(below, l) \/ Asked(above, l)
      BY <1>3, <1>5, <2>1
    <2> QED BY <1>3, <1>5, <2>2, ConcatAsks
  <1> HIDE DEF reqs
  <1>9. Restart(reqs)
    BY <1>1 DEF reqs
  <1> QED BY <1>1, <1>6, <1>7, <1>8, <1>9, RestartComplete

\* Marked lines lose their bookmarks and are asked for again.
LEMMA ToggleUserMarkComplete ==
    ASSUME IInv, CompleteInv, NEW a \in Nat, NEW b \in Nat, ToggleUserMark(a, b)
    PROVE  CompleteInv'
  <1> DEFINE n == Len(text)
             marked == QueueRequest(a, UntilLine(b + 1))
             rest == QueueRequest(NoLine, UntilEof(n))
             erased == Erased(a, UntilLine(b + 1))
  <1>1. /\ a <= b /\ b < n /\ text' = text /\ active' = active
        /\ text \in Seq(BOOLEAN) /\ n \in Nat
    BY DEF ToggleUserMark, IInv, TypeOK
  <1>2. CASE active
    <2>1. Enqueue(marked \o rest, erased)
      BY <1>2 DEF ToggleUserMark
    <2>2. b + 1 \in Nat /\ a <= b + 1 /\ b + 1 <= n /\ a \in Nat \cup {NoLine}
      BY <1>1
    <2>3. /\ marked \in Seq(Request)
          /\ \A l \in a..(b + 1 - 1) : Asked(marked, l)
          /\ \A k \in 1..Len(marked) : marked[k].start <= b + 1
      <3> DEFINE e == b + 1
      <3>1. e \in Nat /\ a <= e
        BY <2>2
      <3> HIDE DEF e
      <3>2. /\ QueueRequest(a, UntilLine(e)) \in Seq(Request)
            /\ \A l \in a..(e - 1) : Asked(QueueRequest(a, UntilLine(e)), l)
            /\ \A k \in 1..Len(QueueRequest(a, UntilLine(e))) :
                  QueueRequest(a, UntilLine(e))[k].start <= e
        BY <2>2, <3>1, RangeRequests, RangeAsks
      <3> QED BY <3>2 DEF e
    <2> HIDE DEF n
    <2>4. /\ rest \in Seq(Request)
          /\ \A k \in 1..Len(rest) : rest[k].start <= n
      BY <1>1, FollowAsks
    <2>5. \A l \in erased : l \in a..(b + 1 - 1)
      BY DEF Erased, UntilLine, NoLine
    <2> HIDE DEF marked, rest, erased
    <2> DEFINE reqs == marked \o rest
    <2>6. reqs \in Seq(Request)
      BY <2>3, <2>4
    <2>7. \A k \in 1..Len(reqs) : reqs[k].start <= n
      <3>1. \A k \in 1..Len(marked) : marked[k].start \in Int
        BY <2>3, StartsType
      <3>2. \A k \in 1..Len(marked) : marked[k].start <= n
        BY <1>1, <2>2, <2>3, <3>1
      <3> QED BY <2>3, <2>4, <3>2, ConcatAsks
    <2>8. \A l \in erased : Asked(reqs, l)
      BY <2>3, <2>4, <2>5, ConcatAsks
    <2> HIDE DEF reqs
    <2>9. \A l \in 0..(n - 1) : text[l + 1] =>
              \/ l < n /\ text[l + 1] /\ l \notin erased
              \/ Asked(reqs, l)
              \/ Continued(reqs) /\ n <= l
      BY <1>1, <2>8
    <2>10. Enqueue(reqs, erased)
      BY <2>1 DEF reqs
    <2> QED BY <1>1, <1>2, <2>6, <2>7, <2>9, <2>10, EnqueueComplete DEF n
  <1>3. CASE ~active
    BY <1>1, <1>3, IdleComplete
  <1> QED BY <1>2, <1>3

\* When a search is over no match is missing: whatever the user, the indexer, the
\* children and the main loop do in whatever order, every line that matches the
\* current pattern has its bookmark when the counter of active searches is zero,
\* as long as lines are complete when they are indexed.
THEOREM CompleteTheorem ==
    ASSUME "grow_last" \notin Changes
    PROVE  Spec => []SearchComplete
  <1>1. Init => CompleteInv
    BY DEF Init, CompleteInv
  <1>2. IInv /\ CompleteInv /\ [Next]_vars => CompleteInv'
    <2> SUFFICES ASSUME IInv, CompleteInv, [Next]_vars PROVE CompleteInv'
      OBVIOUS
    <2>1. /\ MaxLines \in Nat /\ Texts(MaxLines) \subseteq Seq(BOOLEAN)
      BY BoundsAssumption, TextsType
    <2>2. CASE SomeChildStep
      BY <2>2, ChildStepComplete DEF SomeChildStep
    <2>3. CASE SomePoll
      BY <2>3, CheckPollSetComplete DEF SomePoll
    <2>4. ASSUME NEW txt \in Texts(MaxLines), NEW top \in 0..MaxLines,
                 (top < Len(text) \/ top = 0), ExecuteSearch(txt, top)
          PROVE  CompleteInv'
      <3>1. txt \in Seq(BOOLEAN) /\ top \in Nat
        BY <2>1
      <3> QED BY <2>4, <3>1, ExecuteSearchComplete
    <2>5. ASSUME ClearSearch PROVE CompleteInv'
      BY <2>5 DEF ClearSearch, CompleteInv
    <2>6. ASSUME NEW a \in 0..(MaxLines - 1), NEW b \in 0..(MaxLines - 1),
                 ToggleUserMark(a, b)
          PROVE  CompleteInv'
      <3>1. a \in Nat /\ b \in Nat
        BY <2>1
      <3> QED BY <2>6, <3>1, ToggleUserMarkComplete
    <2>7. ASSUME NEW new \in Texts(MaxLines), AppendLines(new) PROVE CompleteInv'
      BY <2>1, <2>7, AppendComplete
    <2>8. ASSUME NEW k \in 0..(MaxLines - 1), NEW tail \in Texts(MaxLines),
                 PartialRebuild(k, tail)
          PROVE  CompleteInv'
      <3>1. k \in Nat /\ tail \in Seq(BOOLEAN)
        BY <2>1
      <3> QED BY <2>8, <3>1, PartialRebuildComplete
    <2>9. ASSUME NEW txt \in Texts(MaxLines), FullRebuild(txt) PROVE CompleteInv'
      BY <2>1, <2>9, FullRebuildComplete
    <2>10. CASE UNCHANGED vars
      BY <2>10 DEF vars, gp, CompleteInv
    <2>11. CASE UserStep
      BY <2>4, <2>5, <2>6, <2>11 DEF UserStep
    <2>12. CASE TextStep
      BY <2>7, <2>8, <2>9, <2>12 DEF TextStep, GrowLastLine
    <2> QED BY <2>2, <2>3, <2>10, <2>11, <2>12 DEF Next
  <1>3. IInv /\ CompleteInv => SearchComplete
    <2> SUFFICES ASSUME IInv, CompleteInv, active, tc_searching = 0,
                        NEW l \in 0..(Len(text) - 1), text[l + 1]
                 PROVE  l \in bm_search
      BY DEF SearchComplete
    <2>1. /\ gp_queue \in Seq(Request) /\ Len(gp_queue) \in Nat
          /\ gp_child_queue_size \in Nat
      BY DEF IInv, TypeOK
    <2>2. Len(gp_queue) = 0 /\ gp_child_queue_size = 0
      BY <2>1 DEF IInv, SearchBalance
    <2>3. DOMAIN gp_children = {}
      <3>1. DOMAIN gp_children # {} => gp_child_queue_size > 0
        BY DEF CompleteInv
      <3>2. ~(gp_child_queue_size > 0)
        BY <2>2
      <3> QED BY <3>1, <3>2
    <2>4. Accounted(bm_search, gp_queue, gp_children, gp_highest_line, l)
      BY DEF CompleteInv, AllAccounted
    <2> QED BY <2>2, <2>3, <2>4 DEF Accounted, Held, Asked, Continued
  <1> QED BY <1>1, <1>2, <1>3, InvariantTheorem, PTL DEF Spec
=============================================================================
