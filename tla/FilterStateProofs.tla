-------------------------- MODULE FilterStateProofs --------------------------
(***************************************************************************)
(* Proofs about FilterState, for any number of lines, patterns and filters.*)
(*                                                                         *)
(* NewLines is a recursive function over the lines of the file.  It is     *)
(* first shown to be the end of a chain of states, one per line; what a    *)
(* scan does to a filter is then proved by induction along the chain, with *)
(* a loop invariant: Counting for what is never wrong, Collecting for the  *)
(* marks.  Between scans the invariant is Inv: the file has only grown     *)
(* behind the lines seen, but for the last one, and every filter has       *)
(* decided every line (Decided) and remembers the message it must be able  *)
(* to take back.                                                           *)
(***************************************************************************)
EXTENDS FilterState, Induction

-----------------------------------------------------------------------------
(* What logline_new_lines() computes.                                      *)

\* One line of logline_new_lines().
Observed(s, filter, line, i, size) ==
    IF i - 1 >= s.count THEN AddLine(s, filter, line, size) ELSE s

\* g holds the states of a filter before line from+1 and after each line up to
\* n.
Chain(g, s, filter, lines, from, size, n) ==
    /\ g = [i \in from..n |-> g[i]]
    /\ g[from] = s
    /\ \A i \in (from + 1)..n : g[i] = Observed(g[i - 1], filter, lines[i], i, size[i])

\* There is one such chain for every file.
LEMMA ChainExists ==
    ASSUME NEW s, NEW filter, NEW lines, NEW from \in Nat, NEW size,
           NEW len \in Nat, from <= len
    PROVE  \E g : Chain(g, s, filter, lines, from, size, len)
  <1> DEFINE T == { n \in Nat : \E g : Chain(g, s, filter, lines, from, size, from + n) }
  <1>1. 0 \in T
    <2> DEFINE g == [i \in from..from |-> s]
    <2>1. g[from] = s /\ g = [i \in from..from |-> g[i]]
      OBVIOUS
    <2> HIDE DEF g
    <2>2. from + 0 = from /\ (from + 1)..from = {}
      OBVIOUS
    <2>3. Chain(g, s, filter, lines, from, size, from)
      BY <2>1, <2>2 DEF Chain
    <2> QED BY <2>2, <2>3
  <1>2. ASSUME NEW n \in T PROVE n + 1 \in T
    <2> DEFINE m == from + n
    <2>1. PICK g : Chain(g, s, filter, lines, from, size, m)
      OBVIOUS
    <2>2. m \in Nat /\ from <= m /\ from + (n + 1) = m + 1
      OBVIOUS
    <2> HIDE DEF m
    <2> DEFINE new == Observed(g[m], filter, lines[m + 1], m + 1, size[m + 1])
               h == [i \in from..(m + 1) |-> IF i = m + 1 THEN new ELSE g[i]]
    <2>3. /\ h = [i \in from..(m + 1) |-> h[i]]
          /\ h[m + 1] = new
          /\ \A i \in from..m : h[i] = g[i]
      BY <2>2
    <2> HIDE DEF h
    <2>4. h[from] = s
      <3>1. from \in from..m
        BY <2>2
      <3>2. g[from] = s
        BY <2>1 DEF Chain
      <3> QED BY <2>3, <3>1, <3>2
    <2>5. ASSUME NEW i \in (from + 1)..(m + 1)
          PROVE  h[i] = Observed(h[i - 1], filter, lines[i], i, size[i])
      <3>1. CASE i = m + 1
        <4>1. i - 1 = m /\ m \in from..m
          BY <2>2, <3>1
        <4> QED BY <2>3, <3>1, <4>1
      <3>2. CASE i # m + 1
        <4>1. i \in (from + 1)..m /\ i \in from..m /\ i - 1 \in from..m
          BY <2>2, <3>2
        <4> QED BY <2>1, <2>3, <4>1 DEF Chain
      <3> QED BY <3>1, <3>2
    <2>6. Chain(h, s, filter, lines, from, size, m + 1)
      BY <2>3, <2>4, <2>5 DEF Chain
    <2> QED BY <2>2, <2>6
  <1> HIDE DEF T
  <1>3. T \subseteq Nat
    BY DEF T
  <1>4. len - from \in T
    BY <1>1, <1>2, <1>3, SetInduction
  <1>5. from + (len - from) = len
    OBVIOUS
  <1> QED BY <1>4, <1>5 DEF T

\* NewLines is the end of such a chain: its recursion is well founded.
LEMMA NewLinesChain ==
    ASSUME NEW s, NEW filter, NEW lines, Len(lines) \in Nat,
           NEW from \in 0..Len(lines), NEW size
    PROVE  \E g : /\ Chain(g, s, filter, lines, from, size, Len(lines))
                  /\ NewLines(s, filter, lines, from, size) = g[Len(lines)]
  <1> DEFINE after[i \in from..Len(lines)] ==
               IF i = from THEN s
               ELSE IF i - 1 >= after[i - 1].count
                    THEN AddLine(after[i - 1], filter, lines[i], size[i])
                    ELSE after[i - 1]
             body(g) == [i \in from..Len(lines) |->
               IF i = from THEN s
               ELSE IF i - 1 >= g[i - 1].count
                    THEN AddLine(g[i - 1], filter, lines[i], size[i])
                    ELSE g[i - 1]]
  <1>1. PICK g : Chain(g, s, filter, lines, from, size, Len(lines))
    <2>1. from \in Nat /\ from <= Len(lines)
      OBVIOUS
    <2> QED BY <2>1, ChainExists
  <1>2. \A i \in from..Len(lines) : i = from \/ i \in (from + 1)..Len(lines)
    OBVIOUS
  <1>3. g = body(g)
    <2>1. ASSUME NEW i \in from..Len(lines) PROVE g[i] = body(g)[i]
      BY <1>1, <1>2 DEF Chain, Observed
    <2>2. g = [i \in from..Len(lines) |-> g[i]]
      BY <1>1 DEF Chain
    <2> QED BY <2>1, <2>2
  <1>4. \E h : h = body(h)
    BY <1>3
  <1>5. after = body(after)
    BY <1>4
  <1>6. NewLines(s, filter, lines, from, size) = after[Len(lines)]
    BY DEF NewLines
  <1> HIDE DEF after
  <1>7. \A i \in from..Len(lines) : after[i] = body(after)[i]
    BY <1>5
  <1>8. after = [i \in from..Len(lines) |-> after[i]]
    BY <1>5
  <1>9. from \in from..Len(lines) /\ after[from] = s
    BY <1>7
  <1>10. ASSUME NEW i \in (from + 1)..Len(lines)
         PROVE  after[i] = Observed(after[i - 1], filter, lines[i], i, size[i])
    <2>1. i \in from..Len(lines) /\ i # from
      OBVIOUS
    <2> QED BY <1>7, <2>1 DEF Observed
  <1>11. Chain(after, s, filter, lines, from, size, Len(lines))
    BY <1>8, <1>9, <1>10 DEF Chain
  <1> QED BY <1>6, <1>11

-----------------------------------------------------------------------------
(* The operations of text_filter.                                          *)

\* end_of_message() when the file has the lines collected.
LEMMA EndFields ==
    ASSUME NEW s \in FilterRec, NEW size \in Nat, s.count + s.lines <= size
    PROVE  LET e == EndOfMessage(s, size)
           IN  /\ e \in FilterRec
               /\ e.count = s.count + s.lines /\ e.lines = 0 /\ ~e.matched
               /\ e.last.lines = s.lines /\ e.last.matched = s.matched
               /\ \A l : l \in e.mask <=>
                     IF l \in s.count..(s.count + s.lines - 1) THEN s.matched
                     ELSE l \in s.mask
  <1>1. /\ s.count \in Nat /\ s.lines \in Nat /\ s.mhits \in Nat /\ s.hits \in Int
        /\ s.matched \in BOOLEAN /\ s.mask \in SUBSET Nat
    BY DEF FilterRec
  <1> DEFINE n == IF s.lines < size - s.count THEN s.lines ELSE size - s.count
             them == s.count .. (s.count + n - 1)
             m == IF s.matched THEN s.mask \cup them ELSE s.mask \ them
             last == [matched |-> s.matched, lines |-> s.lines, hits |-> s.mhits]
             e == [count |-> s.count + n, hits |-> s.hits + s.mhits,
                   matched |-> FALSE, lines |-> 0, mhits |-> 0, last |-> last, mask |-> m]
  <1>2. EndOfMessage(s, size) = e
    BY DEF EndOfMessage
  <1>3. n = s.lines
    BY <1>1
  <1>4. them \subseteq Nat
    BY <1>1, <1>3
  <1> HIDE DEF n
  <1>5. m \in SUBSET Nat
    BY <1>1, <1>4
  <1>6. \A l : l \in m <=> IF l \in s.count..(s.count + s.lines - 1) THEN s.matched
                           ELSE l \in s.mask
    BY <1>1, <1>3
  <1> HIDE DEF m, them
  <1>7. last \in [matched : BOOLEAN, lines : Nat, hits : Nat]
    BY <1>1
  <1>8. s.count + n \in Nat /\ s.hits + s.mhits \in Int
    BY <1>1, <1>3
  <1>9. last.lines = s.lines /\ last.matched = s.matched
    OBVIOUS
  <1> HIDE DEF last
  <1>10. e \in FilterRec
    BY <1>5, <1>7, <1>8 DEF FilterRec
  <1> QED BY <1>2, <1>3, <1>6, <1>9, <1>10

\* The line itself is counted.
Collected(e, hit) ==
    [e EXCEPT !.matched = @ \/ hit, !.lines = @ + 1,
              !.mhits = IF hit THEN @ + 1 ELSE @]

\* What counting a line leaves of a filter.
LEMMA CollectFields ==
    ASSUME NEW e \in FilterRec, NEW hit \in BOOLEAN
    PROVE  LET a == Collected(e, hit)
           IN  /\ a \in FilterRec
               /\ a.count = e.count /\ a.lines = e.lines + 1
               /\ a.matched <=> (e.matched \/ hit)
               /\ a.mask = e.mask
  <1> DEFINE b == e.matched \/ hit
             m == IF hit THEN e.mhits + 1 ELSE e.mhits
             a == [e EXCEPT !.matched = b, !.lines = e.lines + 1, !.mhits = m]
  <1>1. e.mhits \in Nat /\ e.lines \in Nat
    BY DEF FilterRec
  <1>2. b \in BOOLEAN
    OBVIOUS
  <1>3. m \in Nat /\ e.lines + 1 \in Nat
    BY <1>1
  <1> HIDE DEF b, m
  <1>4. /\ a \in FilterRec /\ a.count = e.count /\ a.lines = e.lines + 1 /\ a.matched = b
        /\ a.mask = e.mask
    BY <1>2, <1>3 DEF FilterRec
  <1>5. a = Collected(e, hit)
    BY DEF b, m, FilterRec, Collected
  <1> HIDE DEF a
  <1> QED BY <1>4, <1>5 DEF b

\* add_line() for a line that goes on with the message,
LEMMA AddFields ==
    ASSUME NEW s \in FilterRec, NEW filter, NEW line, NEW size, ~line.msg
    PROVE  LET a == AddLine(s, filter, line, size)
           IN  /\ a \in FilterRec
               /\ a.count = s.count /\ a.lines = s.lines + 1
               /\ a.matched <=> (s.matched \/ filter.pattern \in line.hit)
               /\ a.mask = s.mask
  <1> DEFINE hit == filter.pattern \in line.hit
  <1>1. hit \in BOOLEAN
    OBVIOUS
  <1>2. AddLine(s, filter, line, size) = Collected(s, hit)
    BY DEF AddLine, Collected
  <1> HIDE DEF hit
  <1>3. LET a == Collected(s, hit)
        IN  /\ a \in FilterRec
            /\ a.count = s.count /\ a.lines = s.lines + 1
            /\ a.matched <=> (s.matched \/ hit)
            /\ a.mask = s.mask
    BY <1>1, CollectFields
  <1> QED BY <1>2, <1>3 DEF hit

\* and for one that starts the next message.
LEMMA NextFields ==
    ASSUME NEW s \in FilterRec, NEW filter, NEW line, NEW size \in Nat, line.msg,
           s.count + s.lines <= size
    PROVE  LET a == AddLine(s, filter, line, size)
           IN  /\ a \in FilterRec
               /\ a.count = s.count + s.lines /\ a.lines = 1
               /\ a.matched <=> filter.pattern \in line.hit
               /\ \A l : l \in a.mask <=>
                     IF l \in s.count..(s.count + s.lines - 1) THEN s.matched
                     ELSE l \in s.mask
  <1> DEFINE e == EndOfMessage(s, size)
  <1>1. /\ e \in FilterRec
        /\ e.count = s.count + s.lines /\ e.lines = 0 /\ ~e.matched
        /\ \A l : l \in e.mask <=>
              IF l \in s.count..(s.count + s.lines - 1) THEN s.matched
              ELSE l \in s.mask
    BY EndFields
  <1> DEFINE hit == filter.pattern \in line.hit
             a == Collected(e, hit)
  <1>2. AddLine(s, filter, line, size) = a
    BY DEF AddLine, Collected
  <1> HIDE DEF e
  <1>4. hit \in BOOLEAN
    OBVIOUS
  <1> HIDE DEF hit
  <1>3. a \in FilterRec /\ a.count = e.count /\ a.lines = 1 /\ a.mask = e.mask
        /\ (a.matched <=> hit)
    BY <1>1, <1>4, CollectFields
  <1> HIDE DEF a
  <1> QED BY <1>1, <1>2, <1>3 DEF hit

\* revert_to_last() of a filter that is not collecting.
LEMMA RevertFields ==
    ASSUME NEW s \in FilterRec, NEW rollback \in {0, 1}, s.last.lines <= s.count
    PROVE  LET r == RevertToLast(s, rollback)
               n == s.last.lines
           IN  /\ r \in FilterRec
               /\ r.count = s.count - n
               /\ r.lines = IF n > 0 THEN n - rollback ELSE 0
               /\ r.matched <=> (s.last.matched /\ r.lines > 0)
               /\ \A l : l \in r.mask <=> l \in s.mask /\ l \notin (s.count - n)..(s.count - 1)
  <1> DEFINE n == s.last.lines
             k == IF n > 0 THEN n - rollback ELSE 0
             h == s.hits - (IF s.last.matched THEN n ELSE 0)
             m == s.mask \ ((s.count - n) .. (s.count - 1))
             b == s.last.matched /\ k > 0
  <1>1. /\ s.count \in Nat /\ n \in Nat /\ s.hits \in Int /\ s.last.hits \in Nat
        /\ s.mask \in SUBSET Nat /\ s.last \in [matched : BOOLEAN, lines : Nat, hits : Nat]
    BY DEF FilterRec
  <1>2. k \in Nat /\ s.count - n \in Nat /\ h \in Int
    BY <1>1
  <1>3. m \in SUBSET Nat
    BY <1>1
  <1>4. \A l : l \in m <=> l \in s.mask /\ l \notin (s.count - n)..(s.count - 1)
    OBVIOUS
  <1> DEFINE r == [s EXCEPT !.hits = h, !.count = s.count - n, !.mask = m,
                            !.matched = b, !.lines = k, !.mhits = s.last.hits]
  <1>5. RevertToLast(s, rollback) = r
    BY DEF RevertToLast, FilterRec
  <1>6. b \in BOOLEAN /\ (b <=> s.last.matched /\ k > 0)
    OBVIOUS
  <1> HIDE DEF n, h, m, b
  <1>7. /\ r \in FilterRec /\ r.count = s.count - n /\ r.lines = k /\ r.matched = b
        /\ r.mask = m
    BY <1>1, <1>2, <1>3, <1>6 DEF FilterRec
  <1> HIDE DEF r
  <1> QED BY <1>4, <1>5, <1>6, <1>7 DEF n

\* A filter that has seen the first i of top lines collects lines the file has.
Counting(s, i, top) ==
    s \in FilterRec /\ s.count <= top /\ (s.lines > 0 => s.count + s.lines <= i)

\* A line of the file keeps the loop invariant of the counters,
LEMMA CountStep ==
    ASSUME NEW top \in Nat, NEW i \in 1..top, NEW s, Counting(s, i - 1, top),
           NEW filter, NEW line \in Line, NEW size \in Nat, i <= size
    PROVE  Counting(Observed(s, filter, line, i, size), i, top)
  <1>1. s \in FilterRec /\ s.count \in Nat /\ s.lines \in Nat
    BY DEF Counting, FilterRec
  <1>2. CASE i - 1 < s.count
    <2>1. Observed(s, filter, line, i, size) = s
      BY <1>1, <1>2 DEF Observed
    <2> QED BY <1>1, <2>1 DEF Counting
  <1>3. CASE i - 1 >= s.count
    <2> DEFINE a == AddLine(s, filter, line, size)
    <2>1. Observed(s, filter, line, i, size) = a
      BY <1>3 DEF Observed
    <2>2. s.count + s.lines <= i - 1 /\ s.count + s.lines <= size
      BY <1>1, <1>3 DEF Counting
    <2>3. a \in FilterRec /\ a.count + a.lines = s.count + s.lines + 1
          /\ a.count <= s.count + s.lines
      <3>1. CASE line.msg
        BY <1>1, <2>2, <3>1, NextFields
      <3>2. CASE ~line.msg
        BY <1>1, <3>2, AddFields
      <3> QED BY <3>1, <3>2
    <2> HIDE DEF a
    <2>4. a.count \in Nat /\ a.lines \in Nat
      BY <2>3 DEF FilterRec
    <2> QED BY <1>1, <2>1, <2>2, <2>3, <2>4 DEF Counting
  <1> QED BY <1>1, <1>2, <1>3

\* The state of a filter between scans, whatever its marks are.
Settled(s, n) ==
    s \in FilterRec /\ s.lines = 0 /\ s.last.lines <= s.count /\ s.count <= n

\* and so does a loop over any of its lines, whatever the filter held.
LEMMA CountLoop ==
    ASSUME NEW lines \in Seq(Line), NEW from \in 0..Len(lines), NEW filter, NEW size,
           \A i \in 1..Len(lines) : size[i] \in Nat /\ i <= size[i],
           NEW s, Counting(s, from, Len(lines))
    PROVE  Settled(EndOfMessage(NewLines(s, filter, lines, from, size), Len(lines)),
                   Len(lines))
  <1> DEFINE top == Len(lines)
  <1>1. top \in Nat /\ from \in Nat /\ from <= top
    OBVIOUS
  <1>2. PICK g : /\ Chain(g, s, filter, lines, from, size, top)
                 /\ NewLines(s, filter, lines, from, size) = g[top]
    BY NewLinesChain
  <1> DEFINE T == { i \in from..top : Counting(g[i], i, top) }
  <1>3. from \in T
    BY <1>1, <1>2 DEF Chain
  <1>4. ASSUME NEW i \in T, i \in from..(top - 1) PROVE i + 1 \in T
    <2>1. /\ i + 1 \in from..top /\ i + 1 \in (from + 1)..top /\ i + 1 \in 1..top
          /\ (i + 1) - 1 = i
      BY <1>1, <1>4
    <2>2. g[i + 1] = Observed(g[i], filter, lines[i + 1], i + 1, size[i + 1])
      BY <1>2, <2>1 DEF Chain
    <2>3. lines[i + 1] \in Line /\ size[i + 1] \in Nat /\ i + 1 <= size[i + 1]
      BY <2>1
    <2>4. Counting(g[i], (i + 1) - 1, top)
      BY <2>1
    <2>5. Counting(g[i + 1], i + 1, top)
      BY <1>1, <2>1, <2>2, <2>3, <2>4, CountStep
    <2> QED BY <2>1, <2>5
  <1>5. \A i \in from..top : i \in T
    <2> HIDE DEF T, top
    <2> QED BY <1>1, <1>3, <1>4, RangeInduction
  <1>6. Counting(g[top], top, top)
    BY <1>1, <1>5
  <1> DEFINE z == g[top]
             e == EndOfMessage(z, top)
  <1>7. z \in FilterRec /\ z.count + z.lines <= top /\ z.count \in Nat /\ z.lines \in Nat
    <2>1. z \in FilterRec /\ z.count \in Nat /\ z.lines \in Nat
      BY <1>6 DEF Counting, FilterRec
    <2> QED BY <1>1, <1>6, <2>1 DEF Counting
  <1> HIDE DEF z
  <1>8. e \in FilterRec /\ e.count = z.count + z.lines /\ e.lines = 0
        /\ e.last.lines = z.lines
    BY <1>1, <1>7, EndFields
  <1> HIDE DEF e
  <1>9. Settled(e, top)
    BY <1>1, <1>7, <1>8 DEF Settled
  <1> QED BY <1>2, <1>9 DEF e, z

-----------------------------------------------------------------------------
(* The marks of messages.                                                  *)

\* Lines k and l are of one message: none after the first of them, up to the
\* other, starts a message.
Joined(lines, k, l) ==
    \A i \in 1..(Len(lines) - 1) :
        (k < i /\ i <= l) \/ (l < i /\ i <= k) => ~lines[i + 1].msg

\* The lines, of the first c, of messages in which a line matches.
Marked(lines, p, c) ==
    { l \in 0..(c - 1) :
        \E k \in 0..(c - 1) : Joined(lines, k, l) /\ p \in lines[k + 1].hit }

\* Lines b+1..e are the start of a message and lines that go on with it.
OneMessage(lines, b, e) ==
    b < e => lines[b + 1].msg /\ \A j \in (b + 2)..e : ~lines[j].msg

SomeHit(lines, p, b, e) == \E j \in (b + 1)..e : p \in lines[j].hit

\* The lines of one more message are marked alike, the others as before.
LEMMA EndMarks ==
    ASSUME NEW lines, Len(lines) \in Nat, NEW p, NEW c \in Nat, NEW n \in Nat,
           c + n <= Len(lines), OneMessage(lines, c, c + n), NEW l
    PROVE  l \in Marked(lines, p, c + n) <=>
              IF l \in c..(c + n - 1) THEN SomeHit(lines, p, c, c + n)
              ELSE l \in Marked(lines, p, c)
  <1>1. CASE l \in c..(c + n - 1)
    <2>1. l \in Nat /\ c <= l /\ l < c + n /\ l \in 0..(c + n - 1) /\ n > 0
      BY <1>1
    <2>2. ASSUME NEW k \in 0..(c + n - 1), Joined(lines, k, l) PROVE k + 1 \in (c + 1)..(c + n)
      <3>1. ASSUME k < c PROVE FALSE
        <4>1. c \in 1..(Len(lines) - 1) /\ k < c /\ c <= l
          BY <2>1, <3>1
        <4>2. ~lines[c + 1].msg
          BY <2>2, <4>1 DEF Joined
        <4> QED BY <2>1, <4>2 DEF OneMessage
      <3> QED BY <3>1
    <2>3. ASSUME NEW k \in 0..(c + n - 1), k >= c PROVE Joined(lines, k, l)
      <3>1. ASSUME NEW i \in 1..(Len(lines) - 1), (k < i /\ i <= l) \/ (l < i /\ i <= k)
            PROVE  ~lines[i + 1].msg
        <4>1. i + 1 \in (c + 2)..(c + n)
          BY <2>1, <2>3, <3>1
        <4> QED BY <2>1, <4>1 DEF OneMessage
      <3> QED BY <3>1 DEF Joined
    <2>4. ASSUME l \in Marked(lines, p, c + n) PROVE SomeHit(lines, p, c, c + n)
      <3>1. PICK k \in 0..(c + n - 1) : Joined(lines, k, l) /\ p \in lines[k + 1].hit
        BY <2>4 DEF Marked
      <3> QED BY <2>2, <3>1 DEF SomeHit
    <2>5. ASSUME SomeHit(lines, p, c, c + n) PROVE l \in Marked(lines, p, c + n)
      <3>1. PICK j \in (c + 1)..(c + n) : p \in lines[j].hit
        BY <2>5 DEF SomeHit
      <3>2. j - 1 \in 0..(c + n - 1) /\ j - 1 >= c /\ (j - 1) + 1 = j
        OBVIOUS
      <3>3. Joined(lines, j - 1, l)
        BY <2>3, <3>2
      <3> QED BY <2>1, <3>1, <3>2, <3>3 DEF Marked
    <2> QED BY <1>1, <2>4, <2>5
  <1>2. CASE l \notin c..(c + n - 1)
    <2>1. ASSUME l \in Marked(lines, p, c + n) PROVE l \in Marked(lines, p, c)
      <3>1. /\ l \in 0..(c + n - 1)
            /\ \E k \in 0..(c + n - 1) : Joined(lines, k, l) /\ p \in lines[k + 1].hit
        BY <2>1 DEF Marked
      <3>2. PICK k \in 0..(c + n - 1) : Joined(lines, k, l) /\ p \in lines[k + 1].hit
        BY <3>1
      <3>3. l \in 0..(c - 1)
        BY <1>2, <3>1
      <3>4. ASSUME k >= c PROVE FALSE
        <4>1. c \in 1..(Len(lines) - 1) /\ l < c /\ c <= k /\ c < c + n
          BY <3>3, <3>4
        <4>2. ~lines[c + 1].msg
          BY <3>2, <4>1 DEF Joined
        <4> QED BY <4>1, <4>2 DEF OneMessage
      <3>5. k \in 0..(c - 1)
        BY <3>4
      <3> QED BY <3>2, <3>3, <3>5 DEF Marked
    <2>2. ASSUME l \in Marked(lines, p, c) PROVE l \in Marked(lines, p, c + n)
      <3>1. \A k \in 0..(c - 1) : k \in 0..(c + n - 1)
        OBVIOUS
      <3> QED BY <2>2, <3>1 DEF Marked
    <2> QED BY <1>2, <2>1, <2>2
  <1> QED BY <1>1, <1>2

\* The marks of the first c lines are theirs alone.
LEMMA SameMarks ==
    ASSUME NEW old, Len(old) \in Nat, NEW new, Len(new) \in Nat, NEW p, NEW c \in Nat,
           c <= Len(old), c <= Len(new), \A i \in 1..c : new[i] = old[i]
    PROVE  Marked(new, p, c) = Marked(old, p, c)
  <1>1. ASSUME NEW k \in 0..(c - 1), NEW l \in 0..(c - 1)
        PROVE  Joined(new, k, l) <=> Joined(old, k, l)
    <2>1. ASSUME NEW i \in Nat, i >= 1, (k < i /\ i <= l) \/ (l < i /\ i <= k)
          PROVE  /\ i \in 1..(Len(new) - 1) /\ i \in 1..(Len(old) - 1)
                 /\ new[i + 1] = old[i + 1]
      <3>1. i + 1 \in 1..c
        BY <2>1
      <3>2. i \in 1..(Len(new) - 1) /\ i \in 1..(Len(old) - 1)
        BY <2>1, <3>1
      <3> QED BY <3>1, <3>2
    <2> QED BY <2>1 DEF Joined
  <1>2. \A k \in 0..(c - 1) : new[k + 1] = old[k + 1]
    OBVIOUS
  <1> QED BY <1>1, <1>2 DEF Marked

\* A filter that has seen the first i lines: it has decided the messages that
\* have ended, and collects the last one.
Collecting(s, p, lines, i) ==
    /\ s \in FilterRec
    /\ s.count + s.lines = i
    /\ OneMessage(lines, s.count, i)
    /\ s.matched <=> SomeHit(lines, p, s.count, i)
    /\ \A l : l \in s.mask <=> l \in Marked(lines, p, s.count)
    /\ s.lines = 0 => /\ i = 0 \/ "filters" \in Env
                      /\ i < Len(lines) => lines[i + 1].msg

\* A line of the file keeps the loop invariant of the marks,
LEMMA CollectStep ==
    ASSUME NEW lines \in Seq(Line), NEW i \in 1..Len(lines), NEW s, NEW filter,
           Collecting(s, filter.pattern, lines, i - 1), NEW size \in Nat, i <= size
    PROVE  Collecting(Observed(s, filter, lines[i], i, size), filter.pattern, lines, i)
  <1> DEFINE p == filter.pattern
             a == AddLine(s, filter, lines[i], size)
             hit == p \in lines[i].hit
  <1>1. /\ s \in FilterRec /\ s.count \in Nat /\ s.lines \in Nat /\ Len(lines) \in Nat
        /\ s.count + s.lines = i - 1
    BY DEF Collecting, FilterRec
  <1>2. Observed(s, filter, lines[i], i, size) = a
    BY <1>1 DEF Observed
  <1>3. CASE lines[i].msg
    <2>1. s.count + s.lines <= size
      BY <1>1
    <2>2. /\ a \in FilterRec /\ a.count = i - 1 /\ a.lines = 1
          /\ a.matched <=> hit
          /\ \A l : l \in a.mask <=>
                IF l \in s.count..(s.count + s.lines - 1) THEN s.matched
                ELSE l \in s.mask
      BY <1>1, <1>3, <2>1, NextFields
    <2> HIDE DEF a
    <2>3. \A l : l \in a.mask <=> l \in Marked(lines, p, i - 1)
      <3>1. OneMessage(lines, s.count, s.count + s.lines) /\ s.count + s.lines <= Len(lines)
        BY <1>1 DEF Collecting
      <3>2. \A l : l \in Marked(lines, p, s.count + s.lines) <=>
               IF l \in s.count..(s.count + s.lines - 1)
               THEN SomeHit(lines, p, s.count, s.count + s.lines)
               ELSE l \in Marked(lines, p, s.count)
        BY <1>1, <3>1, EndMarks
      <3>3. /\ s.matched <=> SomeHit(lines, p, s.count, s.count + s.lines)
            /\ \A l : l \in s.mask <=> l \in Marked(lines, p, s.count)
        BY <1>1 DEF Collecting
      <3> QED BY <1>1, <2>2, <3>2, <3>3
    <2>4. OneMessage(lines, i - 1, i) /\ (SomeHit(lines, p, i - 1, i) <=> hit)
      <3>1. (i - 1) + 1 = i /\ ((i - 1) + 2)..i = {} /\ ((i - 1) + 1)..i = {i}
        OBVIOUS
      <3> QED BY <1>3, <3>1 DEF OneMessage, SomeHit
    <2>5. a.count + a.lines = i /\ a.lines # 0
      BY <2>2
    <2> QED BY <1>2, <2>2, <2>3, <2>4, <2>5 DEF Collecting
  <1>4. CASE ~lines[i].msg
    <2>1. /\ a \in FilterRec /\ a.count = s.count /\ a.lines = s.lines + 1
          /\ a.matched <=> (s.matched \/ hit)
          /\ a.mask = s.mask
      BY <1>1, <1>4, AddFields
    <2> HIDE DEF a
    <2>2. s.lines > 0
      <3>1. (i - 1) + 1 = i /\ i - 1 < Len(lines)
        BY <1>1
      <3> QED BY <1>1, <1>4, <3>1 DEF Collecting
    <2>3. s.count < i - 1 /\ s.count < i
      BY <1>1, <2>2
    <2>4. OneMessage(lines, s.count, i)
      <3>1. lines[s.count + 1].msg /\ \A j \in (s.count + 2)..(i - 1) : ~lines[j].msg
        BY <2>3 DEF Collecting, OneMessage
      <3>2. \A j \in (s.count + 2)..i : j = i \/ j \in (s.count + 2)..(i - 1)
        BY <1>1
      <3> QED BY <1>4, <3>1, <3>2 DEF OneMessage
    <2>5. SomeHit(lines, p, s.count, i) <=> SomeHit(lines, p, s.count, i - 1) \/ hit
      <3>1. \A j \in (s.count + 1)..i : j = i \/ j \in (s.count + 1)..(i - 1)
        BY <1>1
      <3>2. i \in (s.count + 1)..i /\ \A j \in (s.count + 1)..(i - 1) : j \in (s.count + 1)..i
        BY <1>1, <2>3
      <3> QED BY <3>1, <3>2 DEF SomeHit
    <2>6. a.count + a.lines = i /\ a.lines # 0
      BY <1>1, <2>1
    <2>7. /\ s.matched <=> SomeHit(lines, p, s.count, i - 1)
          /\ \A l : l \in s.mask <=> l \in Marked(lines, p, s.count)
      BY DEF Collecting
    <2> QED BY <1>2, <2>1, <2>4, <2>5, <2>6, <2>7 DEF Collecting
  <1> QED BY <1>3, <1>4

\* What is known of a filter between scans.
Decided(s, p, lines) ==
    LET start == s.count - s.last.lines
    IN  /\ s.count = Len(lines) /\ ~s.matched
        /\ \A l : l \in s.mask <=> l \in Marked(lines, p, s.count)
        /\ OneMessage(lines, start, s.count)
        /\ s.last.lines > 0 => (s.last.matched <=> SomeHit(lines, p, start, s.count))
        /\ s.last.lines = 0 => lines = << >> \/ "filters" \in Env

\* and end_of_message() after the last line decides all lines.
LEMMA CollectEnd ==
    ASSUME NEW lines \in Seq(Line), NEW s, NEW p, Collecting(s, p, lines, Len(lines))
    PROVE  Decided(EndOfMessage(s, Len(lines)), p, lines)
  <1> DEFINE top == Len(lines)
             e == EndOfMessage(s, top)
  <1>1. /\ s \in FilterRec /\ s.count \in Nat /\ s.lines \in Nat /\ top \in Nat
        /\ s.count + s.lines = top
    BY DEF Collecting, FilterRec
  <1>2. /\ e \in FilterRec
        /\ e.count = top /\ ~e.matched
        /\ e.last.lines = s.lines /\ e.last.matched = s.matched
        /\ \A l : l \in e.mask <=>
              IF l \in s.count..(s.count + s.lines - 1) THEN s.matched
              ELSE l \in s.mask
    BY <1>1, EndFields
  <1>3. e.count - e.last.lines = s.count
    BY <1>1, <1>2
  <1> HIDE DEF e
  <1>4. /\ OneMessage(lines, s.count, top)
        /\ s.matched <=> SomeHit(lines, p, s.count, top)
        /\ \A l : l \in s.mask <=> l \in Marked(lines, p, s.count)
        /\ s.lines = 0 => top = 0 \/ "filters" \in Env
    BY DEF Collecting
  <1>5. \A l : l \in Marked(lines, p, top) <=>
           IF l \in s.count..(s.count + s.lines - 1)
           THEN SomeHit(lines, p, s.count, top)
           ELSE l \in Marked(lines, p, s.count)
    <2>1. \A l : l \in Marked(lines, p, s.count + s.lines) <=>
             IF l \in s.count..(s.count + s.lines - 1)
             THEN SomeHit(lines, p, s.count, s.count + s.lines)
             ELSE l \in Marked(lines, p, s.count)
      <3>1. /\ OneMessage(lines, s.count, s.count + s.lines) /\ Len(lines) \in Nat
            /\ s.count + s.lines <= Len(lines)
        BY <1>1, <1>4
      <3> QED BY <1>1, <3>1, EndMarks
    <2> QED BY <1>1, <2>1
  <1>6. \A l : l \in e.mask <=> l \in Marked(lines, p, top)
    BY <1>2, <1>4, <1>5
  <1>7. top = 0 => lines = << >>
    OBVIOUS
  <1> HIDE DEF top
  <1>8. Decided(e, p, lines)
    BY <1>2, <1>3, <1>4, <1>6, <1>7 DEF Decided, top
  <1> QED BY <1>8 DEF e, top

\* The loop, from a line on at which the filter collects.
LEMMA CollectLoop ==
    ASSUME NEW lines \in Seq(Line), NEW from \in 0..Len(lines), NEW filter, NEW size,
           \A i \in 1..Len(lines) : size[i] \in Nat /\ i <= size[i],
           NEW s, NEW g, Chain(g, s, filter, lines, from, size, Len(lines)),
           NEW b \in from..Len(lines), Collecting(g[b], filter.pattern, lines, b)
    PROVE  Decided(EndOfMessage(g[Len(lines)], Len(lines)), filter.pattern, lines)
  <1> DEFINE top == Len(lines)
  <1>1. top \in Nat /\ from \in Nat /\ b \in Nat /\ b <= top /\ from <= b
    OBVIOUS
  <1> DEFINE T == { i \in b..top : Collecting(g[i], filter.pattern, lines, i) }
  <1>3. b \in T
    BY <1>1
  <1>4. ASSUME NEW i \in T, i \in b..(top - 1) PROVE i + 1 \in T
    <2>1. /\ i + 1 \in b..top /\ i + 1 \in (from + 1)..top /\ i + 1 \in 1..top
          /\ (i + 1) - 1 = i
      BY <1>1, <1>4
    <2>2. g[i + 1] = Observed(g[i], filter, lines[i + 1], i + 1, size[i + 1])
      BY <2>1 DEF Chain
    <2>3. size[i + 1] \in Nat /\ i + 1 <= size[i + 1]
      BY <2>1
    <2>4. Collecting(g[i], filter.pattern, lines, (i + 1) - 1)
      BY <2>1
    <2>5. Collecting(g[i + 1], filter.pattern, lines, i + 1)
      BY <2>1, <2>2, <2>3, <2>4, CollectStep
    <2> QED BY <2>1, <2>5
  <1>5. \A i \in b..top : i \in T
    <2> HIDE DEF T, top
    <2> QED BY <1>1, <1>3, <1>4, RangeInduction
  <1>6. Collecting(g[top], filter.pattern, lines, top)
    BY <1>1, <1>5
  <1> QED BY <1>6, CollectEnd

-----------------------------------------------------------------------------
(* Scans and reobservations.                                               *)

\* The line a scan starts from.
ScanStart(from) == from = IF seen = << >> THEN 0 ELSE Len(seen) - 1

\* Where a scan starts, in numbers of lines: at the last line, or at none.
LEMMA StartFields ==
    ASSUME seen \in Seq(Line), NEW new \in Seq(Line), Len(seen) <= Len(new), NEW from,
           ScanStart(from)
    PROVE  /\ Len(seen) \in Nat /\ Len(new) \in Nat
           /\ from \in Nat /\ from \in 0..Len(new) /\ from <= Len(seen)
           /\ Len(seen) - from \in {0, 1}
           /\ seen = << >> => Len(seen) = 0 /\ from = 0
           /\ seen # << >> => Len(seen) = from + 1
  <1>1. Len(seen) \in Nat /\ Len(new) \in Nat /\ (seen = << >> => Len(seen) = 0)
        /\ (seen # << >> => Len(seen) > 0)
    OBVIOUS
  <1> QED BY <1>1 DEF ScanStart

\* A scan that starts where the code may start leaves no filter collecting.
LEMMA ScanSettled ==
    ASSUME seen \in Seq(Line), NEW new \in Seq(Line), Len(seen) <= Len(new), NEW from,
           ScanStart(from), NEW s, Settled(s, Len(seen)), NEW filter
    PROVE  Settled(Scanned(s, filter, new, from), Len(new))
  <1> DEFINE r == RevertToLast(s, Len(seen) - from)
             size == [i \in 1..Len(new) |-> i]
  <1>1. /\ Len(seen) \in Nat /\ Len(new) \in Nat
        /\ from \in Nat /\ from \in 0..Len(new) /\ from <= Len(seen)
        /\ Len(seen) - from \in {0, 1}
        /\ seen = << >> => Len(seen) = 0 /\ from = 0
        /\ seen # << >> => Len(seen) = from + 1
    BY StartFields
  <1>2. /\ s \in FilterRec /\ s.count \in Nat /\ s.last.lines \in Nat
        /\ s.last.lines <= s.count /\ s.count <= Len(seen)
    BY DEF Settled, FilterRec
  <1>3. /\ r \in FilterRec
        /\ r.count = s.count - s.last.lines
        /\ r.lines = IF s.last.lines > 0 THEN s.last.lines - (Len(seen) - from) ELSE 0
    BY <1>1, <1>2, RevertFields
  <1> HIDE DEF r
  <1>4. Counting(r, from, Len(new))
    <2>1. r.count <= Len(new)
      BY <1>1, <1>2, <1>3
    <2>2. ASSUME r.lines > 0 PROVE r.count + r.lines <= from
      <3>1. s.last.lines > 0 /\ r.lines = s.last.lines - (Len(seen) - from)
        BY <1>2, <1>3, <2>2
      <3>2. r.count + r.lines = s.count - (Len(seen) - from)
        BY <1>1, <1>2, <1>3, <3>1
      <3> QED BY <1>1, <1>2, <3>2
    <2> QED BY <1>3, <2>1, <2>2 DEF Counting
  <1>5. \A i \in 1..Len(new) : size[i] \in Nat /\ i <= size[i]
    OBVIOUS
  <1> HIDE DEF size
  <1>6. Settled(EndOfMessage(NewLines(r, filter, new, from, size), Len(new)), Len(new))
    BY <1>1, <1>4, <1>5, CountLoop
  <1> QED BY <1>6 DEF Scanned, r, size

\* What the writer may have done to a file since it was scanned.
Grown(old, new) ==
    /\ Len(old) <= Len(new)
    /\ \A i \in 1..Len(old) :
          /\ i < Len(old) => new[i] = old[i]
          /\ old[i].hit \subseteq new[i].hit
          /\ "late_ts" \notin Env \/ "continued" \notin Env => new[i].msg = old[i].msg
          /\ "unfinished" \notin Env => new[i] = old[i]

\* The file: its first line starts a message, only its last may be unfinished.
Written(lines) ==
    /\ lines # << >> => lines[1].msg
    /\ \A i \in 1..Len(lines) :
          /\ i < Len(lines) => lines[i].whole
          /\ "continued" \notin Env => lines[i].msg
          /\ "unfinished" \notin Env => lines[i].whole

\* No unfinished continuation becomes a message of its own, and filters are
\* switched only over whole messages of one line.
MarksKept ==
    /\ "late_ts" \in Env => "continued" \notin Env
    /\ "filters" \in Env => "continued" \notin Env /\ "unfinished" \notin Env

\* A filter that has just read the last line again collects its message.
LEMMA RereadCollects ==
    ASSUME MarksKept, seen \in Seq(Line), NEW new \in Seq(Line), Grown(seen, new),
           Written(new), NEW from, ScanStart(from), seen # << >>,
           NEW s, Settled(s, Len(seen)), NEW filter, Decided(s, filter.pattern, seen)
    PROVE  Collecting(Observed(RevertToLast(s, Len(seen) - from), filter, new[from + 1],
                               from + 1, from + 1),
                      filter.pattern, new, from + 1)
  <1> DEFINE r == RevertToLast(s, Len(seen) - from)
             p == filter.pattern
             n == s.last.lines
             start == s.count - n
             o == Observed(r, filter, new[from + 1], from + 1, from + 1)
  <1> SUFFICES Collecting(o, p, new, from + 1)
    OBVIOUS
  <1>1. /\ Len(seen) \in Nat /\ Len(new) \in Nat /\ Len(seen) <= Len(new)
        /\ from \in Nat /\ Len(seen) - from = 1 /\ Len(seen) = from + 1
    BY StartFields DEF Grown
  <1>2. /\ s \in FilterRec /\ s.count = from + 1 /\ n \in Nat /\ n <= from + 1
        /\ start \in Nat /\ start + n = from + 1
    <2>1. s \in FilterRec /\ s.count \in Nat /\ n \in Nat /\ n <= s.count
      BY DEF Settled, FilterRec
    <2>2. s.count = from + 1
      BY <1>1 DEF Decided
    <2> QED BY <1>1, <2>1, <2>2
  <1>3. /\ r \in FilterRec
        /\ r.count = start
        /\ r.lines = IF n > 0 THEN n - 1 ELSE 0
        /\ r.matched <=> (s.last.matched /\ r.lines > 0)
        /\ \A l : l \in r.mask <=> l \in s.mask /\ l \notin start..(s.count - 1)
    BY <1>1, <1>2, RevertFields
  <1> HIDE DEF r
  <1>4. /\ OneMessage(seen, start, from + 1)
        /\ \A l : l \in s.mask <=> l \in Marked(seen, p, from + 1)
        /\ n > 0 => (s.last.matched <=> SomeHit(seen, p, start, from + 1))
        /\ n = 0 => "filters" \in Env
    BY <1>2 DEF Decided
  <1> HIDE DEF start, n
  <1>5. \A l : l \in r.mask <=> l \in Marked(seen, p, start)
    <2>2. \A l : l \in Marked(seen, p, start + n) <=>
              IF l \in start..(start + n - 1) THEN SomeHit(seen, p, start, start + n)
              ELSE l \in Marked(seen, p, start)
      <3>1. OneMessage(seen, start, start + n) /\ start + n <= Len(seen)
        BY <1>1, <1>2, <1>4
      <3> QED BY <1>1, <1>2, <3>1, EndMarks
    <2>3. ASSUME NEW l \in Marked(seen, p, start) PROVE l \notin start..(s.count - 1)
      <3>1. l \in 0..(start - 1)
        BY DEF Marked
      <3> QED BY <1>2, <3>1
    <2>4. s.count - 1 = start + n - 1 /\ from + 1 = start + n
      BY <1>1, <1>2
    <2> QED BY <1>3, <1>4, <2>2, <2>3, <2>4
  <1>6. ASSUME NEW i \in 1..from PROVE new[i] = seen[i]
    BY <1>1 DEF Grown
  <1>7. /\ seen[from + 1].hit \subseteq new[from + 1].hit
        /\ new[from + 1].msg = seen[from + 1].msg
        /\ "unfinished" \notin Env => new[from + 1] = seen[from + 1]
    <2>1. from + 1 \in 1..Len(seen)
      BY <1>1
    <2> QED BY <2>1 DEF Grown, MarksKept
  <1>8. CASE n = 0
    <2>1. o = r
      BY <1>1, <1>2, <1>3, <1>8 DEF Observed
    <2>2. r.count = from + 1 /\ r.lines = 0 /\ start = from + 1 /\ ~r.matched
      BY <1>1, <1>2, <1>3, <1>8
    <2>3. \A i \in 1..(from + 1) : new[i] = seen[i]
      <3>1. new[from + 1] = seen[from + 1]
        BY <1>4, <1>7, <1>8 DEF MarksKept
      <3>2. \A i \in 1..(from + 1) : i = from + 1 \/ i \in 1..from
        BY <1>1
      <3> QED BY <1>6, <3>1, <3>2
    <2>4. Marked(new, p, from + 1) = Marked(seen, p, from + 1)
      BY <1>1, <2>3, SameMarks
    <2>5. from + 1 < Len(new) => new[(from + 1) + 1].msg
      <3>1. "continued" \notin Env
        BY <1>4, <1>8 DEF MarksKept
      <3>2. from + 1 < Len(new) => (from + 1) + 1 \in 1..Len(new)
        BY <1>1
      <3> QED BY <3>1, <3>2 DEF Written
    <2>6. OneMessage(new, from + 1, from + 1) /\ ~SomeHit(new, p, from + 1, from + 1)
      <3>1. ~(from + 1 < from + 1) /\ ((from + 1) + 1)..(from + 1) = {}
        BY <1>1
      <3> QED BY <3>1 DEF OneMessage, SomeHit
    <2>7. (from + 1) + 0 = from + 1
      BY <1>1
    <2> QED BY <1>3, <1>4, <1>5, <1>8, <2>1, <2>2, <2>4, <2>5, <2>6, <2>7 DEF Collecting
  <1>9. CASE n > 0
    <2>1. /\ start < from + 1 /\ start <= from
          /\ r.count + r.lines = from /\ r.lines = n - 1 /\ r.lines \in Nat
      BY <1>1, <1>2, <1>3, <1>9
    <2>2. o = AddLine(r, filter, new[from + 1], from + 1)
      <3>1. (from + 1) - 1 >= r.count
        BY <1>1, <1>2, <1>3, <2>1
      <3> QED BY <3>1 DEF Observed
    <2>3. Marked(new, p, start) = Marked(seen, p, start)
      <3>1. \A i \in 1..start : new[i] = seen[i]
        BY <1>1, <1>2, <1>6, <2>1
      <3>2. start <= Len(seen) /\ start <= Len(new)
        BY <1>1, <1>2, <2>1
      <3> QED BY <1>1, <1>2, <3>1, <3>2, SameMarks
    <2>4. seen[start + 1].msg /\ \A j \in (start + 2)..(from + 1) : ~seen[j].msg
      BY <1>4, <2>1 DEF OneMessage
    <2>5. CASE n = 1
      <3>1. start = from /\ new[from + 1].msg /\ r.lines = 0 /\ r.count = from
        BY <1>1, <1>2, <1>3, <1>7, <2>1, <2>4, <2>5
      <3>2. /\ o \in FilterRec /\ o.count = from /\ o.lines = 1
            /\ o.matched <=> p \in new[from + 1].hit
            /\ \A l : l \in o.mask <=>
                  IF l \in from..(from + 0 - 1) THEN r.matched ELSE l \in r.mask
        <4>1. r.count + r.lines <= from + 1 /\ from + 1 \in Nat /\ from + 0 = from
          BY <1>1, <3>1
        <4> QED BY <1>3, <2>2, <3>1, <4>1, NextFields
      <3>3. from..(from + 0 - 1) = {}
        BY <1>1
      <3>4. OneMessage(new, from, from + 1)
        <4>1. (from + 2)..(from + 1) = {}
          BY <1>1
        <4> QED BY <3>1, <4>1 DEF OneMessage
      <3>5. SomeHit(new, p, from, from + 1) <=> p \in new[from + 1].hit
        <4>1. (from + 1)..(from + 1) = {from + 1}
          BY <1>1
        <4> QED BY <4>1 DEF SomeHit
      <3> HIDE DEF o
      <3> QED BY <1>5, <2>3, <3>1, <3>2, <3>3, <3>4, <3>5 DEF Collecting
    <2>6. CASE n > 1
      <3>1. start + 1 \in 1..from /\ from + 1 \in (start + 2)..(from + 1)
        BY <1>1, <1>2, <2>1, <2>6
      <3>2. ~new[from + 1].msg /\ new[start + 1].msg
        BY <1>6, <1>7, <2>4, <3>1
      <3>3. /\ o \in FilterRec /\ o.count = start /\ o.lines = r.lines + 1
            /\ o.matched <=> (r.matched \/ p \in new[from + 1].hit)
            /\ o.mask = r.mask
        BY <1>3, <2>2, <3>2, AddFields
      <3> HIDE DEF o
      <3>4. OneMessage(new, start, from + 1)
        <4>1. ASSUME NEW j \in (start + 2)..(from + 1) PROVE ~new[j].msg
          <5>1. j = from + 1 \/ j \in 1..from
            BY <1>1, <1>2
          <5> QED BY <1>6, <2>4, <3>2, <5>1
        <4> QED BY <3>2, <4>1 DEF OneMessage
      <3>5. o.matched <=> SomeHit(new, p, start, from + 1)
        <4>1. r.matched <=> SomeHit(seen, p, start, from + 1)
          <5>1. r.lines > 0
            BY <1>2, <2>1, <2>6
          <5> QED BY <1>3, <1>4, <1>9, <5>1
        <4>2. ASSUME NEW j \in (start + 1)..(from + 1)
              PROVE  p \in new[j].hit <=> p \in seen[j].hit
                                          \/ (j = from + 1 /\ p \in new[from + 1].hit)
          <5>1. j = from + 1 \/ j \in 1..from
            BY <1>1, <1>2
          <5> QED BY <1>6, <1>7, <5>1
        <4>3. from + 1 \in (start + 1)..(from + 1)
          BY <1>1, <1>2, <2>1
        <4> QED BY <3>3, <4>1, <4>2, <4>3 DEF SomeHit
      <3>6. o.count + o.lines = from + 1 /\ o.lines # 0
        BY <1>1, <1>2, <1>3, <2>1, <3>3
      <3> QED BY <1>5, <2>3, <3>3, <3>4, <3>5, <3>6 DEF Collecting
    <2> QED BY <1>2, <1>9, <2>5, <2>6
  <1> QED BY <1>2, <1>8, <1>9

\* A filter without any state collects from the first line on.
LEMMA ClearCollects ==
    ASSUME NEW s \in FilterRec, s.count = 0, s.lines = 0, ~s.matched, s.mask = {},
           NEW lines \in Seq(Line), Written(lines), NEW p
    PROVE  Collecting(s, p, lines, 0)
  <1>1. OneMessage(lines, 0, 0) /\ ~SomeHit(lines, p, 0, 0) /\ Marked(lines, p, 0) = {}
    <2>1. 0..(0 - 1) = {} /\ (0 + 1)..0 = {} /\ ~(0 < 0)
      OBVIOUS
    <2> QED BY <2>1 DEF OneMessage, SomeHit, Marked
  <1>2. 0 < Len(lines) => lines[0 + 1].msg
    BY DEF Written
  <1> QED BY <1>1, <1>2 DEF Collecting

\* A scan decides the lines that were read again and the new ones.
LEMMA ScanDecides ==
    ASSUME MarksKept, seen \in Seq(Line), NEW new \in Seq(Line), Grown(seen, new),
           Written(new), new # seen, NEW from, ScanStart(from),
           NEW s, Settled(s, Len(seen)), NEW filter, Decided(s, filter.pattern, seen)
    PROVE  Decided(Scanned(s, filter, new, from), filter.pattern, new)
  <1> DEFINE r == RevertToLast(s, Len(seen) - from)
             size == [i \in 1..Len(new) |-> i]
             p == filter.pattern
  <1>1. /\ Len(seen) \in Nat /\ Len(new) \in Nat /\ Len(seen) <= Len(new)
        /\ from \in Nat /\ from \in 0..Len(new) /\ from <= Len(seen)
        /\ Len(seen) - from \in {0, 1}
        /\ seen = << >> => Len(seen) = 0 /\ from = 0
        /\ seen # << >> => Len(seen) = from + 1
    BY StartFields DEF Grown
  <1>2. PICK g : /\ Chain(g, r, filter, new, from, size, Len(new))
                 /\ NewLines(r, filter, new, from, size) = g[Len(new)]
    <2> HIDE DEF r, size
    <2> QED BY <1>1, NewLinesChain
  <1>3. \A i \in 1..Len(new) : size[i] \in Nat /\ i <= size[i] /\ size[i] = i
    OBVIOUS
  <1> HIDE DEF size
  <1>4. \E b \in from..Len(new) : Collecting(g[b], p, new, b)
    <2>1. CASE seen = << >>
      <3>1. /\ s \in FilterRec /\ s.count \in Nat /\ s.last.lines \in Nat
            /\ s.last.lines <= s.count /\ s.count = 0
        BY <1>1, <2>1 DEF Settled, FilterRec
      <3>2. \A l : l \notin s.mask
        <4>1. Marked(seen, p, 0) = {}
          BY DEF Marked
        <4> QED BY <3>1, <4>1 DEF Decided
      <3>3. r \in FilterRec /\ r.count = 0 /\ r.lines = 0 /\ ~r.matched /\ r.mask = {}
        <4>1. /\ r \in FilterRec /\ r.count = s.count - s.last.lines
              /\ r.lines = IF s.last.lines > 0
                           THEN s.last.lines - (Len(seen) - from) ELSE 0
              /\ r.matched <=> (s.last.matched /\ r.lines > 0)
              /\ \A l : l \in r.mask <=>
                    l \in s.mask /\ l \notin (s.count - s.last.lines)..(s.count - 1)
          BY <1>1, <3>1, RevertFields
        <4>2. r.count = 0 /\ r.lines = 0
          BY <3>1, <4>1
        <4>3. ~(r.lines > 0)
          BY <4>2
        <4> QED BY <3>2, <4>1, <4>2, <4>3
      <3> HIDE DEF r
      <3>4. g[0] = r
        BY <1>1, <1>2, <2>1 DEF Chain
      <3>5. Collecting(g[0], p, new, 0)
        BY <3>3, <3>4, ClearCollects
      <3> QED BY <1>1, <2>1, <3>5
    <2>2. CASE seen # << >>
      <3>1. /\ from + 1 \in (from + 1)..Len(new) /\ from + 1 \in from..Len(new)
            /\ from + 1 \in 1..Len(new) /\ (from + 1) - 1 = from
        BY <1>1, <2>2
      <3>2. g[from + 1] = Observed(r, filter, new[from + 1], from + 1, from + 1)
        BY <1>2, <1>3, <3>1 DEF Chain
      <3>3. Collecting(g[from + 1], p, new, from + 1)
        BY <2>2, <3>2, RereadCollects
      <3> QED BY <3>1, <3>3
    <2> QED BY <2>1, <2>2
  <1>5. Decided(EndOfMessage(g[Len(new)], Len(new)), p, new)
    BY <1>1, <1>2, <1>3, <1>4, CollectLoop
  <1> QED BY <1>2, <1>5 DEF Scanned, size

\* get_min_count() is at most the count of any filter.
LEMMA MinCountLeast ==
    ASSUME seen \in Seq(Line), NEW stack, NEW st,
           \A f \in InStack(stack) : st[f].count \in Nat
    PROVE  LET m == MinCount(stack, st)
           IN  m \in 0..Len(seen) /\ \A f \in InStack(stack) : m <= st[f].count
  <1> DEFINE C(m) == /\ \A f \in InStack(stack) : m <= st[f].count
                     /\ m = Len(seen) \/ \E f \in InStack(stack) : m = st[f].count
             T == { m \in Nat : m = Len(seen) \/ \E f \in InStack(stack) : m = st[f].count }
  <1>1. Len(seen) \in Nat /\ Len(seen) \in T
    OBVIOUS
  <1>2. PICK m \in T : \A y \in T : m <= y
    BY <1>1, LeastNumber
  <1>3. m \in 0..Len(seen) /\ C(m)
    <2>1. m \in Nat /\ m <= Len(seen)
      BY <1>1, <1>2
    <2>2. \A f \in InStack(stack) : st[f].count \in T
      OBVIOUS
    <2> QED BY <1>1, <1>2, <2>1, <2>2
  <1>4. MinCount(stack, st) = CHOOSE x \in 0..Len(seen) : C(x)
    BY DEF MinCount
  <1> HIDE DEF C
  <1>5. LET x == CHOOSE x \in 0..Len(seen) : C(x) IN x \in 0..Len(seen) /\ C(x)
    BY <1>3
  <1> QED BY <1>4, <1>5 DEF C

\* reobserve_from() for one filter of the stack.
Reobserve(s, filter, from) ==
    EndOfMessage(NewLines(s, filter, seen, from, [i \in 1..Len(seen) |-> Len(seen)]),
                 Len(seen))

\* Neither does reading the file again for the filters that are behind.
LEMMA ReobserveSettled ==
    ASSUME seen \in Seq(Line), NEW from \in 0..Len(seen), NEW s, Settled(s, Len(seen)),
           NEW filter
    PROVE  Settled(Reobserve(s, filter, from), Len(seen))
  <1> DEFINE size == [i \in 1..Len(seen) |-> Len(seen)]
  <1>1. \A i \in 1..Len(seen) : size[i] \in Nat /\ i <= size[i]
    OBVIOUS
  <1> HIDE DEF size
  <1>2. Counting(s, from, Len(seen))
    BY DEF Settled, Counting
  <1>3. Settled(EndOfMessage(NewLines(s, filter, seen, from, size), Len(seen)), Len(seen))
    BY <1>1, <1>2, CountLoop
  <1> QED BY <1>3 DEF Reobserve, size

\* A new filter decides all lines, one that has done so keeps its marks.
LEMMA ReobserveDecides ==
    ASSUME "filters" \in Env, MarksKept, seen \in Seq(Line), Written(seen),
           NEW from \in 0..Len(seen), NEW s, Settled(s, Len(seen)), from <= s.count,
           NEW filter, s = Cleared \/ Decided(s, filter.pattern, seen)
    PROVE  Decided(Reobserve(s, filter, from), filter.pattern, seen)
  <1> DEFINE size == [i \in 1..Len(seen) |-> Len(seen)]
             p == filter.pattern
             top == Len(seen)
  <1>1. \A i \in 1..Len(seen) : size[i] \in Nat /\ i <= size[i]
    OBVIOUS
  <1>2. top \in Nat /\ from \in Nat /\ from <= top
    OBVIOUS
  <1> HIDE DEF size
  <1>3. PICK g : /\ Chain(g, s, filter, seen, from, size, top)
                 /\ NewLines(s, filter, seen, from, size) = g[top]
    BY <1>2, NewLinesChain
  <1>4. \E b \in from..top : Collecting(g[b], p, seen, b)
    <2>1. CASE s = Cleared
      <3>1. s \in FilterRec /\ s.count = 0 /\ s.lines = 0 /\ ~s.matched /\ s.mask = {}
        BY <2>1 DEF Settled, Cleared
      <3>2. from = 0 /\ g[0] = s
        BY <1>2, <1>3, <3>1 DEF Chain
      <3>3. Collecting(g[0], p, seen, 0)
        BY <3>1, <3>2, ClearCollects
      <3> QED BY <1>2, <3>2, <3>3
    <2>2. CASE Decided(s, filter.pattern, seen)
      <3>1. /\ s \in FilterRec /\ s.count = top /\ s.lines = 0 /\ ~s.matched
            /\ \A l : l \in s.mask <=> l \in Marked(seen, p, top)
        BY <2>2 DEF Settled, Decided
      <3> DEFINE T == { i \in from..top : g[i] = s }
      <3>2. from \in T
        BY <1>2, <1>3 DEF Chain
      <3>3. ASSUME NEW i \in T, i \in from..(top - 1) PROVE i + 1 \in T
        <4>1. /\ i + 1 \in from..top /\ i + 1 \in (from + 1)..top /\ (i + 1) - 1 = i
              /\ ~((i + 1) - 1 >= top) /\ g[i] = s
          BY <1>2, <3>3
        <4>2. g[i + 1] = Observed(s, filter, seen[i + 1], i + 1, size[i + 1])
          BY <1>3, <4>1 DEF Chain
        <4>3. g[i + 1] = s
          BY <3>1, <4>1, <4>2 DEF Observed
        <4> QED BY <4>1, <4>3
      <3>4. \A i \in from..top : i \in T
        <4> HIDE DEF T, top
        <4> QED BY <1>2, <3>2, <3>3, RangeInduction
      <3>5. g[top] = s
        BY <1>2, <3>4
      <3>6. OneMessage(seen, top, top) /\ ~SomeHit(seen, p, top, top)
        <4>1. ~(top < top) /\ (top + 1)..top = {}
          BY <1>2
        <4> QED BY <4>1 DEF OneMessage, SomeHit
      <3>7. Collecting(s, p, seen, top)
        <4>1. top + 0 = top /\ ~(top < Len(seen))
          BY <1>2
        <4> HIDE DEF top
        <4> QED BY <3>1, <3>6, <4>1 DEF Collecting, top
      <3> QED BY <1>2, <3>5, <3>7
    <2> QED BY <2>1, <2>2
  <1>5. Decided(EndOfMessage(g[top], top), p, seen)
    BY <1>1, <1>2, <1>3, <1>4, CollectLoop
  <1> QED BY <1>3, <1>5 DEF Reobserve, size

-----------------------------------------------------------------------------
(* The invariant.                                                          *)

\* Messages have one line, and filters are not switched while lines are
\* unfinished.
RowsPicked ==
    /\ "continued" \notin Env
    /\ "filters" \in Env => "unfinished" \notin Env

FileInv == Grown(seen, disk) /\ Written(disk) /\ Written(seen)

FreeClear == \A f \in Filters : f \notin InStack(filters) => state[f] = Cleared

AllDecided ==
    MarksKept => \A f \in InStack(filters) : Decided(state[f], filters[f].pattern, seen)

\* The rows shown are those that pass the filters by the marks they have made.
ShownPass ==
    RowsPicked => \A l : l \in shown <=> l \in Passing(filters, apply, state, 0..(Len(seen) - 1))

Inv == TypeOK /\ FileInv /\ FreeClear /\ AllDecided

\* Every filter is settled in a state of the invariant,
LEMMA SettledAll ==
    ASSUME TypeOK, NEW f \in Filters
    PROVE  Settled(state[f], Len(seen))
  BY DEF TypeOK, Settled

\* and so is one that has been cleared.
LEMMA ClearSettled ==
    ASSUME NEW n \in Nat
    PROVE  Settled(Cleared, n)
  BY DEF Settled, Cleared, FilterRec

\* The invariant holds before anything is read.
LEMMA InitInv == Init => Inv /\ ShownPass /\ OutIsHidden
  <1> SUFFICES ASSUME Init PROVE Inv /\ ShownPass /\ OutIsHidden
    OBVIOUS
  <1>1. seen = << >> /\ disk = << >> /\ Len(seen) = 0 /\ 0..(0 - 1) = {}
    BY DEF Init
  <1>2. filters \in [Filters -> {NoFilter} \cup Filter]
    BY DEF Init, Stacks
  <1>3. \A f \in Filters : state[f] = Cleared
    BY DEF Init
  <1>4. Settled(Cleared, 0)
    BY ClearSettled
  <1>5. state \in [Filters -> FilterRec]
    BY <1>4 DEF Init, Settled
  <1>6. TypeOK
    <2>1. \A f \in Filters : /\ state[f].lines = 0
                             /\ state[f].last.lines <= state[f].count
                             /\ state[f].count <= Len(seen)
      BY <1>1, <1>3, <1>4 DEF Settled
    <2>2. disk \in Seq(Line) /\ seen \in Seq(Line) /\ apply \in BOOLEAN
          /\ shown \subseteq 0..(Len(seen) - 1)
      BY <1>1 DEF Init
    <2> QED BY <1>2, <1>5, <2>1, <2>2 DEF TypeOK
  <1>7. FileInv
    BY <1>1 DEF FileInv, Grown, Written
  <1>8. ASSUME NEW f \in Filters, NEW p PROVE Decided(state[f], p, seen)
    <2>1. /\ Cleared.count = 0 /\ ~Cleared.matched /\ Cleared.mask = {}
          /\ Cleared.last.lines = 0
      BY DEF Cleared
    <2>2. Marked(seen, p, 0) = {}
      BY <1>1 DEF Marked
    <2>3. OneMessage(seen, 0 - 0, 0)
      BY DEF OneMessage
    <2>4. Decided(Cleared, p, seen)
      BY <1>1, <2>1, <2>2, <2>3 DEF Decided
    <2> QED BY <1>3, <2>4
  <1>9. FreeClear /\ AllDecided
    BY <1>3, <1>8 DEF FreeClear, AllDecided, InStack
  <1>10. ShownPass
    BY <1>1 DEF ShownPass, Passing, Init
  <1>11. OutIsHidden
    BY DEF OutIsHidden, Init
  <1> QED BY <1>6, <1>7, <1>9, <1>10, <1>11 DEF Inv

-----------------------------------------------------------------------------
(* The writer.                                                             *)

\* The writer appends, finishes or rewrites the last line only.
LEMMA WriterKeeps ==
    ASSUME Inv, NEW line \in Line, WriteLine(line) \/ FinishLine(line)
    PROVE  Inv'
  <1>1. seen' = seen /\ filters' = filters /\ apply' = apply /\ state' = state /\ shown' = shown
    BY DEF WriteLine, FinishLine
  <1>2. /\ disk \in Seq(Line) /\ seen \in Seq(Line) /\ Len(disk) \in Nat /\ Len(seen) \in Nat
        /\ Len(seen) <= Len(disk)
    BY DEF Inv, TypeOK, FileInv, Grown
  <1>3. CASE WriteLine(line)
    <2>1. /\ disk' \in Seq(Line) /\ Len(disk') = Len(disk) + 1
          /\ disk'[Len(disk) + 1] = line
          /\ \A i \in 1..Len(disk) : disk'[i] = disk[i]
      BY <1>2, <1>3 DEF WriteLine
    <2>2. /\ disk = << >> => line.msg
          /\ disk # << >> => disk[Len(disk)].whole
          /\ ~line.msg => "continued" \in Env
          /\ ~line.whole => "unfinished" \in Env
      BY <1>3 DEF WriteLine
    <2>3. \A i \in 1..Len(disk') : i = Len(disk) + 1 \/ i \in 1..Len(disk)
      BY <1>2, <2>1
    <2>4. Grown(seen, disk')
      <3>1. \A i \in 1..Len(seen) : disk'[i] = disk[i]
        BY <1>2, <2>1
      <3>2. Len(seen) <= Len(disk')
        BY <1>2, <2>1
      <3>3. Grown(seen, disk)
        BY DEF Inv, FileInv
      <3> QED BY <3>1, <3>2, <3>3 DEF Grown
    <2>5. Written(disk')
      <3>1. Written(disk)
        BY DEF Inv, FileInv
      <3>2. disk'[1].msg
        <4>1. CASE disk = << >>
          BY <2>1, <2>2, <4>1
        <4>2. CASE disk # << >>
          <5>1. 1 \in 1..Len(disk)
            BY <1>2, <4>2
          <5> QED BY <2>1, <3>1, <4>2, <5>1 DEF Written
        <4> QED BY <4>1, <4>2
      <3>3. ASSUME NEW i \in 1..Len(disk')
            PROVE  /\ i < Len(disk') => disk'[i].whole
                   /\ "continued" \notin Env => disk'[i].msg
                   /\ "unfinished" \notin Env => disk'[i].whole
        <4>1. CASE i = Len(disk) + 1
          BY <1>2, <2>1, <2>2, <4>1
        <4>2. CASE i \in 1..Len(disk)
          <5>1. i < Len(disk) \/ (i = Len(disk) /\ disk # << >>)
            BY <1>2, <4>2
          <5> QED BY <2>1, <2>2, <3>1, <4>2, <5>1 DEF Written
        <4> QED BY <2>3, <4>1, <4>2
      <3> QED BY <3>2, <3>3 DEF Written
    <2>6. TypeOK'
      BY <1>1, <2>1 DEF Inv, TypeOK
    <2>7. FileInv'
      BY <1>1, <2>4, <2>5 DEF Inv, FileInv
    <2> QED BY <1>1, <2>6, <2>7 DEF Inv, FreeClear, AllDecided
  <1>4. CASE FinishLine(line)
    <2> DEFINE n == Len(disk)
    <2>1. /\ n > 0 /\ ~disk[n].whole /\ line.whole
          /\ disk[n].hit \subseteq line.hit
          /\ line.msg = disk[n].msg \/ ("late_ts" \in Env /\ line.msg)
          /\ disk' = [disk EXCEPT ![n] = line]
      BY <1>4 DEF FinishLine
    <2>2. /\ disk' \in Seq(Line) /\ Len(disk') = n /\ disk'[n] = line
          /\ \A i \in 1..n : i # n => disk'[i] = disk[i]
      BY <1>2, <2>1
    <2>3. Written(disk) /\ Grown(seen, disk) /\ "unfinished" \in Env /\ n \in 1..n
      <3>1. Written(disk) /\ Grown(seen, disk) /\ n \in 1..n
        BY <1>2, <2>1 DEF Inv, FileInv
      <3> QED BY <2>1, <3>1 DEF Written
    <2>4. line.msg = disk[n].msg \/ ("late_ts" \in Env /\ "continued" \in Env /\ line.msg)
      <3>1. "continued" \notin Env => disk[n].msg
        BY <2>3 DEF Written
      <3>2. disk[n] \in Line
        BY <1>2, <2>3
      <3> QED BY <2>1, <3>1, <3>2 DEF Line
    <2> HIDE DEF n
    <2>5. Grown(seen, disk')
      <3>1. Len(seen) <= Len(disk')
        BY <1>2, <2>2 DEF n
      <3>2. ASSUME NEW i \in 1..Len(seen)
            PROVE  /\ i < Len(seen) => disk'[i] = seen[i]
                   /\ seen[i].hit \subseteq disk'[i].hit
                   /\ "late_ts" \notin Env \/ "continued" \notin Env
                         => disk'[i].msg = seen[i].msg
                   /\ "unfinished" \notin Env => disk'[i] = seen[i]
        <4>1. /\ i < Len(seen) => disk[i] = seen[i]
              /\ seen[i].hit \subseteq disk[i].hit
              /\ "late_ts" \notin Env \/ "continued" \notin Env
                    => disk[i].msg = seen[i].msg
          BY <2>3 DEF Grown
        <4>2. i \in 1..n /\ (i < Len(seen) => i # n)
          BY <1>2 DEF n
        <4>3. CASE i = n
          BY <2>1, <2>2, <2>3, <2>4, <4>1, <4>2, <4>3
        <4>4. CASE i # n
          BY <2>2, <2>3, <4>1, <4>2, <4>4
        <4> QED BY <4>3, <4>4
      <3> QED BY <3>1, <3>2 DEF Grown
    <2>6. Written(disk')
      <3>1. disk # << >>
        BY <2>1 DEF n
      <3>2. disk'[1].msg
        <4>1. disk[1].msg
          BY <2>3, <3>1 DEF Written
        <4>2. CASE n = 1
          BY <2>2, <2>4, <4>1, <4>2
        <4>3. CASE n # 1
          <5>1. 1 \in 1..n
            BY <1>2, <2>1 DEF n
          <5> QED BY <2>2, <4>1, <4>3, <5>1
        <4> QED BY <4>2, <4>3
      <3>3. ASSUME NEW i \in 1..Len(disk')
            PROVE  /\ i < Len(disk') => disk'[i].whole
                   /\ "continued" \notin Env => disk'[i].msg
                   /\ "unfinished" \notin Env => disk'[i].whole
        <4>1. i \in 1..Len(disk) /\ i \in 1..n /\ Len(disk) = n
          BY <2>2 DEF n
        <4>2. /\ i < Len(disk) => disk[i].whole
              /\ "continued" \notin Env => disk[i].msg
          BY <2>3, <4>1 DEF Written
        <4>3. CASE i = n
          BY <2>1, <2>2, <2>3, <2>4, <4>2, <4>3
        <4>4. CASE i # n
          BY <2>2, <2>3, <4>1, <4>2, <4>4
        <4> QED BY <4>3, <4>4
      <3> QED BY <3>2, <3>3 DEF Written
    <2>7. TypeOK'
      BY <1>1, <2>2 DEF Inv, TypeOK
    <2>8. FileInv'
      BY <1>1, <2>5, <2>6 DEF Inv, FileInv
    <2> QED BY <1>1, <2>7, <2>8 DEF Inv, FreeClear, AllDecided
  <1> QED BY <1>3, <1>4

-----------------------------------------------------------------------------
(* The filter commands.                                                    *)

\* What a command does to the stack: a filter of the new one has its index
\* from before, or an index that was free.
Restacked(stack) ==
    /\ stack \in [Filters -> {NoFilter} \cup Filter]
    /\ \A f \in InStack(stack) :
          f \in InStack(filters) => stack[f].pattern = filters[f].pattern

\* text_filters_changed() reads the lines again for the filters of the new stack.
LEMMA ChangedKeeps ==
    ASSUME Inv, "filters" \in Env, NEW stack, Restacked(stack), NEW on \in BOOLEAN,
           TextFiltersChanged(stack, on), UNCHANGED <<disk, seen>>
    PROVE  /\ Inv'
           /\ \A l : l \in shown' <=> l \in Passing(stack, on, state', 0..(Len(seen) - 1))
  <1> DEFINE was == StateInUse(stack)
             m == MinCount(stack, was)
  <1>1. seen \in Seq(Line) /\ Len(seen) \in Nat /\ seen' = seen /\ disk' = disk
    BY DEF Inv, TypeOK
  <1>2. filters' = stack /\ apply' = on
    BY DEF TextFiltersChanged
  <1>3. ASSUME NEW f \in Filters
        PROVE  /\ Settled(was[f], Len(seen))
               /\ f \in InStack(stack) => was[f] = state[f]
               /\ f \notin InStack(stack) => was[f] = Cleared
    <2>1. was[f] = IF f \in InStack(stack) THEN state[f] ELSE Cleared
      BY DEF StateInUse
    <2> QED BY <1>1, <2>1, SettledAll, ClearSettled DEF Inv
  <1> HIDE DEF was
  <1>4. m \in 0..Len(seen) /\ \A f \in InStack(stack) : m <= was[f].count
    <2>1. \A f \in InStack(stack) : was[f].count \in Nat
      BY <1>3 DEF InStack, Settled, FilterRec
    <2> QED BY <1>1, <2>1, MinCountLeast
  <1>5. /\ state' = [f \in Filters |->
                        IF f \in InStack(stack) THEN Reobserve(was[f], stack[f], m)
                        ELSE was[f]]
        /\ shown' = Passing(stack, on, state', 0..(Len(seen) - 1))
    BY DEF TextFiltersChanged, Reobserved, Reobserve, was
  <1> HIDE DEF m
  <1>6. ASSUME NEW f \in Filters
        PROVE  /\ Settled(state'[f], Len(seen))
               /\ f \notin InStack(stack) => state'[f] = Cleared
    <2>1. CASE f \in InStack(stack)
      <3>1. state'[f] = Reobserve(was[f], stack[f], m)
        BY <1>5, <2>1
      <3> QED BY <1>1, <1>3, <1>4, <2>1, <3>1, ReobserveSettled
    <2>2. CASE f \notin InStack(stack)
      BY <1>3, <1>5, <2>2
    <2> QED BY <2>1, <2>2
  <1>7. ASSUME MarksKept, NEW f \in InStack(stack)
        PROVE  Decided(state'[f], stack[f].pattern, seen)
    <2>1. f \in Filters /\ state'[f] = Reobserve(was[f], stack[f], m) /\ was[f] = state[f]
      BY <1>3, <1>5 DEF InStack
    <2>2. state[f] = Cleared \/ Decided(state[f], stack[f].pattern, seen)
      <3>1. CASE f \in InStack(filters)
        BY <1>7, <3>1 DEF Inv, AllDecided, Restacked
      <3>2. CASE f \notin InStack(filters)
        BY <2>1, <3>2 DEF Inv, FreeClear
      <3> QED BY <3>1, <3>2
    <2>3. Settled(state[f], Len(seen)) /\ m <= state[f].count
      BY <1>3, <1>4, <2>1
    <2>4. Written(seen)
      BY DEF Inv, FileInv
    <2>5. Decided(Reobserve(state[f], stack[f], m), stack[f].pattern, seen)
      BY <1>1, <1>4, <1>7, <2>2, <2>3, <2>4, ReobserveDecides
    <2> QED BY <2>1, <2>5
  <1>8. shown' \subseteq 0..(Len(seen) - 1)
    BY <1>5 DEF Passing
  <1>9. TypeOK'
    <2>1. state' \in [Filters -> FilterRec]
      <3>1. \A f \in Filters : state'[f] \in FilterRec
        BY <1>6 DEF Settled
      <3>2. state' = [f \in Filters |-> state'[f]]
        BY <1>5
      <3> QED BY <3>1, <3>2
    <2>2. disk' \in Seq(Line) /\ stack \in [Filters -> {NoFilter} \cup Filter]
      BY <1>1 DEF Inv, TypeOK, Restacked
    <2> QED BY <1>1, <1>2, <1>6, <1>8, <2>1, <2>2 DEF TypeOK, Settled
  <1>10. FileInv'
    BY <1>1 DEF Inv, FileInv
  <1>11. FreeClear' /\ AllDecided'
    BY <1>1, <1>2, <1>6, <1>7 DEF FreeClear, AllDecided
  <1> QED BY <1>5, <1>9, <1>10, <1>11 DEF Inv

\* Every command restacks the filters and lets the rows be picked again.
LEMMA UserChanges ==
    ASSUME Inv, UserStep
    PROVE  \E stack : \E on \in BOOLEAN :
              /\ "filters" \in Env /\ Restacked(stack)
              /\ TextFiltersChanged(stack, on) /\ UNCHANGED <<disk, seen>>
  <1> USE DEF Inv, TypeOK
  <1>1. ASSUME NEW f \in Filters, NEW p \in Patterns, NEW type \in Types, AddFilter(f, p, type)
        PROVE  Restacked([filters EXCEPT ![f] = [pattern |-> p, type |-> type,
                                                enabled |-> TRUE]])
    <2> DEFINE new == [pattern |-> p, type |-> type, enabled |-> TRUE]
               stack == [filters EXCEPT ![f] = new]
    <2>1. new \in Filter /\ f \notin InStack(filters)
      BY <1>1 DEF Filter, AddFilter, NextIndex
    <2> HIDE DEF new
    <2>2. stack \in [Filters -> {NoFilter} \cup Filter]
      BY <2>1
    <2>3. \A g \in Filters : g # f => stack[g] = filters[g]
      OBVIOUS
    <2> HIDE DEF stack
    <2>4. Restacked(stack)
      BY <2>1, <2>2, <2>3 DEF Restacked, InStack
    <2> QED BY <2>4 DEF stack, new
  <1>2. ASSUME NEW f \in Filters, DeleteFilter(f)
        PROVE  Restacked([filters EXCEPT ![f] = NoFilter])
    BY <1>2 DEF Restacked, InStack
  <1>3. ASSUME NEW f \in Filters, SetFilterEnabled(f)
        PROVE  Restacked([filters EXCEPT ![f].enabled = ~@])
    <2>1. filters[f] \in Filter
      BY <1>3 DEF SetFilterEnabled, InStack
    <2> DEFINE new == [filters[f] EXCEPT !.enabled = ~@]
               stack == [filters EXCEPT ![f] = new]
    <2>2. stack = [filters EXCEPT ![f].enabled = ~@]
      BY <2>1 DEF Filter
    <2>3. new \in Filter /\ new.pattern = filters[f].pattern
      BY <2>1 DEF Filter
    <2> HIDE DEF new
    <2>4. stack \in [Filters -> {NoFilter} \cup Filter] /\ stack[f] = new
      BY <2>3
    <2>5. \A g \in Filters : g # f => stack[g] = filters[g]
      OBVIOUS
    <2> HIDE DEF stack
    <2>6. Restacked(stack)
      BY <2>3, <2>4, <2>5 DEF Restacked, InStack
    <2> QED BY <2>2, <2>6
  <1>4. Restacked(filters) /\ (~apply) \in BOOLEAN /\ apply \in BOOLEAN
    BY DEF Restacked
  <1>5. CASE \E f \in Filters, p \in Patterns, type \in Types : AddFilter(f, p, type)
    BY <1>1, <1>4, <1>5 DEF AddFilter
  <1>6. CASE \E f \in Filters : DeleteFilter(f)
    BY <1>2, <1>4, <1>6 DEF DeleteFilter
  <1>7. CASE \E f \in Filters : SetFilterEnabled(f)
    BY <1>3, <1>4, <1>7 DEF SetFilterEnabled
  <1>8. CASE ToggleApplyFilters
    BY <1>4, <1>8 DEF ToggleApplyFilters
  <1> QED BY <1>5, <1>6, <1>7, <1>8 DEF UserStep

-----------------------------------------------------------------------------
(* A pass of the main loop.                                                *)

\* A pass of the main loop reverts, scans and picks the rows of what is new.
LEMMA PassKeeps ==
    ASSUME Inv, Pass
    PROVE  Inv'
  <1> DEFINE from == IF seen = << >> THEN 0 ELSE Len(seen) - 1
  <1>1. /\ seen \in Seq(Line) /\ disk \in Seq(Line) /\ Len(seen) \in Nat /\ Len(disk) \in Nat
        /\ Grown(seen, disk) /\ Written(disk) /\ Len(seen) <= Len(disk)
    BY DEF Inv, TypeOK, FileInv, Grown
  <1>2. ScanStart(from)
    BY DEF ScanStart
  <1>3. /\ disk # seen /\ seen' = disk /\ disk' = disk /\ filters' = filters /\ apply' = apply
        /\ state' = [f \in Filters |->
                        IF f \in InStack(filters)
                        THEN Scanned(state[f], filters[f], disk, from) ELSE state[f]]
    BY DEF Pass
  <1>4. shown' \subseteq 0..(Len(disk) - 1)
    <2> DEFINE old == IF RollbackMatched(from) THEN 0 ELSE Len(seen)
    <2>1. shown' = (shown \cap 0..(old - 1))
                     \cup Passing(filters, apply, state', old..(Len(disk) - 1))
      BY DEF Pass
    <2>2. old \in 0..Len(disk)
      BY <1>1
    <2> HIDE DEF old
    <2>3. Passing(filters, apply, state', old..(Len(disk) - 1)) \subseteq old..(Len(disk) - 1)
      BY DEF Passing
    <2> QED BY <1>1, <2>1, <2>2, <2>3
  <1> HIDE DEF from
  <1>5. ASSUME NEW f \in Filters
        PROVE  /\ Settled(state'[f], Len(disk))
               /\ f \in InStack(filters) =>
                     state'[f] = Scanned(state[f], filters[f], disk, from)
               /\ f \notin InStack(filters) => state'[f] = state[f]
    <2>1. Settled(state[f], Len(seen))
      BY SettledAll DEF Inv
    <2>2. CASE f \in InStack(filters)
      BY <1>1, <1>2, <1>3, <2>1, <2>2, ScanSettled
    <2>3. CASE f \notin InStack(filters)
      <3>1. state'[f] = state[f]
        BY <1>3, <2>3
      <3>2. state[f].count \in Nat
        BY <2>1 DEF Settled, FilterRec
      <3> QED BY <1>1, <2>1, <2>3, <3>1, <3>2 DEF Settled
    <2> QED BY <2>2, <2>3
  <1>6. ASSUME MarksKept, NEW f \in InStack(filters)
        PROVE  Decided(state'[f], filters[f].pattern, disk)
    <2>1. f \in Filters
      BY DEF InStack
    <2>2. Settled(state[f], Len(seen)) /\ Decided(state[f], filters[f].pattern, seen)
      BY <1>6, <2>1, SettledAll DEF Inv, AllDecided
    <2>3. Decided(Scanned(state[f], filters[f], disk, from), filters[f].pattern, disk)
      BY <1>1, <1>2, <1>3, <1>6, <2>2, ScanDecides
    <2> QED BY <1>5, <2>1, <2>3
  <1>7. TypeOK'
    <2>1. state' \in [Filters -> FilterRec]
      <3>1. \A f \in Filters : state'[f] \in FilterRec
        BY <1>5 DEF Settled
      <3>2. state' = [f \in Filters |-> state'[f]]
        BY <1>3
      <3> QED BY <3>1, <3>2
    <2> QED BY <1>1, <1>3, <1>4, <1>5, <2>1 DEF Inv, TypeOK, Settled
  <1>8. FileInv'
    <2>1. Grown(disk, disk)
      BY <1>1 DEF Grown
    <2> QED BY <1>1, <1>3, <2>1 DEF FileInv
  <1>9. FreeClear' /\ AllDecided'
    BY <1>3, <1>5, <1>6 DEF Inv, FreeClear, AllDecided
  <1> QED BY <1>7, <1>8, <1>9 DEF Inv

\* If the line that was read again matches no filter, the last line decides
\* nothing new.
LEMMA LastLineSame ==
    ASSUME Inv, MarksKept, seen # << >>, NEW from, ScanStart(from),
           ~RollbackMatched(from), NEW f \in InStack(filters),
           filters[f].pattern \in disk[from + 1].hit
    PROVE  "filters" \in Env /\ disk[from + 1] = seen[from + 1]
  <1>1. /\ seen \in Seq(Line) /\ disk \in Seq(Line) /\ Len(seen) <= Len(disk)
        /\ Grown(seen, disk) /\ f \in Filters
    BY DEF Inv, TypeOK, FileInv, Grown, InStack
  <1>2. from \in Nat /\ Len(seen) = from + 1 /\ Len(seen) \in Nat
    BY <1>1, StartFields
  <1> DEFINE s == state[f]
             r == RevertToLast(s, 1)
  <1>3. Settled(s, Len(seen)) /\ Decided(s, filters[f].pattern, seen)
    BY <1>1, SettledAll DEF Inv, AllDecided
  <1>4. ~(from >= r.count)
    BY DEF RollbackMatched
  <1> HIDE DEF s
  <1>5. /\ s \in FilterRec /\ s.count = from + 1 /\ s.last.lines \in Nat
        /\ s.last.lines <= s.count
    BY <1>2, <1>3 DEF Settled, Decided, FilterRec
  <1>6. r.count = s.count - s.last.lines
    BY <1>5, RevertFields
  <1> HIDE DEF r
  <1>7. s.last.lines = 0
    BY <1>2, <1>4, <1>5, <1>6
  <1>8. "filters" \in Env
    BY <1>3, <1>7 DEF Decided
  <1>9. from + 1 \in 1..Len(seen)
    BY <1>2
  <1> QED BY <1>1, <1>8, <1>9 DEF Grown, MarksKept

\* A pass keeps rows from before unless the line that was read again matched.
LEMMA PassShown ==
    ASSUME Inv, Pass, NEW from, ScanStart(from), NEW l \in shown'
    PROVE  \/ l \in 0..(Len(disk) - 1) /\ l \in Passing(filters, apply, state', {l})
           \/ ~RollbackMatched(from) /\ l \in shown /\ l \in 0..(Len(seen) - 1)
  <1>1. /\ Len(seen) \in Nat /\ Len(disk) \in Nat
    BY DEF Inv, TypeOK
  <1> DEFINE old == IF RollbackMatched(from) THEN 0 ELSE Len(seen)
  <1>2. shown' = (shown \cap 0..(old - 1))
                   \cup Passing(filters, apply, state', old..(Len(disk) - 1))
    BY DEF Pass, ScanStart
  <1>3. old \in Nat
    BY <1>1
  <1>4. CASE l \in shown /\ l \in 0..(old - 1)
    <2>1. ~RollbackMatched(from)
      BY <1>4
    <2> QED BY <1>4, <2>1
  <1>5. CASE l \in Passing(filters, apply, state', old..(Len(disk) - 1))
    <2>1. l \in old..(Len(disk) - 1) /\ l \in Passing(filters, apply, state', {l})
      BY <1>5 DEF Passing
    <2> QED BY <1>1, <1>3, <2>1
  <1> QED BY <1>2, <1>4, <1>5

-----------------------------------------------------------------------------
(* Rows.                                                                   *)

\* An enabled filter is in the stack.
LEMMA EnabledInStack ==
    ASSUME NEW stack, NEW type \in {"IN", "IN+", "OUT", "OUT+"}, NEW f \in Enabled(stack, type)
    PROVE  f \in InStack(stack)
  BY DEF Enabled, InStack, NoFilter

\* A line that is not marked does not match.
LEMMA Unmarked ==
    ASSUME NEW s, NEW p, NEW lines \in Seq(Line), Decided(s, p, lines),
           NEW l \in 0..(Len(lines) - 1), l \notin s.mask
    PROVE  p \notin lines[l + 1].hit
  <1>1. Joined(lines, l, l)
    BY DEF Joined
  <1> QED BY <1>1 DEF Decided, Marked

\* A row that passes matches no enabled OUT filter.
LEMMA PassingHidden ==
    ASSUME NEW stack, NEW st, NEW rows, NEW l \in Passing(stack, TRUE, st, rows),
           NEW f \in Enabled(stack, "OUT")
    PROVE  l \notin st[f].mask
  BY DEF Passing, Excluded, Enabled

\* No step shows a row that an OUT filter matches.
LEMMA HiddenStep ==
    ASSUME MarksKept, Inv, OutIsHidden, [Next]_vars, Inv'
    PROVE  OutIsHidden'
  <1>1. CASE Pass
    <2> DEFINE from == IF seen = << >> THEN 0 ELSE Len(seen) - 1
    <2>1. ScanStart(from)
      BY DEF ScanStart
    <2> HIDE DEF from
    <2>2. seen' = disk /\ filters' = filters /\ apply' = apply
      BY <1>1 DEF Pass
    <2>3. /\ seen \in Seq(Line) /\ disk \in Seq(Line) /\ Len(seen) \in Nat
          /\ Len(seen) <= Len(disk) /\ Grown(seen, disk)
      BY DEF Inv, TypeOK, FileInv, Grown
    <2>4. ASSUME apply, NEW l \in shown', NEW f \in Enabled(filters, "OUT")
          PROVE  filters[f].pattern \notin disk[l + 1].hit
      <3>1. f \in InStack(filters)
        BY EnabledInStack
      <3>2. CASE l \in 0..(Len(disk) - 1) /\ l \in Passing(filters, apply, state', {l})
        <4>1. l \notin state'[f].mask
          BY <2>4, <3>2, PassingHidden
        <4>2. Decided(state'[f], filters[f].pattern, disk)
          BY <2>2, <3>1 DEF Inv, AllDecided
        <4> QED BY <2>3, <3>2, <4>1, <4>2, Unmarked
      <3>3. CASE ~RollbackMatched(from) /\ l \in shown /\ l \in 0..(Len(seen) - 1)
        <4>1. filters[f].pattern \notin seen[l + 1].hit
          BY <2>4, <3>3 DEF OutIsHidden
        <4>2. seen # << >> /\ Len(seen) = from + 1 /\ from \in Nat
          BY <2>1, <2>3, <3>3, StartFields
        <4>3. CASE l = from
          BY <2>1, <3>1, <3>3, <4>1, <4>2, <4>3, LastLineSame
        <4>4. CASE l # from
          <5>1. l + 1 \in 1..Len(seen) /\ l + 1 < Len(seen)
            BY <2>3, <3>3, <4>2, <4>4
          <5> QED BY <2>3, <4>1, <5>1 DEF Grown
        <4> QED BY <4>3, <4>4
      <3> QED BY <1>1, <2>1, <3>2, <3>3, PassShown
    <2> QED BY <2>2, <2>4 DEF OutIsHidden
  <1>2. CASE UserStep
    <2>1. PICK stack : \E on \in BOOLEAN :
             /\ "filters" \in Env /\ Restacked(stack)
             /\ TextFiltersChanged(stack, on) /\ UNCHANGED <<disk, seen>>
      BY <1>2, UserChanges
    <2>2. PICK on \in BOOLEAN :
             /\ "filters" \in Env /\ Restacked(stack)
             /\ TextFiltersChanged(stack, on) /\ UNCHANGED <<disk, seen>>
      BY <2>1
    <2>3. \A l : l \in shown' <=> l \in Passing(stack, on, state', 0..(Len(seen) - 1))
      BY <2>2, ChangedKeeps
    <2>4. filters' = stack /\ apply' = on /\ seen' = seen /\ seen \in Seq(Line)
      BY <2>2 DEF TextFiltersChanged, Inv, TypeOK
    <2>5. ASSUME on, NEW l \in shown', NEW f \in Enabled(stack, "OUT")
          PROVE  stack[f].pattern \notin seen[l + 1].hit
      <3>1. f \in InStack(stack)
        BY EnabledInStack
      <3>2. l \in Passing(stack, TRUE, state', 0..(Len(seen) - 1))
        BY <2>3, <2>5 DEF Passing
      <3>3. l \notin state'[f].mask /\ l \in 0..(Len(seen) - 1)
        BY <3>2, PassingHidden DEF Passing
      <3>4. Decided(state'[f], stack[f].pattern, seen)
        BY <2>4, <3>1 DEF Inv, AllDecided
      <3> QED BY <2>4, <3>3, <3>4, Unmarked
    <2> QED BY <2>4, <2>5 DEF OutIsHidden
  <1>3. CASE WriterStep \/ UNCHANGED vars
    <2>1. seen' = seen /\ filters' = filters /\ apply' = apply /\ shown' = shown
      BY <1>3 DEF WriterStep, WriteLine, FinishLine, vars
    <2> QED BY <2>1 DEF OutIsHidden, Enabled
  <1> QED BY <1>1, <1>2, <1>3 DEF Next

\* Where every line is a message, the lines that match are marked.
LEMMA OneLineMarks ==
    ASSUME NEW lines \in Seq(Line), \A i \in 1..Len(lines) : lines[i].msg, NEW p, NEW l
    PROVE  l \in Marked(lines, p, Len(lines)) <=>
              l \in 0..(Len(lines) - 1) /\ p \in lines[l + 1].hit
  <1>1. ASSUME NEW k \in 0..(Len(lines) - 1), l \in 0..(Len(lines) - 1), Joined(lines, k, l)
        PROVE  k = l
    <2>1. CASE k < l
      <3>1. l \in 1..(Len(lines) - 1) /\ l + 1 \in 1..Len(lines)
        BY <1>1, <2>1
      <3> QED BY <1>1, <2>1, <3>1 DEF Joined
    <2>2. CASE l < k
      <3>1. k \in 1..(Len(lines) - 1) /\ k + 1 \in 1..Len(lines)
        BY <1>1, <2>2
      <3> QED BY <1>1, <2>2, <3>1 DEF Joined
    <2> QED BY <1>1, <2>1, <2>2
  <1>2. ASSUME l \in 0..(Len(lines) - 1) PROVE Joined(lines, l, l)
    BY <1>2 DEF Joined
  <1> QED BY <1>1, <1>2 DEF Marked

\* The marks of a row that is kept are the same after the pass.
LEMMA MarksSame ==
    ASSUME RowsPicked, Inv, Pass, Inv', NEW from, ScanStart(from), ~RollbackMatched(from),
           NEW l \in 0..(Len(seen) - 1), NEW f \in Filters
    PROVE  l \in state'[f].mask <=> l \in state[f].mask
  <1>1. /\ seen \in Seq(Line) /\ disk \in Seq(Line) /\ Len(seen) \in Nat /\ Len(disk) \in Nat
        /\ Len(seen) <= Len(disk) /\ Grown(seen, disk) /\ Written(seen) /\ Written(disk)
    BY DEF Inv, TypeOK, FileInv, Grown
  <1>2. seen' = disk /\ filters' = filters
    BY DEF Pass
  <1>3. MarksKept
    BY DEF RowsPicked, MarksKept
  <1>4. CASE f \notin InStack(filters)
    BY <1>2, <1>4 DEF Inv, FreeClear
  <1>5. CASE f \in InStack(filters)
    <2> DEFINE p == filters[f].pattern
    <2>1. l \in state[f].mask <=> p \in seen[l + 1].hit
      <3>1. \A i \in 1..Len(seen) : seen[i].msg
        BY <1>1 DEF Written, RowsPicked
      <3>2. Decided(state[f], p, seen)
        BY <1>3, <1>5 DEF Inv, AllDecided
      <3> QED BY <1>1, <3>1, <3>2, OneLineMarks DEF Decided
    <2>2. l \in state'[f].mask <=> p \in disk[l + 1].hit
      <3>1. \A i \in 1..Len(disk) : disk[i].msg
        BY <1>1 DEF Written, RowsPicked
      <3>2. Decided(state'[f], p, disk)
        BY <1>2, <1>3, <1>5 DEF Inv, AllDecided
      <3>3. l \in 0..(Len(disk) - 1)
        BY <1>1
      <3> QED BY <1>1, <3>1, <3>2, <3>3, OneLineMarks DEF Decided
    <2>3. seen # << >> /\ Len(seen) = from + 1 /\ from \in Nat
      BY <1>1, StartFields
    <2>4. l + 1 \in 1..Len(seen)
      BY <1>1
    <2>5. CASE l = from
      <3>1. p \in seen[l + 1].hit => p \in disk[l + 1].hit
        BY <1>1, <2>4 DEF Grown
      <3>2. p \in disk[l + 1].hit => disk[l + 1] = seen[l + 1]
        BY <1>3, <1>5, <2>3, <2>5, LastLineSame
      <3> QED BY <2>1, <2>2, <3>1, <3>2
    <2>6. CASE l # from
      <3>1. l + 1 < Len(seen)
        BY <1>1, <2>3, <2>6
      <3> QED BY <1>1, <2>1, <2>2, <2>4, <3>1 DEF Grown
    <2> QED BY <2>5, <2>6
  <1> QED BY <1>4, <1>5

\* Every step shows the rows that pass, where none has to be picked again.
LEMMA ShownStep ==
    ASSUME RowsPicked, Inv, ShownPass, [Next]_vars, Inv'
    PROVE  ShownPass'
  <1>1. CASE Pass
    <2> DEFINE from == IF seen = << >> THEN 0 ELSE Len(seen) - 1
               old == IF RollbackMatched(from) THEN 0 ELSE Len(seen)
    <2>1. ScanStart(from)
      BY DEF ScanStart
    <2>2. /\ seen' = disk /\ filters' = filters /\ apply' = apply
          /\ shown' = (shown \cap 0..(old - 1))
                        \cup Passing(filters, apply, state', old..(Len(disk) - 1))
      BY <1>1 DEF Pass
    <2>3. Len(seen) \in Nat /\ Len(disk) \in Nat /\ Len(seen) <= Len(disk)
      BY DEF Inv, TypeOK, FileInv, Grown
    <2>4. old \in Nat /\ old <= Len(disk)
      BY <2>3
    <2>5. ASSUME NEW l \in 0..(old - 1)
          PROVE  l \in shown <=> l \in Passing(filters, apply, state', 0..(Len(disk) - 1))
      <3>1. ~RollbackMatched(from) /\ l \in 0..(Len(seen) - 1)
        BY <2>5
      <3>2. \A f \in Filters : l \in state'[f].mask <=> l \in state[f].mask
        BY <1>1, <2>1, <3>1, MarksSame
      <3>3. { f \in Filters : l \in state'[f].mask } = { f \in Filters : l \in state[f].mask }
        BY <3>2
      <3>4. l \in shown <=> l \in Passing(filters, apply, state, 0..(Len(seen) - 1))
        BY DEF ShownPass
      <3>5. l \in 0..(Len(disk) - 1)
        BY <2>3, <3>1
      <3> HIDE DEF old, from
      <3> QED BY <3>1, <3>3, <3>4, <3>5 DEF Passing
    <2> HIDE DEF old, from
    <2>6. ASSUME NEW l
          PROVE  l \in shown' <=> l \in Passing(filters, apply, state', 0..(Len(disk) - 1))
      <3>1. l \in 0..(Len(disk) - 1) <=> l \in 0..(old - 1) \/ l \in old..(Len(disk) - 1)
        BY <2>3, <2>4
      <3>2. ~(l \in 0..(old - 1) /\ l \in old..(Len(disk) - 1))
        BY <2>3, <2>4
      <3>3. CASE l \in 0..(old - 1)
        BY <2>2, <2>5, <3>2, <3>3 DEF Passing
      <3>4. CASE l \notin 0..(old - 1)
        BY <2>2, <3>1, <3>4 DEF Passing
      <3> QED BY <3>3, <3>4
    <2> QED BY <2>2, <2>6 DEF ShownPass
  <1>2. CASE UserStep
    <2>1. PICK stack : \E on \in BOOLEAN :
             /\ "filters" \in Env /\ Restacked(stack)
             /\ TextFiltersChanged(stack, on) /\ UNCHANGED <<disk, seen>>
      BY <1>2, UserChanges
    <2>2. PICK on \in BOOLEAN :
             /\ "filters" \in Env /\ Restacked(stack)
             /\ TextFiltersChanged(stack, on) /\ UNCHANGED <<disk, seen>>
      BY <2>1
    <2>3. \A l : l \in shown' <=> l \in Passing(stack, on, state', 0..(Len(seen) - 1))
      BY <2>2, ChangedKeeps
    <2>4. filters' = stack /\ apply' = on /\ seen' = seen
      BY <2>2 DEF TextFiltersChanged
    <2> QED BY <2>3, <2>4 DEF ShownPass
  <1>3. CASE WriterStep \/ UNCHANGED vars
    <2>1. /\ seen' = seen /\ filters' = filters /\ apply' = apply /\ shown' = shown
          /\ state' = state
      BY <1>3 DEF WriterStep, WriteLine, FinishLine, vars
    <2> QED BY <2>1 DEF ShownPass
  <1> QED BY <1>1, <1>2, <1>3 DEF Next

\* The marks are those that the messages call for.
LEMMA MarkedMatches ==
    ASSUME Inv, MarksKept, NEW f \in InStack(filters), NEW l \in 0..(Len(seen) - 1)
    PROVE  l \in state[f].mask <=> Matches(f, l)
  <1> DEFINE p == filters[f].pattern
  <1>1. Len(seen) \in Nat
    BY DEF Inv, TypeOK
  <1>2. Decided(state[f], p, seen)
    BY DEF Inv, AllDecided
  <1>3. l \in state[f].mask <=>
           \E k \in 0..(Len(seen) - 1) : Joined(seen, k, l) /\ p \in seen[k + 1].hit
    BY <1>2 DEF Decided, Marked
  <1>4. ASSUME NEW k \in 0..(Len(seen) - 1)
        PROVE  k \in MessageOf(l) <=> Joined(seen, k, l)
    <2> DEFINE lo == IF k < l THEN k ELSE l
               hi == IF k < l THEN l ELSE k
    <2>1. lo \in Nat /\ hi \in Nat /\ lo <= hi /\ hi < Len(seen)
      BY <1>1
    <2>2. \A i \in Nat : i \in (lo + 1)..hi <=>
             /\ i \in 1..(Len(seen) - 1)
             /\ (k < i /\ i <= l) \/ (l < i /\ i <= k)
      BY <1>1
    <2>3. k \in MessageOf(l) <=> \A i \in (lo + 1)..hi : ~seen[i + 1].msg
      BY DEF MessageOf
    <2> HIDE DEF lo, hi
    <2>4. \A i \in (lo + 1)..hi : i \in Nat
      BY <2>1
    <2>5. \A i \in 1..(Len(seen) - 1) : i \in Nat
      BY <1>1
    <2> QED BY <2>2, <2>3, <2>4, <2>5 DEF Joined
  <1>5. \A k \in MessageOf(l) : k \in 0..(Len(seen) - 1)
    BY DEF MessageOf
  <1> QED BY <1>3, <1>4, <1>5 DEF Matches

-----------------------------------------------------------------------------
(* Theorems.                                                               *)

\* The invariant holds in every state.
LEMMA InvInvariant == Spec => []Inv
  <1>1. Init => Inv
    BY InitInv
  <1>2. Inv /\ [Next]_vars => Inv'
    <2> SUFFICES ASSUME Inv, [Next]_vars PROVE Inv'
      OBVIOUS
    <2>1. CASE Pass
      BY <2>1, PassKeeps
    <2>2. CASE UserStep
      <3>1. PICK stack : \E on \in BOOLEAN :
               /\ "filters" \in Env /\ Restacked(stack)
               /\ TextFiltersChanged(stack, on) /\ UNCHANGED <<disk, seen>>
        BY <2>2, UserChanges
      <3> QED BY <3>1, ChangedKeeps
    <2>3. CASE WriterStep
      BY <2>3, WriterKeeps DEF WriterStep
    <2>4. CASE UNCHANGED vars
      BY <2>4 DEF vars, Inv, TypeOK, FileInv, FreeClear, AllDecided
    <2> QED BY <2>1, <2>2, <2>3, <2>4 DEF Next
  <1> QED BY <1>1, <1>2, PTL DEF Spec

\* text_filter: whatever the writer and the user do, a filter counts no line
\* that the file has not, and nothing is left half collected between scans.
THEOREM TypeCorrect == Spec => []TypeOK
  <1>1. Inv => TypeOK
    BY DEF Inv
  <1> QED BY <1>1, InvInvariant, PTL

\* end_of_message(), add_line() and revert_to_last(): a filter has decided every
\* line and has marked the lines of the messages that match, and no other.
THEOREM MaskTheorem ==
    ASSUME MarksKept
    PROVE  Spec => []MaskExact
  <1>1. Inv => MaskExact
    <2> SUFFICES ASSUME Inv, NEW f \in InStack(filters)
                 PROVE  /\ state[f].count = Len(seen)
                        /\ state[f].mask = { l \in 0..(Len(seen) - 1) : Matches(f, l) }
      BY DEF MaskExact
    <2>1. Decided(state[f], filters[f].pattern, seen)
      BY DEF Inv, AllDecided
    <2>2. \A l : l \in state[f].mask => l \in 0..(Len(seen) - 1)
      BY <2>1 DEF Decided, Marked
    <2>3. \A l \in 0..(Len(seen) - 1) : l \in state[f].mask <=> Matches(f, l)
      BY MarkedMatches
    <2>4. state[f].mask = { l \in 0..(Len(seen) - 1) : Matches(f, l) }
      BY <2>2, <2>3
    <2> QED BY <2>1, <2>4 DEF Decided
  <1> QED BY <1>1, InvInvariant, PTL

\* What the four kinds of filter ask of the message of line l.
PassesAll(l) ==
    /\ \/ Enabled(filters, "IN") = {}
       \/ \E f \in Enabled(filters, "IN") : Matches(f, l)
    /\ \A f \in Enabled(filters, "IN+") : Matches(f, l)
    /\ \A f \in Enabled(filters, "OUT") : ~Matches(f, l)
    /\ \/ Enabled(filters, "OUT+") = {}
       \/ \E f \in Enabled(filters, "OUT+") : ~Matches(f, l)

\* The rows shown are exactly those that the four kinds of filter leave.
THEOREM ShownTheorem ==
    ASSUME RowsPicked
    PROVE  Spec => []ShownExact
  <1>1. Init => ShownPass
    BY InitInv
  <1>2. Inv /\ Inv' /\ ShownPass /\ [Next]_vars => ShownPass'
    BY ShownStep
  <1>3. Inv /\ ShownPass => ShownExact
    <2> SUFFICES ASSUME Inv, ShownPass, apply
                 PROVE  shown = { l \in 0..(Len(seen) - 1) : PassesAll(l) }
      BY DEF ShownExact, PassesAll
    <2>5. shown \subseteq 0..(Len(seen) - 1)
      BY DEF Inv, TypeOK
    <2> SUFFICES ASSUME NEW l \in 0..(Len(seen) - 1)
                 PROVE  l \in shown <=> PassesAll(l)
      BY <2>5
    <2> DEFINE marks == { f \in Filters : l \in state[f].mask }
    <2>1. MarksKept
      BY DEF RowsPicked, MarksKept
    <2>2. ASSUME NEW type \in {"IN", "IN+", "OUT", "OUT+"}, NEW f \in Enabled(filters, type)
          PROVE  f \in marks <=> Matches(f, l)
      <3>1. f \in InStack(filters) /\ f \in Filters
        BY EnabledInStack DEF Enabled
      <3> QED BY <2>1, <3>1, MarkedMatches
    <2>3. l \in shown <=> ~Excluded(filters, marks)
      BY DEF ShownPass, Passing
    <2> HIDE DEF marks
    <2>4. /\ \A f \in Enabled(filters, "IN") : f \in marks <=> Matches(f, l)
          /\ \A f \in Enabled(filters, "IN+") : f \in marks <=> Matches(f, l)
          /\ \A f \in Enabled(filters, "OUT") : f \in marks <=> Matches(f, l)
          /\ \A f \in Enabled(filters, "OUT+") : f \in marks <=> Matches(f, l)
      BY <2>2
    <2> QED BY <2>3, <2>4 DEF Excluded, PassesAll
  <1> QED BY <1>1, <1>2, <1>3, InvInvariant, PTL DEF Spec

\* A row that matches an enabled OUT filter by itself is never shown, although
\* rows from before a scan are not picked again unless the line matched.
THEOREM HiddenTheorem ==
    ASSUME MarksKept
    PROVE  Spec => []OutIsHidden
  <1>1. Init => OutIsHidden
    BY InitInv
  <1>2. Inv /\ Inv' /\ OutIsHidden /\ [Next]_vars => OutIsHidden'
    BY HiddenStep
  <1> QED BY <1>1, <1>2, InvInvariant, PTL DEF Spec
=============================================================================
