--------------------------- MODULE LogIndexProofs ---------------------------
(***************************************************************************)
(* Proofs about LogIndex, for any number of files, lines and times.        *)
(*                                                                         *)
(* The helpers come first: the times of the lines of a file as a chain,    *)
(* the bisection of std::lower_bound, the filter pass and the orders that  *)
(* the merge may produce.  They give RebuiltIs: from a state that is Ready *)
(* rebuild_index() empties the index, leaves it alone, or completes it,    *)
(* whether it appends, cuts back to the lowest new time or redoes all.     *)
(*                                                                         *)
(* The invariant Inv says that the slots have counted every line that was  *)
(* scanned (Caught), that the index has exactly those lines (Exactly), and *)
(* that while no shifted file waits to be sorted (Quiet) the rows are in   *)
(* time order and the shown rows are those that pass the filters.  It is   *)
(* inductive under Benign, the two cases that the code does not handle     *)
(* being excluded.                                                         *)
(***************************************************************************)
EXTENDS LogIndex, Induction, FiniteSetTheorems, SequenceTheorems

-----------------------------------------------------------------------------
(* The times of the lines of a file.                                       *)

\* The time of a line, given its timestamp and the time of the line before.
NextTime(f, ts, offset, prev) ==
    IF ts = 0 THEN prev
    ELSE IF f \in TimeOrdered /\ ts + offset < prev THEN prev ELSE ts + offset

\* T holds the times of the lines, and 0 before the first.
TimeChain(T, f, lines, offset) ==
    /\ T \in [0..Len(lines) -> Nat]
    /\ T[0] = 0
    /\ \A i \in 1..Len(lines) : T[i] = NextTime(f, lines[i].ts, offset, T[i - 1])

\* The parts of a line.
LEMMA LineParts ==
    ASSUME NEW x \in Line
    PROVE  x.ts \in Nat /\ x.whole \in BOOLEAN
  <1>1. MaxTime \in Nat
    BY EnvAssumption
  <1> QED BY <1>1 DEF Line

\* LineTimes is such a chain: its recursion is well founded.
LEMMA TimesChain ==
    ASSUME NEW f, NEW lines \in Seq(Line), NEW offset \in Nat
    PROVE  \E T : /\ TimeChain(T, f, lines, offset)
                  /\ LineTimes(f, lines, offset) = [i \in 1..Len(lines) |-> T[i]]
  <1> DEFINE n == Len(lines)
             T[i \in 0..n] ==
               IF i = 0 THEN 0
               ELSE IF lines[i].ts = 0 THEN T[i - 1]
               ELSE IF f \in TimeOrdered /\ lines[i].ts + offset < T[i - 1]
                    THEN T[i - 1]
                    ELSE lines[i].ts + offset
             body(g) == [i \in 0..n |->
               IF i = 0 THEN 0
               ELSE IF lines[i].ts = 0 THEN g[i - 1]
               ELSE IF f \in TimeOrdered /\ lines[i].ts + offset < g[i - 1]
                    THEN g[i - 1]
                    ELSE lines[i].ts + offset]
             F == [p \in Nat \X (1..n) |-> NextTime(f, lines[p[2]].ts, offset, p[1])]
  <1>1. n \in Nat /\ \A i \in 1..n : lines[i].ts \in Nat
    BY LineParts
  <1>2. LineTimes(f, lines, offset) = [i \in 1..n |-> T[i]]
    BY DEF LineTimes
  <1>3. PICK g : Loop(g, 0, F, Nat, 0, n)
    <2>1. Rounds(F, Nat, 0, n)
      BY <1>1 DEF NextTime, Rounds
    <2>2. 0 \in Nat /\ 0 <= n
      BY <1>1
    <2> HIDE DEF F, n
    <2> QED BY <1>1, <2>1, <2>2, Iterates
  <1>4. \A i \in 1..n : g[i - 1] \in Nat /\ g[i] = NextTime(f, lines[i].ts, offset, g[i - 1])
    <2> SUFFICES ASSUME NEW i \in 1..n
                 PROVE  g[i - 1] \in Nat /\ g[i] = NextTime(f, lines[i].ts, offset, g[i - 1])
      OBVIOUS
    <2>1. i - 1 \in 0..n /\ i \in (0 + 1)..n
      BY <1>1
    <2>2. <<g[i - 1], i>> \in Nat \X (1..n)
      BY <1>3, <2>1 DEF Loop
    <2> QED BY <1>3, <2>1, <2>2 DEF Loop
  <1> HIDE DEF n, F
  <1>5. g = body(g)
    <2>1. ASSUME NEW i \in 0..n PROVE g[i] = body(g)[i]
      <3>1. i = 0 \/ i \in 1..n
        BY <1>1
      <3> QED BY <1>3, <1>4, <3>1 DEF NextTime, Loop
    <2> QED BY <1>3, <2>1 DEF Loop
  <1>6. \E h : h = body(h)
    BY <1>5
  <1>7. T = body(T)
    BY <1>6
  <1> HIDE DEF T
  <1>8. \A i \in 0..n : T[i] = body(T)[i]
    BY <1>7
  <1>9. T[0] = 0 /\ \A i \in 1..n : T[i] = NextTime(f, lines[i].ts, offset, T[i - 1])
    BY <1>1, <1>8 DEF NextTime
  <1> DEFINE S == { i \in 0..n : T[i] \in Nat }
  <1>10. \A i \in 0..n : i \in S
    <2>1. 0 \in S
      BY <1>1, <1>9
    <2>2. ASSUME NEW i \in S, i \in 0..(n - 1) PROVE i + 1 \in S
      <3>1. i + 1 \in 1..n /\ (i + 1) - 1 = i /\ i + 1 \in 0..n
        BY <1>1, <2>2
      <3>2. T[i + 1] = NextTime(f, lines[i + 1].ts, offset, T[i])
        BY <1>9, <3>1
      <3>3. lines[i + 1].ts \in Nat /\ T[i] \in Nat
        BY <1>1, <3>1
      <3>4. T[i + 1] \in Nat
        BY <3>2, <3>3 DEF NextTime
      <3> QED BY <3>1, <3>4
    <2> HIDE DEF S
    <2> QED BY <1>1, <2>1, <2>2, RangeInduction
  <1>11. T \in [0..n -> Nat]
    BY <1>7, <1>10
  <1>12. TimeChain(T, f, lines, offset)
    BY <1>9, <1>11 DEF TimeChain, n
  <1> QED BY <1>2, <1>12 DEF n

\* Every line has a time.
LEMMA TimesType ==
    ASSUME NEW f, NEW lines \in Seq(Line), NEW offset \in Nat
    PROVE  /\ LineTimes(f, lines, offset) \in Seq(Nat)
           /\ Len(LineTimes(f, lines, offset)) = Len(lines)
           /\ DOMAIN LineTimes(f, lines, offset) = 1..Len(lines)
           /\ \A i \in 1..Len(lines) : LineTimes(f, lines, offset)[i] \in Nat
  <1>1. PICK T : /\ TimeChain(T, f, lines, offset)
                 /\ LineTimes(f, lines, offset) = [i \in 1..Len(lines) |-> T[i]]
    BY TimesChain
  <1>2. Len(lines) \in Nat /\ \A i \in 1..Len(lines) : T[i] \in Nat
    BY <1>1 DEF TimeChain
  <1> QED BY <1>1, <1>2

\* Lines and files that agree on the first n timestamps, and on their times.
SameStamps(lines, more, n) == \A i \in 1..n : lines[i].ts = more[i].ts
SameTimes(f, lines, more, offset, n) ==
    \A i \in 1..n : LineTimes(f, lines, offset)[i] = LineTimes(f, more, offset)[i]

\* The times of the first lines do not depend on those that follow, or on
\* anything but the timestamps.
LEMMA TimesPrefix ==
    ASSUME NEW f, NEW lines \in Seq(Line), NEW more \in Seq(Line), NEW offset \in Nat,
           NEW n \in Nat, n <= Len(lines), n <= Len(more),
           SameStamps(lines, more, n)
    PROVE  SameTimes(f, lines, more, offset, n)
  <1>1. PICK T : /\ TimeChain(T, f, lines, offset)
                 /\ LineTimes(f, lines, offset) = [i \in 1..Len(lines) |-> T[i]]
    BY TimesChain
  <1>2. PICK U : /\ TimeChain(U, f, more, offset)
                 /\ LineTimes(f, more, offset) = [i \in 1..Len(more) |-> U[i]]
    BY TimesChain
  <1> DEFINE S == { i \in 0..n : T[i] = U[i] }
  <1>3. \A i \in 0..n : i \in S
    <2>1. 0 \in S
      BY <1>1, <1>2 DEF TimeChain
    <2>2. ASSUME NEW i \in S, i \in 0..(n - 1) PROVE i + 1 \in S
      <3>1. /\ i + 1 \in 1..Len(lines) /\ i + 1 \in 1..Len(more) /\ (i + 1) - 1 = i
            /\ i + 1 \in 0..n /\ i + 1 \in 1..n
        BY <2>2
      <3>2. T[i + 1] = NextTime(f, lines[i + 1].ts, offset, T[i])
        BY <1>1, <3>1 DEF TimeChain
      <3>3. U[i + 1] = NextTime(f, more[i + 1].ts, offset, U[i])
        BY <1>2, <3>1 DEF TimeChain
      <3>4. T[i] = U[i]
        OBVIOUS
      <3> QED BY <3>1, <3>2, <3>3, <3>4 DEF SameStamps
    <2> HIDE DEF S
    <2> QED BY <2>1, <2>2, RangeInduction
  <1> QED BY <1>1, <1>2, <1>3 DEF SameTimes

\* In a time-ordered format the time of a line is not before the last.
LEMMA NextTimeGrows ==
    ASSUME NEW f \in TimeOrdered, NEW ts \in Nat, NEW offset \in Nat, NEW prev \in Nat
    PROVE  NextTime(f, ts, offset, prev) \in Nat /\ prev <= NextTime(f, ts, offset, prev)
  BY DEF NextTime

\* In a time-ordered format no line is older than one before it.
LEMMA TimesOrdered ==
    ASSUME NEW f \in TimeOrdered, NEW lines \in Seq(Line), NEW offset \in Nat,
           NEW i \in 1..Len(lines), NEW j \in i..Len(lines)
    PROVE  LineTimes(f, lines, offset)[i] <= LineTimes(f, lines, offset)[j]
  <1>1. PICK T : /\ TimeChain(T, f, lines, offset)
                 /\ LineTimes(f, lines, offset) = [k \in 1..Len(lines) |-> T[k]]
    BY TimesChain
  <1>2. \A k \in 0..Len(lines) : T[k] \in Nat
    BY <1>1 DEF TimeChain
  <1>3. i \in Nat /\ Len(lines) \in Nat
    OBVIOUS
  <1> DEFINE S == { k \in i..Len(lines) : T[i] <= T[k] }
  <1>4. \A k \in i..Len(lines) : k \in S
    <2>1. i \in S
      BY <1>2
    <2>2. ASSUME NEW k \in S, k \in i..(Len(lines) - 1) PROVE k + 1 \in S
      <3>1. k + 1 \in i..Len(lines) /\ k + 1 \in 1..Len(lines) /\ (k + 1) - 1 = k
            /\ k + 1 \in 0..Len(lines) /\ k \in 0..Len(lines)
        BY <2>2
      <3>2. T[k + 1] = NextTime(f, lines[k + 1].ts, offset, T[k])
        BY <1>1, <3>1 DEF TimeChain
      <3>3. lines[k + 1].ts \in Nat
        BY <3>1, LineParts
      <3>4. T[i] \in Nat /\ T[k] \in Nat /\ T[i] <= T[k]
        BY <1>2, <3>1
      <3>5. T[k] <= T[k + 1] /\ T[k + 1] \in Nat
        <4> DEFINE ts == lines[k + 1].ts
                   prev == T[k]
        <4>1. ts \in Nat /\ prev \in Nat
          BY <3>3, <3>4
        <4> HIDE DEF ts, prev
        <4>2. NextTime(f, ts, offset, prev) \in Nat /\ prev <= NextTime(f, ts, offset, prev)
          BY <4>1, NextTimeGrows
        <4> QED BY <3>2, <4>2 DEF ts, prev
      <3> QED BY <3>1, <3>4, <3>5
    <2> HIDE DEF S
    <2> QED BY <1>3, <2>1, <2>2, RangeInduction
  <1> QED BY <1>1, <1>4

-----------------------------------------------------------------------------
(* std::lower_bound.                                                       *)

\* Where the search of below[1..n] may stand after k rounds: what is before it
\* is below, what is behind it is not.
Halved(below, n, k, p) ==
    /\ p \in Nat \X Nat
    /\ p[1] + p[2] <= n /\ p[2] <= n - k
    /\ \A i \in 1..p[1] : below[i]
    /\ \A i \in (p[1] + p[2] + 1)..n : ~below[i]

\* A round of the search, if the elements below the value come first.
LEMMA BisectHalves ==
    ASSUME NEW n \in Nat, NEW below \in [1..n -> BOOLEAN],
           \A i, j \in 1..n : i < j /\ below[j] => below[i],
           NEW k \in 0..(n - 1), NEW p, Halved(below, n, k, p)
    PROVE  Halved(below, n, k + 1, Bisect(below, p))
  <1> DEFINE half == p[2] \div 2
             mid == p[1] + half + 1
  <1>1. p \in Nat \X Nat /\ p[1] \in Nat /\ p[2] \in Nat /\ p[1] + p[2] <= n /\ p[2] <= n - k
    BY DEF Halved
  <1>2. /\ \A i \in 1..p[1] : below[i]
        /\ \A i \in (p[1] + p[2] + 1)..n : ~below[i]
    BY DEF Halved
  <1>3. CASE p[2] = 0
    <2>1. Bisect(below, p) = p
      BY <1>3 DEF Bisect
    <2>2. p[2] <= n - (k + 1)
      BY <1>3
    <2> QED BY <1>1, <1>2, <2>1, <2>2 DEF Halved
  <1>4. CASE p[2] # 0
    <2>1. half \in Nat /\ half < p[2] /\ mid \in 1..n /\ mid <= p[1] + p[2]
      <3>1. half \in Nat /\ half < p[2]
        BY <1>1, <1>4
      <3> HIDE DEF half
      <3> QED BY <1>1, <3>1
    <2>2. CASE below[mid]
      <3> DEFINE q == <<mid, p[2] - half - 1>>
      <3>1. Bisect(below, p) = q
        BY <1>4, <2>2 DEF Bisect
      <3> HIDE DEF half
      <3>2. q \in Nat \X Nat /\ q[1] + q[2] = p[1] + p[2] /\ q[2] <= n - (k + 1) /\ q[1] = mid
        BY <1>1, <2>1
      <3>3. ASSUME NEW i \in 1..mid PROVE below[i]
        <4>1. i \in 1..n /\ (i = mid \/ i < mid)
          BY <2>1
        <4> QED BY <2>1, <2>2, <4>1
      <3> HIDE DEF mid, q
      <3> QED BY <1>1, <1>2, <3>1, <3>2, <3>3 DEF Halved
    <2>3. CASE ~below[mid]
      <3> DEFINE q == <<p[1], half>>
      <3>1. Bisect(below, p) = q
        BY <1>4, <2>3 DEF Bisect
      <3> HIDE DEF half
      <3>2. q \in Nat \X Nat /\ q[1] = p[1] /\ q[2] = half /\ half <= n - (k + 1)
            /\ q[1] + q[2] <= n
        BY <1>1, <2>1
      <3>3. ASSUME NEW i \in (q[1] + q[2] + 1)..n PROVE ~below[i]
        <4>1. i \in 1..n /\ (i = mid \/ mid < i)
          BY <1>1, <2>1, <3>2
        <4> QED BY <2>1, <2>3, <4>1
      <3> HIDE DEF mid, q
      <3> QED BY <1>1, <1>2, <3>1, <3>2, <3>3 DEF Halved
    <2> QED BY <2>2, <2>3
  <1> QED BY <1>3, <1>4

\* std::lower_bound finds the end of the elements below the value, if these come
\* first.
LEMMA LowerBoundIs ==
    ASSUME NEW n \in Nat, NEW below \in [1..n -> BOOLEAN],
           \A i, j \in 1..n : i < j /\ below[j] => below[i]
    PROVE  /\ LowerBound(below) \in 0..n
           /\ \A i \in 1..n : below[i] <=> i <= LowerBound(below)
  <1> DEFINE at[k \in 0..n] == IF k = 0 THEN <<0, n>> ELSE Bisect(below, at[k - 1])
             body(g) == [k \in 0..n |-> IF k = 0 THEN <<0, n>> ELSE Bisect(below, g[k - 1])]
             V == { p \in Nat \X Nat : p[1] + p[2] <= n }
             F == [q \in V \X (1..n) |-> Bisect(below, q[1])]
  <1>1. Len(below) = n
    OBVIOUS
  <1>2. LowerBound(below) = at[n][1]
    BY <1>1 DEF LowerBound
  <1>3. PICK g : Loop(g, <<0, n>>, F, V, 0, n)
    <2>1. ASSUME NEW p \in V PROVE Bisect(below, p) \in V
      <3> DEFINE half == p[2] \div 2
      <3>1. p[1] \in Nat /\ p[2] \in Nat /\ p[1] + p[2] <= n
        OBVIOUS
      <3>2. CASE p[2] = 0
        BY <3>2 DEF Bisect
      <3>3. CASE p[2] # 0
        <4>1. half \in Nat /\ half < p[2]
          BY <3>1, <3>3
        <4>2. Bisect(below, p) \in {<<p[1] + half + 1, p[2] - half - 1>>, <<p[1], half>>}
          BY <3>3 DEF Bisect
        <4> HIDE DEF half
        <4> QED BY <3>1, <4>1, <4>2
      <3> QED BY <3>2, <3>3
    <2>2. Rounds(F, V, 0, n)
      <3> SUFFICES ASSUME NEW p \in V, NEW i \in (0 + 1)..n PROVE F[<<p, i>>] \in V
        BY DEF Rounds
      <3>1. <<p, i>> \in V \X (1..n)
        OBVIOUS
      <3> HIDE DEF V
      <3>2. F[<<p, i>>] = Bisect(below, p)
        BY <3>1
      <3> QED BY <2>1, <3>2
    <2>3. <<0, n>> \in V /\ 0 \in Nat /\ 0 <= n
      OBVIOUS
    <2> HIDE DEF F, V
    <2> QED BY <2>2, <2>3, Iterates
  <1>4. \E h : h = body(h)
    <2>1. ASSUME NEW k \in 0..n PROVE g[k] = body(g)[k]
      <3>1. CASE k = 0
        BY <1>3, <3>1 DEF Loop
      <3>2. CASE k # 0
        <4>1. k \in (0 + 1)..n /\ k \in 1..n /\ k - 1 \in 0..n
          BY <3>2
        <4> HIDE DEF V
        <4>2. <<g[k - 1], k>> \in V \X (1..n) /\ g[k] = F[<<g[k - 1], k>>]
          BY <1>3, <4>1 DEF Loop
        <4> QED BY <3>2, <4>2
      <3> QED BY <3>1, <3>2
    <2> HIDE DEF V, F
    <2>2. g \in [0..n -> V]
      BY <1>3 DEF Loop
    <2> QED BY <2>1, <2>2
  <1>5. at = body(at)
    BY <1>4
  <1> HIDE DEF at, V, F
  <1>6. at[0] = <<0, n>> /\ \A k \in 1..n : at[k] = Bisect(below, at[k - 1])
    <2>1. \A k \in 0..n : at[k] = IF k = 0 THEN <<0, n>> ELSE Bisect(below, at[k - 1])
      BY <1>5
    <2>2. 0 \in 0..n /\ \A k \in 1..n : k \in 0..n /\ k # 0
      OBVIOUS
    <2> HIDE DEF body
    <2>3. ASSUME NEW k \in 1..n PROVE at[k] = Bisect(below, at[k - 1])
      BY <2>1, <2>2
    <2> QED BY <2>1, <2>2, <2>3
  <1> DEFINE S == { k \in 0..n : Halved(below, n, k, at[k]) }
  <1>7. \A k \in 0..n : k \in S
    <2>1. 0 \in S
      <3> DEFINE p == <<0, n>>
      <3>1. p \in Nat \X Nat /\ p[1] = 0 /\ p[2] = n
        OBVIOUS
      <3> HIDE DEF p
      <3>2. Halved(below, n, 0, p)
        BY <3>1 DEF Halved
      <3>3. at[0] = p
        BY <1>6 DEF p
      <3>4. 0 \in 0..n
        OBVIOUS
      <3> QED BY <3>2, <3>3, <3>4
    <2>2. ASSUME NEW k \in S, k \in 0..(n - 1) PROVE k + 1 \in S
      <3>1. k + 1 \in 0..n /\ k + 1 \in 1..n /\ (k + 1) - 1 = k
        BY <2>2
      <3>2. at[k + 1] = Bisect(below, at[k])
        BY <1>6, <3>1
      <3>3. Halved(below, n, k, at[k])
        OBVIOUS
      <3>4. Halved(below, n, k + 1, Bisect(below, at[k]))
        BY <2>2, <3>3, BisectHalves
      <3> QED BY <3>1, <3>2, <3>4
    <2>3. 0 \in Nat
      OBVIOUS
    <2> HIDE DEF S
    <2> QED BY <2>1, <2>2, <2>3, RangeInduction
  <1>8. Halved(below, n, n, at[n])
    BY <1>7
  <1> DEFINE lo == at[n][1]
  <1>9. lo \in 0..n /\ (\A i \in 1..lo : below[i]) /\ (\A i \in (lo + 1)..n : ~below[i])
    <2>1. lo \in Nat /\ at[n][2] \in Nat /\ at[n][2] <= n - n /\ lo + at[n][2] <= n
      BY <1>8 DEF Halved
    <2>2. at[n][2] = 0
      BY <2>1
    <2> QED BY <1>8, <2>1, <2>2 DEF Halved
  <1> HIDE DEF lo
  <1>10. \A i \in 1..n : below[i] <=> i <= lo
    BY <1>9
  <1> QED BY <1>2, <1>9, <1>10 DEF lo

-----------------------------------------------------------------------------
(* The sum of the sizes of the files.                                      *)

\* TotalLines is a number.
LEMMA TotalType ==
    ASSUME disk \in [Files -> Seq(Line)], NEW slots \in Seq(Slot)
    PROVE  TotalLines(slots) \in Nat
  <1> DEFINE n == Len(slots)
             size(i) == IF slots[i].file = NoFile THEN 0 ELSE Len(disk[slots[i].file])
             sum[i \in 0..n] == IF i = 0 THEN 0 ELSE sum[i - 1] + size(i)
             body(g) == [i \in 0..n |-> IF i = 0 THEN 0 ELSE g[i - 1] + size(i)]
             F == [p \in Nat \X (1..n) |-> p[1] + size(p[2])]
  <1>1. n \in Nat /\ \A i \in 1..n : size(i) \in Nat
    BY DEF Slot
  <1>2. TotalLines(slots) = sum[n]
    BY DEF TotalLines
  <1> HIDE DEF n, size
  <1>3. PICK g : Loop(g, 0, F, Nat, 0, n)
    <2>1. Rounds(F, Nat, 0, n)
      BY <1>1 DEF Rounds
    <2>2. 0 \in Nat /\ 0 <= n
      BY <1>1
    <2> HIDE DEF F
    <2> QED BY <1>1, <2>1, <2>2, Iterates
  <1>4. \E h : h = body(h)
    <2>1. ASSUME NEW i \in 0..n PROVE g[i] = body(g)[i]
      <3>1. CASE i = 0
        BY <1>3, <3>1 DEF Loop
      <3>2. CASE i # 0
        <4>1. i \in (0 + 1)..n /\ i \in 1..n /\ i - 1 \in 0..n
          BY <1>1, <3>2
        <4>2. <<g[i - 1], i>> \in Nat \X (1..n) /\ g[i] = F[<<g[i - 1], i>>]
          BY <1>3, <4>1 DEF Loop
        <4> QED BY <3>2, <4>2
      <3> QED BY <3>1, <3>2
    <2> HIDE DEF F
    <2>2. g \in [0..n -> Nat]
      BY <1>3 DEF Loop
    <2> QED BY <2>1, <2>2
  <1>5. sum = body(sum)
    BY <1>4
  <1> HIDE DEF sum, F
  <1>6. sum[0] = 0 /\ \A i \in 1..n : sum[i] = sum[i - 1] + size(i)
    <2>1. \A i \in 0..n : sum[i] = body(sum)[i]
      BY <1>5
    <2> QED BY <1>1, <2>1
  <1> DEFINE S == { i \in 0..n : sum[i] \in Nat }
  <1>7. \A i \in 0..n : i \in S
    <2>1. 0 \in S
      BY <1>1, <1>6
    <2>2. ASSUME NEW i \in S, i \in 0..(n - 1) PROVE i + 1 \in S
      <3>1. i + 1 \in 0..n /\ i + 1 \in 1..n /\ (i + 1) - 1 = i
        BY <1>1, <2>2
      <3>2. sum[i + 1] = sum[i] + size(i + 1) /\ size(i + 1) \in Nat
        BY <1>1, <1>6, <3>1
      <3> QED BY <3>1, <3>2
    <2>3. 0 \in Nat
      OBVIOUS
    <2> HIDE DEF S
    <2> QED BY <1>1, <2>1, <2>2, <2>3, RangeInduction
  <1> QED BY <1>1, <1>2, <1>7

-----------------------------------------------------------------------------
(* The rows that are shown.                                                *)

\* g holds the rows picked of k+1..n, after each of them, where sh says which
\* are shown.
PickChain(g, sh, k, n) ==
    /\ g \in [k..n -> Seq(Nat)]
    /\ g[k] = << >>
    /\ \A i \in (k + 1)..n : g[i] = IF sh[i] THEN Append(g[i - 1], i) ELSE g[i - 1]

\* Which rows of an index are shown.
ShownRows(slots, lfs, min, index) ==
    [i \in 1..Len(index) |-> Shown(slots, lfs, min, index[i])]

\* Filtered is the end of such a chain.
FilterChain(g, slots, lfs, min, index, k) ==
    /\ PickChain(g, ShownRows(slots, lfs, min, index), k, Len(index))
    /\ Filtered(slots, lfs, min, index, k) = g[Len(index)]

\* There is one for every index.
LEMMA FilteredChain ==
    ASSUME NEW slots, NEW lfs, NEW min, NEW index, Len(index) \in Nat,
           NEW k \in 0..Len(index)
    PROVE  \E g : FilterChain(g, slots, lfs, min, index, k)
  <1> DEFINE n == Len(index)
             sh == ShownRows(slots, lfs, min, index)
             shown(i) == Shown(slots, lfs, min, index[i])
             pick[i \in k..n] ==
               IF i = k THEN << >>
               ELSE IF shown(i) THEN Append(pick[i - 1], i) ELSE pick[i - 1]
             body(g) == [i \in k..n |->
               IF i = k THEN << >>
               ELSE IF shown(i) THEN Append(g[i - 1], i) ELSE g[i - 1]]
             F == [p \in Seq(Nat) \X ((k + 1)..n) |->
                      IF shown(p[2]) THEN Append(p[1], p[2]) ELSE p[1]]
  <1>1. n \in Nat /\ k \in Nat /\ k <= n
    OBVIOUS
  <1>2. Filtered(slots, lfs, min, index, k) = pick[n]
    BY DEF Filtered
  <1>a. \A i \in 1..n : sh[i] = shown(i)
    BY DEF ShownRows
  <1> HIDE DEF n, shown
  <1>3. PICK g : Loop(g, << >>, F, Seq(Nat), k, n)
    <2>1. Rounds(F, Seq(Nat), k, n)
      <3> SUFFICES ASSUME NEW v \in Seq(Nat), NEW i \in (k + 1)..n
                   PROVE  F[<<v, i>>] \in Seq(Nat)
        BY DEF Rounds
      <3>1. i \in Nat /\ Append(v, i) \in Seq(Nat)
        BY <1>1
      <3>2. F[<<v, i>>] = IF shown(i) THEN Append(v, i) ELSE v
        OBVIOUS
      <3> HIDE DEF F
      <3> QED BY <3>1, <3>2
    <2>2. << >> \in Seq(Nat)
      OBVIOUS
    <2> HIDE DEF F
    <2> QED BY <1>1, <2>1, <2>2, Iterates
  <1>4. \E h : h = body(h)
    <2>1. ASSUME NEW i \in k..n PROVE g[i] = body(g)[i]
      <3>1. CASE i = k
        BY <1>3, <3>1 DEF Loop
      <3>2. CASE i # k
        <4>1. i \in (k + 1)..n /\ i - 1 \in k..n
          BY <1>1, <3>2
        <4>2. <<g[i - 1], i>> \in Seq(Nat) \X ((k + 1)..n) /\ g[i] = F[<<g[i - 1], i>>]
          BY <1>3, <4>1 DEF Loop
        <4> QED BY <3>2, <4>2
      <3> QED BY <3>1, <3>2
    <2> HIDE DEF F
    <2>2. g \in [k..n -> Seq(Nat)]
      BY <1>3 DEF Loop
    <2> QED BY <2>1, <2>2
  <1>5. pick = body(pick)
    BY <1>4
  <1> HIDE DEF pick, F
  <1>6. pick[k] = << >> /\ \A i \in (k + 1)..n :
                              pick[i] = IF shown(i) THEN Append(pick[i - 1], i) ELSE pick[i - 1]
    <2>1. \A i \in k..n : pick[i] = body(pick)[i]
      BY <1>5
    <2> QED BY <1>1, <2>1
  <1> DEFINE S == { i \in k..n : pick[i] \in Seq(Nat) }
  <1>7. \A i \in k..n : i \in S
    <2>1. k \in S
      <3>1. << >> \in Seq(Nat) /\ k \in k..n
        BY <1>1
      <3> QED BY <1>6, <3>1
    <2>2. ASSUME NEW i \in S, i \in k..(n - 1) PROVE i + 1 \in S
      <3>1. i + 1 \in k..n /\ i + 1 \in (k + 1)..n /\ (i + 1) - 1 = i /\ i + 1 \in Nat
        BY <1>1, <2>2
      <3>2. pick[i + 1] \in {Append(pick[i], i + 1), pick[i]}
        BY <1>6, <3>1
      <3>3. pick[i] \in Seq(Nat)
        OBVIOUS
      <3>4. Append(pick[i], i + 1) \in Seq(Nat)
        BY <3>1, <3>3
      <3> QED BY <3>1, <3>2, <3>3, <3>4
    <2> HIDE DEF S
    <2> QED BY <1>1, <2>1, <2>2, RangeInduction
  <1>8. pick \in [k..n -> Seq(Nat)]
    BY <1>5, <1>7
  <1>9. \A i \in (k + 1)..n : sh[i] = shown(i)
    BY <1>1, <1>a
  <1> HIDE DEF sh
  <1>10. PickChain(pick, sh, k, n)
    BY <1>6, <1>8, <1>9 DEF PickChain
  <1> QED BY <1>2, <1>10 DEF n, sh, FilterChain

\* Only rows that were looked at are picked.
LEMMA PickRange ==
    ASSUME NEW k \in Nat, NEW n \in Nat, k <= n, NEW sh, NEW g, PickChain(g, sh, k, n)
    PROVE  \A i \in k..n : g[i] \in Seq((k + 1)..i)
  <1> DEFINE S == { i \in k..n : g[i] \in Seq((k + 1)..i) }
  <1>1. k \in S
    BY DEF PickChain
  <1>2. ASSUME NEW i \in S, i \in k..(n - 1) PROVE i + 1 \in S
    <2>1. i + 1 \in (k + 1)..n /\ (i + 1) - 1 = i /\ i + 1 \in k..n
      BY <1>2
    <2>2. g[i + 1] = IF sh[i + 1] THEN Append(g[i], i + 1) ELSE g[i]
      BY <2>1 DEF PickChain
    <2> DEFINE R == (k + 1)..(i + 1)
    <2>3. (k + 1)..i \subseteq R /\ i + 1 \in R
      BY <1>2
    <2>4. g[i] \in Seq((k + 1)..i)
      OBVIOUS
    <2> HIDE DEF R
    <2>5. g[i] \in Seq(R)
      BY <2>3, <2>4, SeqMonotonic
    <2>6. Append(g[i], i + 1) \in Seq(R)
      BY <2>3, <2>5
    <2>7. g[i + 1] \in Seq(R)
      BY <2>2, <2>5, <2>6
    <2> QED BY <2>1, <2>7 DEF R
  <1> HIDE DEF S
  <1>3. \A i \in k..n : i \in S
    BY <1>1, <1>2, RangeInduction
  <1> QED BY <1>3 DEF S

\* The rows picked depend on those looked at only.
LEMMA PickSame ==
    ASSUME NEW k \in Nat, NEW n \in Nat, NEW m \in Nat, NEW e \in Nat, k <= e, e <= n, e <= m,
           NEW sh, NEW g, PickChain(g, sh, k, n), NEW th, NEW h, PickChain(h, th, k, m),
           \A i \in (k + 1)..e : sh[i] <=> th[i]
    PROVE  g[e] = h[e]
  <1> DEFINE S == { i \in k..e : g[i] = h[i] }
  <1>1. k \in S
    BY DEF PickChain
  <1>2. ASSUME NEW i \in S, i \in k..(e - 1) PROVE i + 1 \in S
    <2>1. i + 1 \in (k + 1)..n /\ i + 1 \in (k + 1)..m /\ (i + 1) - 1 = i /\ i + 1 \in k..e
          /\ i + 1 \in (k + 1)..e
      BY <1>2
    <2>2. g[i + 1] = IF sh[i + 1] THEN Append(g[i], i + 1) ELSE g[i]
      BY <2>1 DEF PickChain
    <2>3. h[i + 1] = IF th[i + 1] THEN Append(h[i], i + 1) ELSE h[i]
      BY <2>1 DEF PickChain
    <2>4. g[i] = h[i] /\ (sh[i + 1] <=> th[i + 1])
      BY <2>1
    <2>5. g[i + 1] = h[i + 1]
      BY <2>2, <2>3, <2>4
    <2> QED BY <2>1, <2>5
  <1> HIDE DEF S
  <1>3. \A i \in k..e : i \in S
    BY <1>1, <1>2, RangeInduction
  <1> QED BY <1>3 DEF S

\* Appending to the second of two sequences.
LEMMA AppendConcat ==
    ASSUME NEW p \in Seq(Nat), NEW q \in Seq(Nat), NEW x \in Nat
    PROVE  Append(p \o q, x) = p \o Append(q, x)
  <1>1. p \o q \in Seq(Nat) /\ <<x>> \in Seq(Nat)
    BY ConcatProperties
  <1>2. Append(p \o q, x) = (p \o q) \o <<x>> /\ Append(q, x) = q \o <<x>>
    BY <1>1, AppendIsConcat
  <1>3. (p \o q) \o <<x>> = p \o (q \o <<x>>)
    BY <1>1, ConcatAssociative
  <1> QED BY <1>2, <1>3

\* A sequence is two others in a row.
Joins(s, p, q) == s = p \o q

\* Picking can be split at any row.
LEMMA PickSplit ==
    ASSUME NEW k \in Nat, NEW n \in Nat, k <= n, NEW sh, NEW g, PickChain(g, sh, 0, n),
           NEW h, PickChain(h, sh, k, n)
    PROVE  Joins(g[n], g[k], h[n])
  <1> DEFINE S == { i \in k..n : g[i] = g[k] \o h[i] }
  <1>0. \A i \in 0..n : g[i] \in Seq(Nat)
    BY DEF PickChain
  <1>1. k \in S
    <2>1. g[k] \in Seq(Nat) /\ h[k] = << >>
      BY <1>0 DEF PickChain
    <2>2. g[k] \o h[k] = g[k]
      BY <2>1, ConcatEmptySeq
    <2>3. k \in k..n
      OBVIOUS
    <2> QED BY <2>2, <2>3
  <1>2. ASSUME NEW i \in S, i \in k..(n - 1) PROVE i + 1 \in S
    <2>1. i + 1 \in (k + 1)..n /\ i + 1 \in (0 + 1)..n /\ (i + 1) - 1 = i /\ i + 1 \in k..n
          /\ i + 1 \in Nat /\ i \in k..n /\ k \in 0..n
      BY <1>2
    <2>2. g[i + 1] = IF sh[i + 1] THEN Append(g[i], i + 1) ELSE g[i]
      BY <2>1 DEF PickChain
    <2>3. h[i + 1] = IF sh[i + 1] THEN Append(h[i], i + 1) ELSE h[i]
      BY <2>1 DEF PickChain
    <2>4. g[i] = g[k] \o h[i]
      OBVIOUS
    <2>5. h[i] \in Seq(Nat) /\ g[k] \in Seq(Nat)
      BY <1>0, <2>1 DEF PickChain
    <2>6. Append(g[k] \o h[i], i + 1) = g[k] \o Append(h[i], i + 1)
      BY <2>1, <2>5, AppendConcat
    <2>7. g[i + 1] = g[k] \o h[i + 1]
      BY <2>2, <2>3, <2>4, <2>6
    <2> QED BY <2>1, <2>7
  <1> HIDE DEF S
  <1>3. \A i \in k..n : i \in S
    BY <1>1, <1>2, RangeInduction
  <1>4. n \in S
    BY <1>3
  <1> QED BY <1>4 DEF S, Joins

\* The rows shown are rows.
LEMMA FilteredType ==
    ASSUME NEW slots, NEW lfs, NEW min, NEW index, Len(index) \in Nat,
           NEW k \in 0..Len(index)
    PROVE  Filtered(slots, lfs, min, index, k) \in Seq((k + 1)..Len(index))
  <1>4. PICK g : FilterChain(g, slots, lfs, min, index, k)
    BY FilteredChain
  <1>1. /\ PickChain(g, ShownRows(slots, lfs, min, index), k, Len(index))
        /\ Filtered(slots, lfs, min, index, k) = g[Len(index)]
    BY <1>4 DEF FilterChain
  <1>2. k \in Nat /\ k <= Len(index) /\ Len(index) \in k..Len(index)
    OBVIOUS
  <1>3. \A i \in k..Len(index) : g[i] \in Seq((k + 1)..i)
    BY <1>1, <1>2, PickRange
  <1> QED BY <1>1, <1>2, <1>3

\* Of an empty index, or of none of its rows, nothing is shown.
LEMMA FilteredEmpty ==
    ASSUME NEW slots, NEW lfs, NEW min, NEW index, Len(index) \in Nat
    PROVE  Filtered(slots, lfs, min, index, Len(index)) = << >>
  <1>1. Len(index) \in 0..Len(index)
    OBVIOUS
  <1>2. PICK g : FilterChain(g, slots, lfs, min, index, Len(index))
    BY <1>1, FilteredChain
  <1> QED BY <1>2 DEF PickChain, FilterChain

\* The rows of old are shown as those at the beginning of index are, each with
\* its slots and logfiles.
ShownAlike(slots, lfs, slots2, lfs2, min, old, index) ==
    \A i \in 1..Len(old) :
        Shown(slots, lfs, min, old[i]) <=> Shown(slots2, lfs2, min, index[i])

\* What is shown of an index that begins as another does, but for the slots and
\* logfiles, is what is shown of that and then of the rows behind it.
LEMMA FilteredGrows ==
    ASSUME NEW slots, NEW lfs, NEW old, Len(old) \in Nat,
           NEW slots2, NEW lfs2, NEW index, Len(index) \in Nat, Len(old) <= Len(index),
           NEW min, ShownAlike(slots, lfs, slots2, lfs2, min, old, index)
    PROVE  Joins(Filtered(slots2, lfs2, min, index, 0),
                 Filtered(slots, lfs, min, old, 0),
                 Filtered(slots2, lfs2, min, index, Len(old)))
  <1> DEFINE k == Len(old)
             n == Len(index)
             sh == ShownRows(slots2, lfs2, min, index)
             th == ShownRows(slots, lfs, min, old)
  <1>1. 0 \in Nat /\ 0 \in 0..n /\ 0 \in 0..k /\ k \in 0..n /\ k \in Nat /\ n \in Nat /\ k <= n
        /\ 0 <= k /\ k <= k
    OBVIOUS
  <1>8. /\ \E g : FilterChain(g, slots2, lfs2, min, index, 0)
        /\ \E h : FilterChain(h, slots2, lfs2, min, index, k)
        /\ \E o : FilterChain(o, slots, lfs, min, old, 0)
    BY <1>1, FilteredChain
  <1>2. PICK g : PickChain(g, sh, 0, n) /\ Filtered(slots2, lfs2, min, index, 0) = g[n]
    BY <1>8 DEF FilterChain
  <1>3. PICK h : PickChain(h, sh, k, n) /\ Filtered(slots2, lfs2, min, index, k) = h[n]
    BY <1>8 DEF FilterChain
  <1>4. PICK o : PickChain(o, th, 0, k) /\ Filtered(slots, lfs, min, old, 0) = o[k]
    BY <1>8 DEF FilterChain
  <1>5. \A i \in (0 + 1)..k : sh[i] <=> th[i]
    BY <1>1 DEF ShownRows, ShownAlike
  <1> HIDE DEF k, n, sh, th
  <1>6. Joins(g[n], g[k], h[n])
    BY <1>1, <1>2, <1>3, PickSplit
  <1>7. g[k] = o[k]
    BY <1>1, <1>2, <1>4, <1>5, PickSame
  <1> QED BY <1>2, <1>3, <1>4, <1>6, <1>7 DEF k

\* In particular nothing changes if the index does not.
LEMMA FilteredSame ==
    ASSUME NEW slots, NEW lfs, NEW slots2, NEW lfs2, NEW index, Len(index) \in Nat, NEW min,
           ShownAlike(slots, lfs, slots2, lfs2, min, index, index)
    PROVE  Filtered(slots2, lfs2, min, index, 0) = Filtered(slots, lfs, min, index, 0)
  <1>1. Joins(Filtered(slots2, lfs2, min, index, 0),
              Filtered(slots, lfs, min, index, 0),
              Filtered(slots2, lfs2, min, index, Len(index)))
    <2>1. Len(index) <= Len(index)
      OBVIOUS
    <2> QED BY <2>1, FilteredGrows
  <1>2. Filtered(slots2, lfs2, min, index, Len(index)) = << >>
    BY FilteredEmpty
  <1>3. Filtered(slots, lfs, min, index, 0) \in Seq((0 + 1)..Len(index))
    BY FilteredType
  <1> QED BY <1>1, <1>2, <1>3, ConcatEmptySeq DEF Joins

-----------------------------------------------------------------------------
(* Sorting.                                                                *)

\* n of the rows are in order in q, and none of the others is older.
Placed(q, slots, lfs, rows, n) ==
    /\ q \in Seq(rows) /\ Len(q) = n
    /\ \A i, j \in 1..n : q[i] = q[j] => i = j
    /\ \A i, j \in 1..n : i < j => RowTime(slots, lfs, q[i]) <= RowTime(slots, lfs, q[j])
    /\ \A i \in 1..n : \A r \in rows \ Range(q) :
          RowTime(slots, lfs, q[i]) <= RowTime(slots, lfs, r)

\* A row that may come next is placed behind those in order.
LEMMA PlaceNext ==
    ASSUME NEW slots, NEW lfs, NEW rows, \A r \in rows : RowTime(slots, lfs, r) \in Nat,
           NEW n \in Nat, NEW q, Placed(q, slots, lfs, rows, n),
           NEW r \in First(slots, lfs, rows \ Range(q))
    PROVE  Placed(Append(q, r), slots, lfs, rows, n + 1)
  <1> DEFINE t(x) == RowTime(slots, lfs, x)
             a == Append(q, r)
  <1>1. /\ q \in Seq(rows) /\ Len(q) = n /\ Range(q) = { q[i] : i \in 1..n }
        /\ \A i \in 1..n : q[i] \in rows
    BY DEF Placed, Range
  <1>2. r \in rows /\ r \notin Range(q) /\ \A x \in rows \ Range(q) : t(r) <= t(x)
    <2>1. r \in rows \ Range(q)
      BY DEF First
    <2>2. \A x \in rows \ Range(q) : t(r) < t(x) \/ t(r) = t(x)
      BY DEF First
    <2>3. \A x \in rows : t(x) \in Nat
      OBVIOUS
    <2> HIDE DEF t
    <2> QED BY <2>1, <2>2, <2>3
  <1>3. /\ a \in Seq(rows) /\ Len(a) = n + 1 /\ a[n + 1] = r
        /\ \A i \in 1..n : a[i] = q[i]
    BY <1>1, <1>2, AppendProperties
  <1>4. Range(a) = Range(q) \cup {r}
    <2>1. DOMAIN a = 1..(n + 1) /\ 1..(n + 1) = 1..n \cup {n + 1}
      BY <1>3
    <2> HIDE DEF a
    <2>2. Range(a) = { a[i] : i \in 1..(n + 1) }
      BY <2>1 DEF Range
    <2> QED BY <1>1, <1>3, <2>1, <2>2
  <1> HIDE DEF a
  <1>5. \A i \in 1..(n + 1) : i \in 1..n \/ i = n + 1
    OBVIOUS
  <1>6. \A i, j \in 1..(n + 1) : a[i] = a[j] => i = j
    <2>1. \A i \in 1..n : a[i] # r
      BY <1>1, <1>2, <1>3
    <2>2. \A i, j \in 1..n : a[i] = a[j] => i = j
      BY <1>3 DEF Placed
    <2> QED BY <1>3, <1>5, <2>1, <2>2
  <1>7. \A i \in 1..n : t(a[i]) <= t(r)
    BY <1>2, <1>3 DEF Placed
  <1>8. ASSUME NEW i \in 1..(n + 1), NEW j \in 1..(n + 1), i < j PROVE t(a[i]) <= t(a[j])
    <2>1. i \in 1..n
      BY <1>8
    <2>2. CASE j = n + 1
      BY <1>3, <1>7, <2>1, <2>2
    <2>3. CASE j \in 1..n
      <3>1. t(q[i]) <= t(q[j])
        BY <1>8, <2>1, <2>3 DEF Placed
      <3> QED BY <1>3, <2>1, <2>3, <3>1
    <2> QED BY <1>5, <2>2, <2>3
  <1>9. ASSUME NEW i \in 1..(n + 1), NEW x \in rows \ Range(a) PROVE t(a[i]) <= t(x)
    <2>1. x \in rows \ Range(q)
      BY <1>4
    <2>2. CASE i = n + 1
      BY <1>2, <1>3, <2>1, <2>2
    <2>3. CASE i \in 1..n
      <3>1. t(q[i]) <= t(x)
        BY <2>1, <2>3 DEF Placed
      <3> QED BY <1>3, <2>3, <3>1
    <2> QED BY <1>5, <2>2, <2>3
  <1> HIDE DEF t
  <1>10. Placed(a, slots, lfs, rows, n + 1)
    BY <1>3, <1>6, <1>8, <1>9 DEF Placed, t
  <1> QED BY <1>10 DEF a

\* A sequence of all rows, each once, in time order.
Sorted(q, slots, lfs, rows) ==
    /\ q \in Seq(rows)
    /\ \A r \in rows : \E i \in 1..Len(q) : q[i] = r
    /\ \A i, j \in 1..Len(q) : q[i] = q[j] => i = j
    /\ \A i, j \in 1..Len(q) : i < j => RowTime(slots, lfs, q[i]) <= RowTime(slots, lfs, q[j])

\* All rows are placed when there are as many as rows.
LEMMA AllPlaced ==
    ASSUME NEW slots, NEW lfs, NEW rows, IsFiniteSet(rows), NEW q,
           Placed(q, slots, lfs, rows, Cardinality(rows))
    PROVE  Sorted(q, slots, lfs, rows)
  <1> DEFINE c == Cardinality(rows)
  <1>1. c \in Nat
    BY FS_CardinalityType
  <1>2. IsFiniteSet(1..c) /\ Cardinality(1..c) = c
    <2>1. 1 \in Int /\ c \in Int /\ (IF 1 > c THEN 0 ELSE c - 1 + 1) = c
      BY <1>1
    <2> QED BY <2>1, FS_Interval
  <1>3. q \in [1..c -> rows] /\ Len(q) = c /\ \A i, j \in 1..c : q[i] = q[j] => i = j
    BY <1>1 DEF Placed
  <1>4. q \in Injection(1..c, rows)
    BY <1>3 DEF Injection, IsInjective
  <1>5. q \in Surjection(1..c, rows)
    BY <1>2, <1>4, FS_Injection
  <1>6. \A r \in rows : \E i \in 1..c : q[i] = r
    BY <1>5 DEF Surjection
  <1> QED BY <1>3, <1>6 DEF Placed, Sorted

\* A full sort and the k-way merge put the rows in time order.
LEMMA CollatedSorted ==
    ASSUME NEW slots, NEW lfs, NEW rows, IsFiniteSet(rows),
           \A r \in rows : RowTime(slots, lfs, r) \in Nat,
           NEW new \in Collated(slots, lfs, rows)
    PROVE  Sorted(new, slots, lfs, rows)
  <1> DEFINE c == Cardinality(rows)
             next(Q) == UNION { { Append(q, r) : r \in First(slots, lfs, rows \ Range(q)) } :
                                  q \in Q }
             orders[n \in 0..c] == IF n = 0 THEN { << >> } ELSE next(orders[n - 1])
             body(g) == [n \in 0..c |-> IF n = 0 THEN { << >> } ELSE next(g[n - 1])]
             V == SUBSET Seq(rows)
             F == [p \in V \X (1..c) |-> next(p[1])]
  <1>1. c \in Nat
    BY FS_CardinalityType
  <1>2. Collated(slots, lfs, rows) = orders[c]
    BY DEF Collated
  <1>4. ASSUME NEW Q, NEW x \in next(Q)
        PROVE  \E q \in Q : \E r \in First(slots, lfs, rows \ Range(q)) : x = Append(q, r)
    OBVIOUS
  <1> HIDE DEF next, c
  <1>3. ASSUME NEW Q \in V PROVE next(Q) \in V
    <2> SUFFICES ASSUME NEW x \in next(Q) PROVE x \in Seq(rows)
      OBVIOUS
    <2>1. PICK q \in Q : \E r \in First(slots, lfs, rows \ Range(q)) : x = Append(q, r)
      BY <1>4
    <2>2. PICK r \in First(slots, lfs, rows \ Range(q)) : x = Append(q, r)
      BY <2>1
    <2>3. r \in rows /\ q \in Seq(rows)
      BY DEF First
    <2> QED BY <2>2, <2>3
  <1>5. PICK g : Loop(g, { << >> }, F, V, 0, c)
    <2>1. Rounds(F, V, 0, c)
      <3> SUFFICES ASSUME NEW Q \in V, NEW i \in (0 + 1)..c PROVE F[<<Q, i>>] \in V
        BY DEF Rounds
      <3> HIDE DEF V
      <3>1. <<Q, i>> \in V \X (1..c)
        BY <1>1
      <3>2. F[<<Q, i>>] = next(Q)
        BY <3>1
      <3> QED BY <1>3, <3>2
    <2>2. { << >> } \in V /\ 0 \in Nat /\ 0 <= c
      BY <1>1
    <2> HIDE DEF F, V
    <2> QED BY <1>1, <2>1, <2>2, Iterates
  <1> HIDE DEF V
  <1>6. \E h : h = body(h)
    <2>1. ASSUME NEW i \in 0..c PROVE g[i] = body(g)[i]
      <3>1. CASE i = 0
        BY <1>5, <3>1 DEF Loop
      <3>2. CASE i # 0
        <4>1. i \in (0 + 1)..c /\ i \in 1..c /\ i - 1 \in 0..c
          BY <1>1, <3>2
        <4>2. <<g[i - 1], i>> \in V \X (1..c) /\ g[i] = F[<<g[i - 1], i>>]
          BY <1>5, <4>1 DEF Loop
        <4> QED BY <3>2, <4>2
      <3> QED BY <3>1, <3>2
    <2> HIDE DEF F
    <2>2. g \in [0..c -> V]
      BY <1>5 DEF Loop
    <2> QED BY <2>1, <2>2
  <1>7. orders = body(orders)
    BY <1>6
  <1> HIDE DEF orders, F
  <1>8. orders[0] = { << >> } /\ \A i \in 1..c : orders[i] = next(orders[i - 1])
    <2>1. \A i \in 0..c : orders[i] = body(orders)[i]
      BY <1>7
    <2> QED BY <1>1, <2>1
  <1> DEFINE S == { n \in 0..c : \A q \in orders[n] : Placed(q, slots, lfs, rows, n) }
  <1>9. \A n \in 0..c : n \in S
    <2>1. 0 \in S
      <3>1. Placed(<< >>, slots, lfs, rows, 0)
        BY DEF Placed
      <3> QED BY <1>1, <1>8, <3>1
    <2>2. ASSUME NEW n \in S, n \in 0..(c - 1) PROVE n + 1 \in S
      <3>1. n + 1 \in 0..c /\ n + 1 \in 1..c /\ (n + 1) - 1 = n /\ n \in Nat
        BY <1>1, <2>2
      <3>2. orders[n + 1] = next(orders[n])
        BY <1>8, <3>1
      <3>3. ASSUME NEW x \in orders[n + 1] PROVE Placed(x, slots, lfs, rows, n + 1)
        <4>5. x \in next(orders[n])
          BY <3>2
        <4>4. PICK q \in orders[n] :
                 \E r \in First(slots, lfs, rows \ Range(q)) : x = Append(q, r)
          BY <1>4, <4>5
        <4>1. PICK r \in First(slots, lfs, rows \ Range(q)) : x = Append(q, r)
          BY <4>4
        <4>2. Placed(q, slots, lfs, rows, n)
          BY <4>1
        <4>3. Placed(Append(q, r), slots, lfs, rows, n + 1)
          BY <3>1, <4>1, <4>2, PlaceNext
        <4> QED BY <4>1, <4>3
      <3> QED BY <3>1, <3>3
    <2>3. 0 \in Nat
      OBVIOUS
    <2> HIDE DEF S
    <2> QED BY <1>1, <2>1, <2>2, <2>3, RangeInduction
  <1>10. Placed(new, slots, lfs, rows, c)
    BY <1>1, <1>2, <1>9
  <1> QED BY <1>10, AllPlaced DEF c

\* Rows in order, and behind them others in order that are not older.
LEMMA SortedJoin ==
    ASSUME NEW slots, NEW lfs, NEW K, NEW A, K \cap A = {},
           NEW kept, Sorted(kept, slots, lfs, K), NEW new, Sorted(new, slots, lfs, A),
           \A a \in K, b \in A : RowTime(slots, lfs, a) <= RowTime(slots, lfs, b)
    PROVE  Sorted(kept \o new, slots, lfs, K \cup A)
  <1> DEFINE t(x) == RowTime(slots, lfs, x)
             R == K \cup A
             q == kept \o new
             m == Len(kept)
             n == Len(new)
  <1>1. kept \in Seq(K) /\ new \in Seq(A) /\ m \in Nat /\ n \in Nat
    BY DEF Sorted
  <1>2. kept \in Seq(R) /\ new \in Seq(R)
    <2>1. K \subseteq R /\ A \subseteq R
      OBVIOUS
    <2> HIDE DEF R
    <2> QED BY <1>1, <2>1, SeqMonotonic
  <1>3. /\ q \in Seq(R) /\ Len(q) = m + n
        /\ \A i \in 1..(m + n) : q[i] = IF i <= m THEN kept[i] ELSE new[i - m]
    <2> HIDE DEF R
    <2> QED BY <1>2, ConcatProperties
  <1> HIDE DEF q
  <1>4. /\ \A i \in 1..m : q[i] = kept[i] /\ q[i] \in K
        /\ \A i \in (m + 1)..(m + n) : q[i] = new[i - m] /\ q[i] \in A /\ i - m \in 1..n
    <2>1. ASSUME NEW i \in 1..m PROVE q[i] = kept[i] /\ q[i] \in K
      <3>1. i \in 1..(m + n) /\ i <= m
        BY <1>1
      <3> QED BY <1>1, <1>3, <3>1
    <2>2. ASSUME NEW i \in (m + 1)..(m + n) PROVE q[i] = new[i - m] /\ q[i] \in A /\ i - m \in 1..n
      <3>1. i \in 1..(m + n) /\ ~(i <= m) /\ i - m \in 1..n
        BY <1>1
      <3>2. q[i] = new[i - m]
        BY <1>3, <3>1
      <3>3. new[i - m] \in A
        BY <1>1, <3>1
      <3> QED BY <3>1, <3>2, <3>3
    <2> QED BY <2>1, <2>2
  <1>5. \A i \in 1..(m + n) : i \in 1..m \/ i \in (m + 1)..(m + n)
    BY <1>1
  <1>6. ASSUME NEW r \in R PROVE \E i \in 1..(m + n) : q[i] = r
    <2>1. CASE r \in K
      <3>1. PICK i \in 1..m : kept[i] = r
        BY <2>1 DEF Sorted
      <3>2. i \in 1..(m + n)
        BY <1>1
      <3> QED BY <1>4, <3>1, <3>2
    <2>2. CASE r \in A
      <3>1. PICK i \in 1..n : new[i] = r
        BY <2>2 DEF Sorted
      <3>2. i + m \in 1..(m + n) /\ i + m \in (m + 1)..(m + n) /\ (i + m) - m = i
        BY <1>1
      <3>3. q[i + m] = r
        BY <1>4, <3>1, <3>2
      <3> QED BY <3>2, <3>3
    <2> QED BY <2>1, <2>2
  <1>7. ASSUME NEW i \in 1..(m + n), NEW j \in 1..(m + n), q[i] = q[j] PROVE i = j
    <2>1. CASE i \in 1..m /\ j \in 1..m
      BY <1>4, <1>7, <2>1 DEF Sorted
    <2>2. CASE i \in (m + 1)..(m + n) /\ j \in (m + 1)..(m + n)
      <3>1. i - m \in 1..n /\ j - m \in 1..n /\ new[i - m] = new[j - m]
        BY <1>4, <1>7, <2>2
      <3>2. i - m = j - m
        BY <3>1 DEF Sorted
      <3> QED BY <1>1, <3>2
    <2>3. CASE i \in 1..m /\ j \in (m + 1)..(m + n)
      BY <1>4, <1>7, <2>3
    <2>4. CASE i \in (m + 1)..(m + n) /\ j \in 1..m
      BY <1>4, <1>7, <2>4
    <2> QED BY <1>5, <2>1, <2>2, <2>3, <2>4
  <1>8. ASSUME NEW i \in 1..(m + n), NEW j \in 1..(m + n), i < j PROVE t(q[i]) <= t(q[j])
    <2>1. CASE i \in 1..m /\ j \in 1..m
      <3>1. t(kept[i]) <= t(kept[j])
        BY <1>8, <2>1 DEF Sorted
      <3> QED BY <1>4, <2>1, <3>1
    <2>2. CASE i \in (m + 1)..(m + n) /\ j \in (m + 1)..(m + n)
      <3>1. i - m \in 1..n /\ j - m \in 1..n /\ i - m < j - m
        BY <1>1, <1>8, <2>2
      <3>2. t(new[i - m]) <= t(new[j - m])
        BY <3>1 DEF Sorted
      <3> QED BY <1>4, <2>2, <3>2
    <2>3. CASE i \in 1..m /\ j \in (m + 1)..(m + n)
      BY <1>4, <2>3
    <2>4. CASE i \in (m + 1)..(m + n) /\ j \in 1..m
      BY <1>1, <1>8, <2>4
    <2> QED BY <1>5, <2>1, <2>2, <2>3, <2>4
  <1> HIDE DEF R, t
  <1>9. Sorted(q, slots, lfs, R)
    BY <1>3, <1>6, <1>7, <1>8 DEF Sorted, t
  <1> QED BY <1>9 DEF q, R

\* How many rows of an index are older than a time.
RowsBefore(slots, lfs, index, time) ==
    LowerBound([k \in DOMAIN index |-> RowTime(slots, lfs, index[k]) < time])

\* The rows older than a time are at the beginning of an index in order.
LEMMA SortedCut ==
    ASSUME NEW slots, NEW lfs, NEW H, \A r \in H : RowTime(slots, lfs, r) \in Nat,
           NEW old, Sorted(old, slots, lfs, H), NEW time \in Nat
    PROVE  LET n == RowsBefore(slots, lfs, old, time)
           IN  /\ n \in 0..Len(old)
               /\ \A i \in 1..Len(old) : RowTime(slots, lfs, old[i]) < time <=> i <= n
               /\ Sorted(SubSeq(old, 1, n), slots, lfs,
                         { r \in H : RowTime(slots, lfs, r) < time })
  <1> DEFINE t(x) == RowTime(slots, lfs, x)
             len == Len(old)
             below == [k \in DOMAIN old |-> t(old[k]) < time]
             n == LowerBound(below)
             K == { r \in H : t(r) < time }
             q == SubSeq(old, 1, n)
  <1>1. old \in Seq(H) /\ len \in Nat /\ DOMAIN old = 1..len /\ \A i \in 1..len : old[i] \in H
    BY DEF Sorted
  <1>2. \A i \in 1..len : t(old[i]) \in Nat
    BY <1>1
  <1>3. below \in [1..len -> BOOLEAN] /\ \A i \in 1..len : below[i] <=> t(old[i]) < time
    <2>1. \A i \in 1..len : (t(old[i]) < time) \in BOOLEAN
      BY <1>2
    <2>2. below = [i \in 1..len |-> t(old[i]) < time]
      BY <1>1
    <2>3. \A i \in 1..len : below[i] = (t(old[i]) < time)
      BY <2>2
    <2> HIDE DEF t, len, below
    <2> QED BY <2>1, <2>2, <2>3
  <1>4. \A i, j \in 1..len : i < j => t(old[i]) <= t(old[j])
    BY DEF Sorted
  <1>5. RowsBefore(slots, lfs, old, time) = n
    BY DEF RowsBefore
  <1> HIDE DEF below, t
  <1>6. \A i, j \in 1..len : i < j /\ below[j] => below[i]
    BY <1>2, <1>3, <1>4
  <1>7. n \in 0..len /\ \A i \in 1..len : below[i] <=> i <= n
    <2> HIDE DEF len
    <2> QED BY <1>1, <1>3, <1>6, LowerBoundIs
  <1> HIDE DEF n
  <1>8. \A i \in 1..len : t(old[i]) < time <=> i <= n
    BY <1>3, <1>7
  <1>9. /\ Len(q) = n /\ \A i \in 1..n : q[i] = old[i] /\ i \in 1..len
    BY <1>1, <1>7
  <1>10. q \in Seq(K)
    <2>1. ASSUME NEW i \in 1..n PROVE q[i] \in K
      <3>1. i \in 1..len /\ i <= n /\ q[i] = old[i]
        BY <1>7, <1>9
      <3> QED BY <1>1, <1>8, <3>1
    <2>2. q = [i \in 1..n |-> q[i]] /\ n \in Nat
      BY <1>1, <1>7
    <2> HIDE DEF q, K
    <2> QED BY <2>1, <2>2
  <1> HIDE DEF q
  <1>11. ASSUME NEW r \in K PROVE \E i \in 1..n : q[i] = r
    <2>1. PICK i \in 1..len : old[i] = r
      BY DEF Sorted
    <2>2. i \in 1..n
      BY <1>7, <1>8, <2>1
    <2> QED BY <1>9, <2>1, <2>2
  <1>12. \A i, j \in 1..n : q[i] = q[j] => i = j
    <2>1. \A i, j \in 1..len : old[i] = old[j] => i = j
      BY DEF Sorted
    <2> QED BY <1>9, <2>1
  <1>13. \A i, j \in 1..n : i < j => t(q[i]) <= t(q[j])
    BY <1>4, <1>9
  <1> HIDE DEF K
  <1>14. Sorted(q, slots, lfs, K)
    BY <1>9, <1>10, <1>11, <1>12, <1>13 DEF Sorted, t
  <1> QED BY <1>5, <1>7, <1>8, <1>14 DEF q, K, t

\* filtered has the rows of an index that are shown.
RowsShown(filtered, slots, lfs, min, index) ==
    filtered = Filtered(slots, lfs, min, index, 0)

\* The shown rows before those with this time or a later one.
ShownBefore(slots, lfs, index, filtered, time) ==
    LowerBound([k \in DOMAIN filtered |-> RowTime(slots, lfs, index[filtered[k]]) < time])

\* The rows shown that are older than a time are at the beginning of those of an
\* index in order, and are the rows shown of its beginning.
LEMMA FilteredCut ==
    ASSUME NEW slots, NEW lfs, NEW H, \A r \in H : RowTime(slots, lfs, r) \in Nat,
           NEW old, Sorted(old, slots, lfs, H), NEW time \in Nat, NEW min,
           NEW filtered, RowsShown(filtered, slots, lfs, min, old)
    PROVE  /\ ShownBefore(slots, lfs, old, filtered, time) \in 0..Len(filtered)
           /\ RowsShown(SubSeq(filtered, 1, ShownBefore(slots, lfs, old, filtered, time)),
                        slots, lfs, min, SubSeq(old, 1, RowsBefore(slots, lfs, old, time)))
  <1> DEFINE t(x) == RowTime(slots, lfs, x)
             len == Len(old)
             n == RowsBefore(slots, lfs, old, time)
             q == SubSeq(old, 1, n)
             P == Filtered(slots, lfs, min, q, 0)
             Q == Filtered(slots, lfs, min, old, n)
             below == [k \in DOMAIN filtered |-> t(old[filtered[k]]) < time]
  <1>1. old \in Seq(H) /\ len \in Nat /\ \A i \in 1..len : old[i] \in H
    BY DEF Sorted
  <1>2. n \in 0..len /\ \A i \in 1..len : t(old[i]) < time <=> i <= n
    BY SortedCut
  <1> HIDE DEF n
  <1>3. Len(q) = n /\ Len(q) \in Nat /\ Len(q) <= len /\ \A i \in 1..n : q[i] = old[i]
    BY <1>1, <1>2
  <1>4. P \in Seq(1..n) /\ Q \in Seq((n + 1)..len)
    <2>1. 0 \in 0..Len(q) /\ n \in 0..Len(old) /\ Len(old) \in Nat
      BY <1>1, <1>2, <1>3
    <2> HIDE DEF q
    <2>2. P \in Seq((0 + 1)..Len(q)) /\ Q \in Seq((n + 1)..Len(old))
      BY <1>3, <2>1, FilteredType
    <2>3. (0 + 1)..Len(q) = 1..n
      BY <1>3
    <2> QED BY <2>2, <2>3
  <1>5. Joins(filtered, P, Q)
    <2>1. ShownAlike(slots, lfs, slots, lfs, min, q, old)
      BY <1>3 DEF ShownAlike
    <2>2. Joins(Filtered(slots, lfs, min, old, 0), P, Filtered(slots, lfs, min, old, Len(q)))
      <3> HIDE DEF q
      <3> QED BY <1>1, <1>3, <2>1, FilteredGrows
    <2> QED BY <1>3, <2>2 DEF RowsShown
  <1> HIDE DEF P, Q, q
  <1> DEFINE a == Len(P)
             b == Len(Q)
  <1>6. filtered = P \o Q /\ P \in Seq(1..len) /\ Q \in Seq(1..len)
    <2>1. 1..n \subseteq 1..len /\ (n + 1)..len \subseteq 1..len
      BY <1>1, <1>2
    <2>2. P \in Seq(1..len) /\ Q \in Seq(1..len)
      BY <1>4, <2>1, SeqMonotonic
    <2> QED BY <1>5, <2>2 DEF Joins
  <1>7. /\ a \in Nat /\ b \in Nat /\ filtered \in Seq(1..len) /\ Len(filtered) = a + b
        /\ \A i \in 1..(a + b) : filtered[i] = IF i <= a THEN P[i] ELSE Q[i - a]
    <2> DEFINE R == 1..len
               S == P \o Q
    <2>1. P \in Seq(R) /\ Q \in Seq(R) /\ filtered = S
      BY <1>6
    <2> HIDE DEF R
    <2>2. a \in Nat /\ b \in Nat
      BY <2>1
    <2>3. /\ S \in Seq(R) /\ Len(S) = a + b
          /\ \A i \in 1..(a + b) : S[i] = IF i <= a THEN P[i] ELSE Q[i - a]
      BY <2>1, ConcatProperties
    <2> HIDE DEF S
    <2> QED BY <2>1, <2>2, <2>3 DEF R
  <1>8. ASSUME NEW i \in 1..(a + b) PROVE filtered[i] \in 1..len /\ (filtered[i] <= n <=> i <= a)
    <2>1. CASE i <= a
      <3>1. i \in 1..a /\ filtered[i] = P[i]
        BY <1>7, <2>1
      <3>2. P[i] \in 1..n
        BY <1>4, <3>1, ElementOfSeq
      <3> QED BY <1>2, <2>1, <3>1, <3>2
    <2>2. CASE ~(i <= a)
      <3>1. i - a \in 1..b /\ filtered[i] = Q[i - a]
        BY <1>7, <2>2
      <3>2. Q[i - a] \in (n + 1)..len
        BY <1>4, <3>1, ElementOfSeq
      <3> QED BY <1>2, <2>2, <3>1, <3>2
    <2> QED BY <2>1, <2>2
  <1>9. /\ below \in [1..(a + b) -> BOOLEAN]
        /\ \A i \in 1..(a + b) : below[i] <=> i <= a
    <2>1. DOMAIN filtered = 1..(a + b)
      BY <1>7
    <2>2. \A i \in 1..(a + b) : t(old[filtered[i]]) < time <=> i <= a
      BY <1>2, <1>8
    <2>3. \A i \in 1..(a + b) : t(old[filtered[i]]) \in Nat
      BY <1>1, <1>8
    <2>4. \A i \in 1..(a + b) : (t(old[filtered[i]]) < time) \in BOOLEAN
      BY <2>3
    <2>5. below = [i \in 1..(a + b) |-> t(old[filtered[i]]) < time]
      BY <2>1
    <2>6. \A i \in 1..(a + b) : below[i] = (t(old[filtered[i]]) < time)
      BY <2>5
    <2> HIDE DEF t, below, a, b
    <2> QED BY <2>2, <2>4, <2>5, <2>6
  <1> HIDE DEF below, a, b
  <1>10. LowerBound(below) = a
    <2> DEFINE m == a + b
    <2>1. m \in Nat /\ \A i, j \in 1..m : i < j /\ below[j] => below[i]
      BY <1>7, <1>9
    <2>2. below \in [1..m -> BOOLEAN] /\ a \in 0..m /\ \A i \in 1..m : below[i] <=> i <= a
      BY <1>7, <1>9
    <2> HIDE DEF m
    <2>3. LowerBound(below) \in 0..m /\ \A i \in 1..m : below[i] <=> i <= LowerBound(below)
      BY <2>1, <2>2, LowerBoundIs
    <2>4. \A i \in 1..m : i <= a <=> i <= LowerBound(below)
      BY <2>2, <2>3
    <2> QED BY <2>1, <2>2, <2>3, <2>4
  <1>11. SubSeq(filtered, 1, a) = P
    BY <1>6, SubSeqOfConcat1 DEF a
  <1>12. a \in 0..Len(filtered)
    BY <1>7
  <1> QED BY <1>10, <1>11, <1>12 DEF RowsShown, ShownBefore, below, P, q, n

-----------------------------------------------------------------------------
(* Rows of slots.                                                          *)

\* The lines of the file of slot i that have been scanned.
Size(slots, lfs, i) == Len(lfs[slots[i].file].seen)

\* The lines that the slots count as indexed, and all that have been scanned.
Held(slots) ==
    { r \in Open(slots) \X (1..MaxLines) : r[2] <= slots[r[1]].indexed }
AllRows(slots, lfs) ==
    { r \in Open(slots) \X (1..MaxLines) : r[2] <= Size(slots, lfs, r[1]) }

\* A file has one slot.
SlotsSound(slots) ==
    /\ slots \in Seq(Slot)
    /\ \A i, j \in Open(slots) : slots[i].file = slots[j].file => i = j

\* A free slot counts nothing.
Freed(slots) == \A i \in DOMAIN slots \ Open(slots) : slots[i].indexed = 0

\* Logfiles within the bound on lines.
FilesSound(lfs) ==
    lfs \in [Files -> LogFile] /\ \A f \in Files : Len(lfs[f].seen) <= MaxLines

\* The smallest of some numbers.
LEMMA MinIs ==
    ASSUME NEW T \in SUBSET Nat, T # {}
    PROVE  Min(T) \in T /\ \A y \in T : Min(T) <= y
  <1>1. \E x \in T : \A y \in T : x <= y
    BY LeastNumber
  <1> QED BY <1>1 DEF Min

\* What an open slot has.
LEMMA SlotParts ==
    ASSUME NEW slots \in Seq(Slot), NEW i \in Open(slots)
    PROVE  /\ i \in DOMAIN slots /\ i \in 1..Len(slots) /\ i \in Nat
           /\ slots[i] \in Slot /\ slots[i].file \in Files /\ slots[i].file # NoFile
           /\ slots[i].indexed \in Nat /\ slots[i].visible \in BOOLEAN
  <1>1. i \in DOMAIN slots /\ slots[i].file # NoFile
    BY DEF Open
  <1>2. i \in 1..Len(slots) /\ i \in Nat /\ slots[i] \in Slot
    BY <1>1
  <1>3. slots[i].file \in Files \cup {NoFile} /\ slots[i].indexed \in Nat
    BY <1>2 DEF Slot
  <1>4. slots[i].visible \in BOOLEAN
    BY <1>2 DEF Slot
  <1> QED BY <1>1, <1>2, <1>3, <1>4

\* The times of the lines of a slot.
LEMMA SlotTimes ==
    ASSUME NEW slots, SlotsSound(slots), NEW lfs, FilesSound(lfs), NEW i \in Open(slots)
    PROVE  LET f == slots[i].file
               times == Times(f, lfs[f])
               n == Size(slots, lfs, i)
           IN  /\ n \in Nat /\ n <= MaxLines
               /\ times \in Seq(Nat) /\ Len(times) = n /\ DOMAIN times = 1..n
               /\ \A l \in 1..n : times[l] \in Nat
               /\ \A l : RowTime(slots, lfs, <<i, l>>) = times[l]
               /\ f \in TimeOrdered =>
                    \A k \in 1..n : \A l \in k..n : times[k] <= times[l]
  <1> DEFINE f == slots[i].file
             times == Times(f, lfs[f])
             n == Size(slots, lfs, i)
  <1>1. f \in Files
    BY SlotParts DEF SlotsSound
  <1>2. lfs[f].seen \in Seq(Line) /\ lfs[f].offset \in Nat /\ n = Len(lfs[f].seen)
        /\ n <= MaxLines
    BY <1>1 DEF FilesSound, LogFile, Size
  <1>3. times = LineTimes(f, lfs[f].seen, lfs[f].offset)
    BY DEF Times
  <1>4. \A l : RowTime(slots, lfs, <<i, l>>) = times[l]
    BY DEF RowTime
  <1> HIDE DEF f, times, n
  <1>5. /\ n \in Nat /\ times \in Seq(Nat) /\ Len(times) = n /\ DOMAIN times = 1..n
        /\ \A l \in 1..n : times[l] \in Nat
    BY <1>2, <1>3, TimesType
  <1>6. ASSUME f \in TimeOrdered PROVE \A k \in 1..n : \A l \in k..n : times[k] <= times[l]
    BY <1>2, <1>3, <1>6, TimesOrdered
  <1> QED BY <1>2, <1>4, <1>5, <1>6 DEF f, times, n

\* Every row has a time, and there are finitely many.
LEMMA RowsFacts ==
    ASSUME NEW slots, SlotsSound(slots), NEW lfs, FilesSound(lfs)
    PROVE  /\ \A r \in AllRows(slots, lfs) : RowTime(slots, lfs, r) \in Nat
           /\ IsFiniteSet(AllRows(slots, lfs))
  <1>1. ASSUME NEW r \in AllRows(slots, lfs) PROVE RowTime(slots, lfs, r) \in Nat
    <2>1. /\ r[1] \in Open(slots) /\ r[2] \in 1..MaxLines /\ r = <<r[1], r[2]>>
          /\ r[2] <= Size(slots, lfs, r[1])
      BY DEF AllRows
    <2> DEFINE i == r[1]
               times == Times(slots[i].file, lfs[slots[i].file])
    <2>2. /\ Size(slots, lfs, i) \in Nat
          /\ \A l \in 1..Size(slots, lfs, i) : times[l] \in Nat
          /\ \A l : RowTime(slots, lfs, <<i, l>>) = times[l]
      BY <2>1, SlotTimes
    <2>3. r[2] \in 1..Size(slots, lfs, i)
      BY <2>1, <2>2
    <2> QED BY <2>1, <2>2, <2>3
  <1>2. IsFiniteSet(AllRows(slots, lfs))
    <2>1. MaxLines \in Nat /\ Len(slots) \in Nat
      BY EnvAssumption DEF SlotsSound
    <2>2. IsFiniteSet(1..Len(slots)) /\ IsFiniteSet(1..MaxLines)
      BY <2>1, FS_Interval
    <2>3. IsFiniteSet((1..Len(slots)) \X (1..MaxLines))
      BY <2>2, FS_Product
    <2>4. AllRows(slots, lfs) \subseteq (1..Len(slots)) \X (1..MaxLines)
      BY DEF AllRows, Open, SlotsSound
    <2> QED BY <2>3, <2>4, FS_Subset
  <1> QED BY <1>1, <1>2

\* A row is a line of an open slot.
LEMMA RowParts ==
    ASSUME NEW slots, SlotsSound(slots), NEW lfs, FilesSound(lfs), NEW r \in Open(slots) \X (1..MaxLines)
    PROVE  /\ r[1] \in Open(slots) /\ r[2] \in 1..MaxLines /\ r = <<r[1], r[2]>>
           /\ r[2] \in Nat /\ slots[r[1]].indexed \in Nat /\ Size(slots, lfs, r[1]) \in Nat
           /\ r \in Held(slots) <=> r[2] <= slots[r[1]].indexed
           /\ r \in AllRows(slots, lfs) <=> r[2] <= Size(slots, lfs, r[1])
  <1>1. r[1] \in Open(slots) /\ r[2] \in 1..MaxLines /\ r = <<r[1], r[2]>> /\ r[2] \in Nat
    OBVIOUS
  <1>2. slots[r[1]].indexed \in Nat
    BY <1>1, SlotParts DEF SlotsSound
  <1>3. Size(slots, lfs, r[1]) \in Nat
    BY <1>1, SlotTimes
  <1> QED BY <1>1, <1>2, <1>3 DEF Held, AllRows

\* The rows in two parts, the first of them in order before the second.
Parts(slots, lfs, rows, K, A) ==
    /\ K \cup A = rows /\ K \cap A = {}
    /\ \A a \in K, b \in A : RowTime(slots, lfs, a) <= RowTime(slots, lfs, b)

\* The rows a partial rebuild adds: of every file, those behind the last line
\* that is older than a time.
RowsFrom(slots, lfs, time) ==
    { r \in AllRows(slots, lfs) :
        r[2] > LowestLine(Times(slots[r[1]].file, lfs[slots[r[1]].file]), time) }

\* If all files are in order and no new line is older than the time, a partial
\* rebuild adds what it has taken off the index, and the new lines.
LEMMA PartialParts ==
    ASSUME NEW slots, SlotsSound(slots), NEW lfs, FilesSound(lfs),
           \A i \in Open(slots) : slots[i].file \in TimeOrdered,
           \A i \in Open(slots) : slots[i].indexed <= Size(slots, lfs, i),
           NEW time \in Nat,
           \A i \in Open(slots) : slots[i].indexed < Size(slots, lfs, i) =>
              time <= RowTime(slots, lfs, <<i, slots[i].indexed + 1>>)
    PROVE  Parts(slots, lfs, AllRows(slots, lfs),
                 { r \in Held(slots) : RowTime(slots, lfs, r) < time },
                 RowsFrom(slots, lfs, time))
  <1> DEFINE t(x) == RowTime(slots, lfs, x)
             K == { r \in Held(slots) : t(r) < time }
             A == RowsFrom(slots, lfs, time)
  <1>1. ASSUME NEW r \in AllRows(slots, lfs) PROVE r \in A <=> time <= t(r)
    <2> DEFINE i == r[1]
               n == Size(slots, lfs, i)
               times == Times(slots[i].file, lfs[slots[i].file])
               below == [l \in DOMAIN times |-> times[l] < time]
    <2>1. i \in Open(slots) /\ r = <<i, r[2]>> /\ r[2] \in 1..MaxLines /\ r[2] <= n
      BY DEF AllRows
    <2>2. /\ n \in Nat /\ DOMAIN times = 1..n
          /\ \A l \in 1..n : times[l] \in Nat
          /\ \A l : RowTime(slots, lfs, <<i, l>>) = times[l]
          /\ slots[i].file \in TimeOrdered => \A k \in 1..n : \A l \in k..n : times[k] <= times[l]
      BY <2>1, SlotTimes
    <2>3. slots[i].file \in TimeOrdered
      BY <2>1
    <2>4. LowestLine(times, time) = LowerBound(below)
      BY DEF LowestLine
    <2> HIDE DEF times, n, i
    <2>5. below \in [1..n -> BOOLEAN] /\ \A l \in 1..n : below[l] <=> times[l] < time
      <3>1. \A l \in 1..n : (times[l] < time) \in BOOLEAN
        BY <2>2
      <3>2. below = [l \in 1..n |-> times[l] < time]
        BY <2>2
      <3>3. \A l \in 1..n : below[l] = (times[l] < time)
        BY <3>2
      <3> HIDE DEF below
      <3> QED BY <3>1, <3>2, <3>3
    <2> HIDE DEF below
    <2>6. ASSUME NEW k \in 1..n, NEW l \in 1..n, k < l, below[l] PROVE below[k]
      <3>1. times[k] <= times[l] /\ times[l] < time /\ times[k] \in Nat /\ times[l] \in Nat
        BY <2>2, <2>3, <2>5, <2>6
      <3>2. times[k] < time
        BY <3>1
      <3> QED BY <2>5, <3>2
    <2>7. LowerBound(below) \in 0..n /\ \A l \in 1..n : below[l] <=> l <= LowerBound(below)
      BY <2>2, <2>5, <2>6, LowerBoundIs
    <2>8. r[2] \in 1..n
      BY <2>1, <2>2
    <2>9. t(r) = times[r[2]] /\ times[r[2]] \in Nat
      BY <2>1, <2>2, <2>8
    <2>10. r[2] > LowerBound(below) <=> ~below[r[2]]
      BY <2>7, <2>8
    <2>11. ~below[r[2]] <=> time <= t(r)
      BY <2>5, <2>8, <2>9
    <2>12. r \in A <=> r[2] > LowestLine(times, time)
      BY DEF RowsFrom, times, i
    <2> QED BY <2>4, <2>10, <2>11, <2>12
  <1>2. A \subseteq AllRows(slots, lfs)
    BY DEF RowsFrom
  <1>3. \A r \in AllRows(slots, lfs) : t(r) \in Nat
    BY RowsFacts
  <1>4. Held(slots) \subseteq AllRows(slots, lfs)
    <2> SUFFICES ASSUME NEW r \in Held(slots) PROVE r \in AllRows(slots, lfs)
      OBVIOUS
    <2>1. r \in Open(slots) \X (1..MaxLines)
      BY DEF Held
    <2>2. /\ r[1] \in Open(slots) /\ r[2] \in Nat /\ slots[r[1]].indexed \in Nat
          /\ Size(slots, lfs, r[1]) \in Nat /\ r[2] <= slots[r[1]].indexed
      BY <2>1, RowParts
    <2>3. slots[r[1]].indexed <= Size(slots, lfs, r[1])
      BY <2>2
    <2>4. r[2] <= Size(slots, lfs, r[1])
      BY <2>2, <2>3
    <2> QED BY <2>1, <2>4, RowParts
  <1>5. ASSUME NEW r \in AllRows(slots, lfs), r \notin Held(slots) PROVE time <= t(r)
    <2> DEFINE i == r[1]
               n == Size(slots, lfs, i)
               k == slots[i].indexed + 1
               times == Times(slots[i].file, lfs[slots[i].file])
    <2>1. r \in Open(slots) \X (1..MaxLines)
      BY DEF AllRows
    <2>2. /\ i \in Open(slots) /\ r = <<i, r[2]>> /\ r[2] \in Nat
          /\ slots[i].indexed \in Nat /\ n \in Nat /\ r[2] <= n /\ ~(r[2] <= slots[i].indexed)
      BY <1>5, <2>1, RowParts
    <2>3. /\ \A l \in 1..n : times[l] \in Nat
          /\ \A l : RowTime(slots, lfs, <<i, l>>) = times[l]
          /\ slots[i].file \in TimeOrdered => \A j \in 1..n : \A l \in j..n : times[j] <= times[l]
      BY <2>2, SlotTimes
    <2>4. time <= RowTime(slots, lfs, <<i, k>>)
      BY <2>2
    <2>5. slots[i].file \in TimeOrdered
      BY <2>2
    <2> HIDE DEF times, n, i
    <2>6. k \in 1..n /\ r[2] \in k..n /\ r[2] \in 1..n
      BY <2>2
    <2>7. times[k] <= times[r[2]] /\ times[k] \in Nat /\ times[r[2]] \in Nat
      BY <2>3, <2>5, <2>6
    <2>8. RowTime(slots, lfs, <<i, k>>) = times[k] /\ t(r) = times[r[2]]
      BY <2>2, <2>3
    <2> HIDE DEF k, t
    <2> QED BY <2>4, <2>7, <2>8
  <1> HIDE DEF t, A
  <1>6. K \cup A = AllRows(slots, lfs)
    BY <1>1, <1>2, <1>3, <1>4, <1>5
  <1>7. K \cap A = {}
    BY <1>1, <1>3, <1>4
  <1>8. \A a \in K, b \in A : t(a) <= t(b)
    BY <1>1, <1>2, <1>3, <1>4
  <1> QED BY <1>6, <1>7, <1>8 DEF Parts, t, A

\* The rows that are appended.
RowsBehind(slots, lfs) == { r \in AllRows(slots, lfs) : r[2] > slots[r[1]].indexed }

\* If the first new line of every file, and with it the others, is not older than
\* the last row, the new lines come behind the index.
LEMMA AppendParts ==
    ASSUME NEW slots, SlotsSound(slots), NEW lfs, FilesSound(lfs),
           \A i \in Open(slots) : slots[i].indexed <= Size(slots, lfs, i),
           NEW index, Sorted(index, slots, lfs, Held(slots)),
           \A i \in Open(slots) : slots[i].indexed < Size(slots, lfs, i) =>
              /\ index # << >> =>
                    RowTime(slots, lfs, index[Len(index)])
                      <= RowTime(slots, lfs, <<i, slots[i].indexed + 1>>)
              /\ \A l \in (slots[i].indexed + 1)..Size(slots, lfs, i) :
                    RowTime(slots, lfs, <<i, slots[i].indexed + 1>>)
                      <= RowTime(slots, lfs, <<i, l>>)
    PROVE  Parts(slots, lfs, AllRows(slots, lfs), Held(slots), RowsBehind(slots, lfs))
  <1> DEFINE t(x) == RowTime(slots, lfs, x)
             K == Held(slots)
             A == RowsBehind(slots, lfs)
             R == AllRows(slots, lfs)
  <1>1. ASSUME NEW r \in Open(slots) \X (1..MaxLines)
        PROVE  (r \in K \/ r \in A <=> r \in R) /\ ~(r \in K /\ r \in A)
    <2>1. /\ r[1] \in Open(slots) /\ r[2] \in Nat /\ slots[r[1]].indexed \in Nat
          /\ Size(slots, lfs, r[1]) \in Nat
          /\ r \in K <=> r[2] <= slots[r[1]].indexed
          /\ r \in R <=> r[2] <= Size(slots, lfs, r[1])
      BY RowParts
    <2>2. slots[r[1]].indexed <= Size(slots, lfs, r[1])
      BY <2>1
    <2>3. r \in A <=> r \in R /\ r[2] > slots[r[1]].indexed
      BY DEF RowsBehind
    <2> HIDE DEF K, A, R
    <2> QED BY <2>1, <2>2, <2>3
  <1>2. K \subseteq Open(slots) \X (1..MaxLines) /\ A \subseteq Open(slots) \X (1..MaxLines)
        /\ R \subseteq Open(slots) \X (1..MaxLines)
    BY DEF Held, RowsBehind, AllRows
  <1>3. \A r \in R : t(r) \in Nat
    BY RowsFacts
  <1>4. ASSUME NEW a \in K, NEW b \in A PROVE t(a) <= t(b)
    <2> DEFINE i == b[1]
               n == Size(slots, lfs, i)
               k == slots[i].indexed + 1
               last == index[Len(index)]
    <2>1. b \in Open(slots) \X (1..MaxLines) /\ b \in R /\ b[2] > slots[i].indexed
      BY <1>2 DEF RowsBehind
    <2>2. /\ i \in Open(slots) /\ b = <<i, b[2]>> /\ b[2] \in Nat /\ b[2] \in 1..MaxLines
          /\ slots[i].indexed \in Nat /\ n \in Nat /\ b[2] <= n
      BY <2>1, RowParts
    <2>3. PICK j \in 1..Len(index) : index[j] = a
      BY DEF Sorted
    <2>4. index \in Seq(K) /\ index # << >> /\ Len(index) \in 1..Len(index) /\ Len(index) \in Nat
      BY <2>3 DEF Sorted
    <2>5. t(a) <= t(last)
      <3>1. CASE j = Len(index)
        <4>1. last = a
          BY <2>3, <3>1
        <4>2. t(a) \in Nat
          BY <1>1, <1>2, <1>3
        <4> QED BY <4>1, <4>2
      <3>2. CASE j # Len(index)
        <4>1. j < Len(index)
          BY <2>4, <3>2
        <4> QED BY <2>3, <2>4, <4>1 DEF Sorted
      <3> QED BY <3>1, <3>2
    <2>6. t(last) <= t(<<i, k>>) /\ \A l \in k..n : t(<<i, k>>) <= t(<<i, l>>)
      BY <2>1, <2>2, <2>4
    <2>7. b[2] \in k..n
      BY <2>1, <2>2
    <2>8. t(<<i, k>>) <= t(b)
      BY <2>2, <2>6, <2>7
    <2>9. /\ a \in R /\ last \in R /\ <<i, k>> \in R
      <3>1. last \in K
        BY <2>4
      <3>2. <<i, k>> \in Open(slots) \X (1..MaxLines)
        <4>1. MaxLines \in Nat /\ k \in Nat
          BY <2>2, EnvAssumption
        <4> HIDE DEF i
        <4>2. k \in 1..MaxLines
          BY <2>1, <2>2, <4>1
        <4> HIDE DEF k
        <4> QED BY <2>2, <4>2
      <3>3. <<i, k>> \in R
        BY <2>1, <2>2, <3>2 DEF AllRows
      <3> QED BY <1>1, <1>2, <3>1, <3>3
    <2> HIDE DEF k, last, i
    <2>10. t(a) \in Nat /\ t(last) \in Nat /\ t(<<i, k>>) \in Nat /\ t(b) \in Nat
      BY <1>3, <2>1, <2>9
    <2> HIDE DEF t
    <2> QED BY <2>5, <2>6, <2>8, <2>10
  <1>5. K \cup A = R /\ K \cap A = {}
    <2> HIDE DEF K, A, R
    <2> QED BY <1>1, <1>2
  <1> QED BY <1>4, <1>5 DEF Parts

-----------------------------------------------------------------------------
(* What rebuild_index() leaves behind.                                     *)

\* The results of scans that met no line out of order, over an index in order: a
\* new line of a file is not older than its first new line.
Calm(slots, lfs, res) ==
    /\ Sorted(lss_index, slots, lfs, Held(slots))
    /\ lss_filtered_index = Filtered(slots, lfs, ttt_min_row_time, lss_index, 0)
    /\ \A i \in Open(slots) :
          /\ res[i] \in {"NO_NEW_LINES", "NEW_LINES"}
          /\ \A l \in (slots[i].indexed + 1)..Size(slots, lfs, i) :
                RowTime(slots, lfs, <<i, slots[i].indexed + 1>>)
                  <= RowTime(slots, lfs, <<i, l>>)

\* No file was scanned: the pass was paused.
Skipped(slots, res) == \A i \in Open(slots) : res[i] = "SKIPPED"

\* What rebuild_index() relies on: unless the index is to be redone anyhow, the
\* slots count what the files have; files are not scanned, or not in order, or
\* the index is and so is what they have read.
Ready(slots, force0, lfs, res, timeLeft) ==
    /\ SlotsSound(slots) /\ FilesSound(lfs)
    /\ force0 \/ /\ Freed(slots)
                 /\ \A i \in Open(slots) : slots[i].indexed <= Size(slots, lfs, i)
                 /\ lss_index = << >> => Held(slots) = {} /\ lss_filtered_index = << >>
    /\ \/ Skipped(slots, res)
       \/ timeLeft /\ \E i \in Open(slots) : res[i] \in {"NEW_ORDER", "INVALID"}
       \/ timeLeft /\ (force0 \/ Calm(slots, lfs, res))

\* The index is emptied and will be redone; it is left alone; or it has every
\* line that has been scanned, in order, and the rows that are shown.
Emptied(r, slots) ==
    /\ r.files = Indexed(slots, [i \in DOMAIN slots |-> 0])
    /\ r.index = << >> /\ r.filtered = << >> /\ r.force = TRUE
Unmoved(r, slots, force0, lfs, res) ==
    /\ ~force0 /\ r.files = slots /\ r.index = lss_index
    /\ r.filtered = lss_filtered_index /\ r.force = FALSE /\ r.told = NotTold
    /\ \/ Skipped(slots, res)
       \/ Calm(slots, lfs, res) /\ \A i \in Open(slots) : slots[i].indexed = Size(slots, lfs, i)
Complete(r, slots, lfs) ==
    /\ r.files = Indexed(slots, [i \in DOMAIN slots |->
                     IF i \in Open(slots) THEN Size(slots, lfs, i) ELSE 0])
    /\ Sorted(r.index, slots, lfs, AllRows(slots, lfs))
    /\ r.filtered = Filtered(slots, lfs, ttt_min_row_time, r.index, 0)
    /\ r.force = FALSE

\* The first n rows that are shown are the ones that were.
StartKept(r, n) ==
    /\ n \in 0..Len(lss_filtered_index) /\ n <= Len(r.filtered)
    /\ \A k \in 1..n : /\ r.filtered[k] = lss_filtered_index[k]
                       /\ lss_filtered_index[k] \in 1..Len(lss_index)
                       /\ r.index[r.filtered[k]] = lss_index[r.filtered[k]]

\* When all formats are time-ordered the view is told to search from a row before
\* which nothing has changed.
Announced(r, slots, force0) ==
    (\A i \in Open(slots) : slots[i].file \in TimeOrdered) =>
        /\ r.told.rr # "none"
        /\ r.told.from = 0 \/ (~force0 /\ StartKept(r, r.told.from))

\* One sequence is the beginning of another.
Begins(p, q) == \E n \in 0..Len(q) : p = SubSeq(q, 1, n)

\* What is kept of the rows and of those shown, unless all is redone.
KeepsStart(kept, shown, retval) ==
    /\ Begins(kept, lss_index) /\ Begins(shown, lss_filtered_index)
    /\ retval = "append" => shown = lss_filtered_index
    /\ retval \in {"partial", "append"}

\* The beginning of a sequence.
LEMMA BeginsIs ==
    ASSUME NEW S, NEW q \in Seq(S), NEW p, Begins(p, q)
    PROVE  /\ Len(p) \in 0..Len(q) /\ p \in Seq(S)
           /\ \A k \in 1..Len(p) : p[k] = q[k]
  <1>1. PICK n \in 0..Len(q) : p = SubSeq(q, 1, n)
    BY DEF Begins
  <1>2. Len(q) \in Nat /\ DOMAIN q = 1..Len(q)
    OBVIOUS
  <1>3. \A k \in 1..n : q[k] \in S
    BY <1>1, <1>2
  <1>4. p = [k \in 1..n |-> q[k]]
    BY <1>1, <1>2
  <1>5. p \in Seq(S) /\ Len(p) = n
    BY <1>1, <1>2, <1>3, <1>4
  <1> QED BY <1>1, <1>4, <1>5

\* A sequence begins with all of itself.
LEMMA BeginsAll ==
    ASSUME NEW S, NEW q \in Seq(S)
    PROVE  Begins(q, q)
  <1>1. Len(q) \in 0..Len(q) /\ q = SubSeq(q, 1, Len(q))
    OBVIOUS
  <1> QED BY <1>1 DEF Begins

\* What is kept is in its old place.
LEMMA StartSame ==
    ASSUME NEW K, NEW H, NEW kept \in Seq(K), NEW shown, NEW retval, lss_index \in Seq(H),
           lss_filtered_index \in Seq(1..Len(lss_index)),
           KeepsStart(kept, shown, retval), shown \in Seq(1..Len(kept)),
           NEW more \in Seq(Nat), NEW out, out.filtered = shown \o more,
           \A i \in 1..Len(kept) : out.index[i] = kept[i]
    PROVE  StartKept(out, Len(shown))
  <1>1. /\ Begins(kept, lss_index) /\ Begins(shown, lss_filtered_index)
    BY DEF KeepsStart
  <1>2. /\ Len(kept) \in 0..Len(lss_index) /\ \A k \in 1..Len(kept) : kept[k] = lss_index[k]
    BY <1>1, BeginsIs
  <1>3. /\ Len(shown) \in 0..Len(lss_filtered_index)
        /\ \A k \in 1..Len(shown) : shown[k] = lss_filtered_index[k]
    <2> DEFINE N == 1..Len(lss_index)
    <2>1. lss_filtered_index \in Seq(N)
      OBVIOUS
    <2> HIDE DEF N
    <2> QED BY <1>1, <2>1, BeginsIs
  <1>4. /\ Len(shown) <= Len(out.filtered)
        /\ \A k \in 1..Len(shown) : out.filtered[k] = shown[k]
    <2> DEFINE N == 1..Len(kept)
               U == N \cup Nat
    <2>1. shown \in Seq(U) /\ more \in Seq(U)
      <3>1. shown \in Seq(N) /\ N \subseteq U /\ Nat \subseteq U
        OBVIOUS
      <3> HIDE DEF N, U
      <3> QED BY <3>1, SeqMonotonic
    <2> HIDE DEF U, N
    <2>2. /\ Len(shown \o more) = Len(shown) + Len(more) /\ Len(more) \in Nat /\ Len(shown) \in Nat
          /\ \A i \in 1..(Len(shown) + Len(more)) :
                (shown \o more)[i] = IF i <= Len(shown) THEN shown[i] ELSE more[i - Len(shown)]
      BY <2>1, ConcatProperties
    <2> QED BY <2>2
  <1>5. ASSUME NEW k \in 1..Len(shown)
        PROVE  /\ out.filtered[k] = lss_filtered_index[k]
               /\ lss_filtered_index[k] \in 1..Len(lss_index)
               /\ out.index[out.filtered[k]] = lss_index[out.filtered[k]]
    <2>1. shown[k] \in 1..Len(kept)
      BY ElementOfSeq
    <2>2. out.filtered[k] = shown[k] /\ shown[k] = lss_filtered_index[k]
      BY <1>3, <1>4
    <2>3. out.index[shown[k]] = kept[shown[k]] /\ kept[shown[k]] = lss_index[shown[k]]
      BY <1>2, <2>1
    <2>4. shown[k] \in 1..Len(lss_index)
      BY <1>2, <2>1
    <2> QED BY <2>2, <2>3, <2>4
  <1> QED BY <1>3, <1>4, <1>5 DEF StartKept

\* Nothing is held when no line is counted.
LEMMA NoneHeld ==
    ASSUME NEW slots, SlotsSound(slots), NEW lfs, FilesSound(lfs), Held(slots) = {},
           NEW i \in Open(slots), slots[i].indexed <= Size(slots, lfs, i)
    PROVE  slots[i].indexed = 0
  <1>1. slots[i].indexed \in Nat
    BY SlotParts DEF SlotsSound
  <1>2. Size(slots, lfs, i) \in Nat /\ Size(slots, lfs, i) <= MaxLines /\ MaxLines \in Nat
    BY SlotTimes, EnvAssumption
  <1>3. ASSUME slots[i].indexed > 0 PROVE FALSE
    <2>1. 1 \in 1..MaxLines
      BY <1>1, <1>2, <1>3
    <2>2. <<i, 1>> \in Open(slots) \X (1..MaxLines)
      BY <2>1
    <2>3. 1 <= slots[i].indexed
      BY <1>1, <1>3
    <2> QED BY <2>2, <2>3 DEF Held
  <1> QED BY <1>1, <1>3

\* The rows that are held are rows of the files.
LEMMA HeldTimes ==
    ASSUME NEW slots, SlotsSound(slots), NEW lfs, FilesSound(lfs),
           \A i \in Open(slots) : slots[i].indexed <= Size(slots, lfs, i)
    PROVE  /\ Held(slots) \subseteq AllRows(slots, lfs)
           /\ \A x \in Held(slots) : RowTime(slots, lfs, x) \in Nat
  <1>1. ASSUME NEW r \in Held(slots) PROVE r \in AllRows(slots, lfs)
    <2>1. r \in Open(slots) \X (1..MaxLines)
      BY DEF Held
    <2>2. /\ r[1] \in Open(slots) /\ r[2] \in Nat /\ slots[r[1]].indexed \in Nat
          /\ Size(slots, lfs, r[1]) \in Nat /\ r[2] <= slots[r[1]].indexed
      BY <2>1, RowParts
    <2>3. slots[r[1]].indexed <= Size(slots, lfs, r[1])
      BY <2>2
    <2>4. r[2] <= Size(slots, lfs, r[1])
      BY <2>2, <2>3
    <2> QED BY <2>1, <2>4, RowParts
  <1> QED BY <1>1, RowsFacts

\* The rows new come behind the rows kept, and so do the ones of them shown.
Behind(slots, lfs, min, kept, new) ==
    /\ Sorted(kept \o new, slots, lfs, AllRows(slots, lfs))
    /\ Filtered(slots, lfs, min, kept, 0) \o Filtered(slots, lfs, min, kept \o new, Len(kept))
         = Filtered(slots, lfs, min, kept \o new, 0)
    /\ Filtered(slots, lfs, min, kept \o new, Len(kept)) \in Seq(Nat)
    /\ \A i \in 1..Len(kept) : (kept \o new)[i] = kept[i]

\* The rows that are kept, those that are added in order behind them, and the
\* rows that are shown of both.
LEMMA Continued ==
    ASSUME NEW slots, SlotsSound(slots), NEW lfs, FilesSound(lfs), NEW min, NEW K, NEW A,
           Parts(slots, lfs, AllRows(slots, lfs), K, A),
           NEW kept, Sorted(kept, slots, lfs, K),
           NEW new \in Collated(slots, lfs, A)
    PROVE  Behind(slots, lfs, min, kept, new)
  <1>1. /\ K \cup A = AllRows(slots, lfs) /\ K \cap A = {}
        /\ \A a \in K, b \in A : RowTime(slots, lfs, a) <= RowTime(slots, lfs, b)
    BY DEF Parts
  <1>2. /\ \A x \in AllRows(slots, lfs) : RowTime(slots, lfs, x) \in Nat
        /\ IsFiniteSet(AllRows(slots, lfs))
    BY RowsFacts
  <1>3. (\A x \in A : RowTime(slots, lfs, x) \in Nat) /\ IsFiniteSet(A)
    BY <1>1, <1>2, FS_Subset
  <1>4. Sorted(new, slots, lfs, A)
    BY <1>3, CollatedSorted
  <1>5. Sorted(kept \o new, slots, lfs, K \cup A)
    BY <1>1, <1>4, SortedJoin
  <1>6. kept \in Seq(K) /\ new \in Seq(A)
    BY <1>4 DEF Sorted
  <1> DEFINE index == kept \o new
  <1>7. /\ Len(kept) \in Nat /\ Len(index) \in Nat /\ Len(kept) <= Len(index)
        /\ \A i \in 1..Len(kept) : index[i] = kept[i]
    BY <1>6
  <1>8. ShownAlike(slots, lfs, slots, lfs, min, kept, index)
    BY <1>7 DEF ShownAlike
  <1>9. Joins(Filtered(slots, lfs, min, index, 0), Filtered(slots, lfs, min, kept, 0),
              Filtered(slots, lfs, min, index, Len(kept)))
    <2> HIDE DEF index
    <2> QED BY <1>7, <1>8, FilteredGrows
  <1>10. Filtered(slots, lfs, min, index, Len(kept)) \in Seq(Nat)
    <2>1. Len(kept) \in 0..Len(index) /\ (Len(kept) + 1)..Len(index) \subseteq Nat
      BY <1>7
    <2> HIDE DEF index
    <2>2. Filtered(slots, lfs, min, index, Len(kept)) \in Seq((Len(kept) + 1)..Len(index))
      BY <1>7, <2>1, FilteredType
    <2> QED BY <2>1, <2>2, SeqMonotonic
  <1> QED BY <1>1, <1>5, <1>7, <1>9, <1>10 DEF Joins, Behind

\* Under Calm the index and the shown rows are sequences.
LEMMA CalmShown ==
    ASSUME NEW slots, NEW lfs, NEW res, Calm(slots, lfs, res)
    PROVE  /\ lss_index \in Seq(Held(slots)) /\ Len(lss_index) \in Nat
           /\ lss_filtered_index \in Seq(1..Len(lss_index))
           /\ lss_filtered_index \in Seq((0 + 1)..Len(lss_index))
  <1>1. /\ lss_index \in Seq(Held(slots)) /\ Len(lss_index) \in Nat
        /\ lss_filtered_index = Filtered(slots, lfs, ttt_min_row_time, lss_index, 0)
    BY DEF Calm, Sorted
  <1>2. 0 \in 0..Len(lss_index) /\ 0 + 1 = 1
    BY <1>1
  <1> QED BY <1>1, <1>2, FilteredType

\* rebuild_index() does one of three things.
LEMMA RebuiltIs ==
    ASSUME disk \in [Files -> Seq(Line)], ba_capacity \in Nat,
           NEW slots, NEW force0 \in BOOLEAN, NEW lfs, NEW res, NEW timeLeft \in BOOLEAN,
           Ready(slots, force0, lfs, res, timeLeft),
           NEW out \in Rebuilt(slots, force0, lfs, res, timeLeft)
    PROVE  /\ out.capacity \in Nat
           /\ \/ Emptied(out, slots)
              \/ Unmoved(out, slots, force0, lfs, res)
              \/ Complete(out, slots, lfs) /\ Announced(out, slots, force0)
  <1> DEFINE open      == Open(slots)
             times(i)  == Times(slots[i].file, lfs[slots[i].file])
             size(i)   == Len(times(i))
             old       == IF force0 THEN << >> ELSE lss_index
             lost      == \E i \in DOMAIN slots \ open : slots[i].indexed > 0
             result(i) == IF res[i] = "NO_NEW_LINES" /\ slots[i].indexed < size(i)
                          THEN "NEW_LINES" ELSE res[i]
             changed   == { i \in open : result(i) = "NEW_LINES" }
             older     == { i \in changed :
                              /\ old # << >> /\ ~lost
                              /\ size(i) > slots[i].indexed
                              /\ times(i)[FirstNew(slots[i])]
                                   < RowTime(slots, lfs, old[Len(old)]) }
             ordered   == \A i \in open : slots[i].file \in TimeOrdered
             reordered == \E i \in open : result(i) \in {"NEW_ORDER", "INVALID"}
             total     == TotalLines(slots)
             full      == force0 \/ lost \/ reordered \/ Reserve(total)
             force     == full \/ (older # {} /\ ~ordered)
             retval    == Verdict(full, older # {} /\ ordered, changed # {})
             lowest    == Min({ times(i)[FirstNew(slots[i])] : i \in older })
             before    == [i \in DOMAIN slots |->
                             IF force THEN 0
                             ELSE IF retval = "partial" /\ i \in open
                                  THEN LowestLine(times(i), lowest)
                                  ELSE slots[i].indexed]
             rowsBefore == LowerBound(
                             [k \in DOMAIN old |->
                                RowTime(slots, lfs, old[k]) < lowest])
             shownBefore == LowerBound(
                             [k \in DOMAIN lss_filtered_index |->
                                RowTime(slots, lfs, old[lss_filtered_index[k]])
                                  < lowest])
             kept      == IF force THEN Forced(old)
                          ELSE IF retval = "partial" THEN SubSeq(old, 1, rowsBefore)
                          ELSE old
             keptShown == IF force THEN Forced(lss_filtered_index)
                          ELSE IF retval = "partial"
                               THEN SubSeq(lss_filtered_index, 1, shownBefore)
                          ELSE lss_filtered_index
             added     == { r \in open \X (1..MaxLines) :
                              /\ r[2] <= size(r[1])
                              /\ force \/ old = << >> \/ r[2] > before[r[1]] }
             same      == [files |-> slots, index |-> old,
                           filtered |-> lss_filtered_index, force |-> FALSE,
                           capacity |-> Capacity(total),
                           told |-> NotTold]
             late      == [same EXCEPT !.files = Indexed(slots, before),
                                       !.index = kept, !.filtered = keptShown,
                                       !.force = TRUE]
             done(new) == [same EXCEPT
                             !.files = Indexed(slots, [i \in DOMAIN slots |->
                                                  IF i \in open THEN size(i)
                                                                ELSE before[i]]),
                             !.index = kept \o new,
                             !.filtered =
                                 keptShown \o Filtered(slots, lfs, ttt_min_row_time,
                                                       kept \o new, Len(kept)),
                             !.told =
                                 [rr   |-> retval,
                                  from |-> SearchStart(retval, Len(keptShown),
                                                       Len(lss_filtered_index))]]
  <1>1. out \in IF kept = << >> /\ ~timeLeft THEN { late }
             ELSE IF retval = "none" THEN { same }
             ELSE { done(new) : new \in Collated(slots, lfs, added) }
    BY Zenon DEF Rebuilt
  <1>2. \/ kept = << >> /\ ~timeLeft /\ out = late
        \/ retval = "none" /\ out = same
        \/ /\ kept = << >> => timeLeft
           /\ retval # "none"
           /\ \E new \in Collated(slots, lfs, added) : out = done(new)
    <2> HIDE DEF kept, late, retval, same, done, added
    <2> QED BY <1>1
  <1>3. SlotsSound(slots) /\ FilesSound(lfs)
    BY DEF Ready
  <1>4. ASSUME NEW i \in open
        PROVE  /\ size(i) = Size(slots, lfs, i) /\ size(i) \in Nat /\ slots[i].indexed \in Nat
               /\ \A l : times(i)[l] = RowTime(slots, lfs, <<i, l>>)
               /\ \A l \in 1..size(i) : times(i)[l] \in Nat
    BY <1>3, SlotTimes, SlotParts DEF SlotsSound
  <1>5. Capacity(total) \in Nat
    <2>1. total \in Nat
      BY <1>3, TotalType DEF SlotsSound
    <2> QED BY <2>1, EnvAssumption DEF Capacity
  <1> HIDE DEF total, times, size
  <1>6. /\ same = [files |-> slots, index |-> old, filtered |-> lss_filtered_index,
                   force |-> FALSE, capacity |-> Capacity(total), told |-> NotTold]
        /\ late.files = Indexed(slots, before) /\ late.index = kept
        /\ late.filtered = keptShown /\ late.force = TRUE /\ late.capacity = Capacity(total)
    <2> HIDE DEF old, before, kept, keptShown
    <2> QED OBVIOUS
  <1>7. ASSUME NEW new
        PROVE  LET d == done(new)
               IN  /\ d.files = Indexed(slots, [i \in DOMAIN slots |->
                                         IF i \in open THEN size(i) ELSE before[i]])
                   /\ d.index = kept \o new /\ d.force = FALSE /\ d.capacity = Capacity(total)
                   /\ d.filtered = keptShown \o Filtered(slots, lfs, ttt_min_row_time,
                                                         kept \o new, Len(kept))
                   /\ d.told = [rr   |-> retval,
                                from |-> SearchStart(retval, Len(keptShown),
                                                     Len(lss_filtered_index))]
    <2> HIDE DEF old, before, kept, keptShown, retval, open
    <2> QED OBVIOUS
  <1> HIDE DEF same, late, done
  <1>8. ASSUME Skipped(slots, res) PROVE changed = {} /\ ~reordered
    BY <1>8 DEF Skipped
  <1>9. older \subseteq changed /\ changed \subseteq open
    OBVIOUS
  <1>10. /\ retval = "none" => ~full /\ changed = {}
         /\ retval \in {"full", "partial", "append", "none"}
         /\ retval = "partial" => ~full /\ older # {} /\ ordered
         /\ retval = "append" => ~full /\ changed # {} /\ ~(older # {} /\ ordered)
         /\ retval = "full" => full
    <2> HIDE DEF full, older, ordered, changed
    <2> QED BY DEF Verdict
  <1>11. ASSUME ~full
         PROVE  /\ ~force0 /\ ~lost /\ ~reordered /\ old = lss_index /\ Freed(slots)
                /\ \A i \in open : slots[i].indexed <= size(i)
                /\ \A i \in Open(slots) : slots[i].indexed <= Size(slots, lfs, i)
                /\ lss_index = << >> => Held(slots) = {} /\ lss_filtered_index = << >>
                /\ Skipped(slots, res) \/ (timeLeft /\ Calm(slots, lfs, res))
    <2>1. ~force0 /\ ~lost /\ ~reordered
      BY <1>11
    <2>2. /\ Freed(slots) /\ \A i \in Open(slots) : slots[i].indexed <= Size(slots, lfs, i)
          /\ lss_index = << >> => Held(slots) = {} /\ lss_filtered_index = << >>
      BY <2>1 DEF Ready
    <2>3. \A i \in open : slots[i].indexed <= size(i)
      BY <1>4, <2>2
    <2>4. ~ \E i \in Open(slots) : res[i] \in {"NEW_ORDER", "INVALID"}
      BY <2>1
    <2>5. Skipped(slots, res) \/ (timeLeft /\ Calm(slots, lfs, res))
      <3> HIDE DEF lost, reordered
      <3>1. ~force0
        BY <2>1
      <3> QED BY <2>4, <3>1, Zenon DEF Ready
    <2> QED BY <2>1, <2>2, <2>3, <2>5
  <1>12. CASE kept = << >> /\ ~timeLeft /\ out = late
    <2>1. Skipped(slots, res)
      BY <1>12 DEF Ready
    <2>2. older = {} /\ (force <=> full) /\ retval # "partial"
      BY <1>8, <1>9, <1>10, <2>1
    <2>3. before = [i \in DOMAIN slots |-> 0] /\ keptShown = << >>
      <3>1. CASE full
        <4> HIDE DEF full
        <4> QED BY <2>2, <3>1 DEF Forced
      <3>2. CASE ~full
        <4>1. ~force /\ retval # "partial"
          BY <2>2, <3>2
        <4> HIDE DEF full, force, retval
        <4>2. /\ kept = old /\ keptShown = lss_filtered_index
              /\ before = [i \in DOMAIN slots |-> slots[i].indexed]
          BY <4>1
        <4>3. old = lss_index /\ lss_index = << >>
          BY <1>11, <1>12, <3>2, <4>2
        <4>4. lss_filtered_index = << >> /\ Held(slots) = {}
          BY <1>11, <3>2, <4>3
        <4>5. ASSUME NEW i \in DOMAIN slots PROVE slots[i].indexed = 0
          <5>1. CASE i \in open
            BY <1>3, <1>4, <1>11, <3>2, <4>4, <5>1, NoneHeld
          <5>2. CASE i \notin open
            BY <1>11, <3>2, <5>2 DEF Freed
          <5> QED BY <5>1, <5>2
        <4> HIDE DEF before, keptShown
        <4> QED BY <4>2, <4>4, <4>5
      <3> QED BY <3>1, <3>2
    <2> HIDE DEF before, keptShown, kept, force, full
    <2>4. Emptied(out, slots)
      BY <1>6, <1>12, <2>3 DEF Emptied
    <2> QED BY <1>5, <1>6, <1>12, <2>4
  <1>13. CASE retval = "none" /\ out = same
    <2>1. ~full /\ changed = {}
      BY <1>10, <1>13
    <2>2. /\ ~force0 /\ old = lss_index
          /\ Skipped(slots, res) \/ (timeLeft /\ Calm(slots, lfs, res))
          /\ \A i \in open : slots[i].indexed <= size(i)
      BY <1>11, <2>1
    <2>3. ASSUME Calm(slots, lfs, res), NEW i \in Open(slots)
          PROVE  slots[i].indexed = Size(slots, lfs, i)
      <3>1. res[i] = "NO_NEW_LINES" \/ res[i] = "NEW_LINES"
        BY <2>3 DEF Calm
      <3>2. result(i) # "NEW_LINES"
        BY <2>1
      <3>3. ~(slots[i].indexed < size(i))
        BY <3>1, <3>2
      <3>4. slots[i].indexed <= size(i)
        BY <2>2
      <3> QED BY <1>4, <3>3, <3>4
    <2> HIDE DEF full, changed, retval, old
    <2>4. Unmoved(out, slots, force0, lfs, res)
      BY <1>6, <1>13, <2>2, <2>3 DEF Unmoved
    <2> QED BY <1>5, <1>6, <1>13, <2>4
  <1>14. ASSUME NEW new \in Collated(slots, lfs, added), out = done(new),
                kept = << >> => timeLeft, retval # "none"
         PROVE  /\ Complete(out, slots, lfs) /\ Announced(out, slots, force0)
                /\ out.capacity \in Nat
    <2>1. \A i \in DOMAIN slots \ open : before[i] = 0
      <3>1. CASE force
        <4> HIDE DEF force
        <4> QED BY <3>1
      <3>2. CASE ~force
        <4>1. Freed(slots)
          BY <1>11, <3>2
        <4> HIDE DEF force, open, lowest, retval
        <4>2. \A i \in DOMAIN slots \ open : before[i] = slots[i].indexed
          BY <3>2
        <4> QED BY <4>1, <4>2 DEF Freed, open
      <3> QED BY <3>1, <3>2
    <2>2. /\ \E K : /\ Parts(slots, lfs, AllRows(slots, lfs), K, added)
                    /\ Sorted(kept, slots, lfs, K)
                    /\ keptShown = Filtered(slots, lfs, ttt_min_row_time, kept, 0)
          /\ force \/ KeepsStart(kept, keptShown, retval)
      <3>1. CASE force
        <4>1. kept = << >> /\ keptShown = << >>
          <5> HIDE DEF force
          <5> QED BY <3>1 DEF Forced
        <4>2. added = AllRows(slots, lfs)
          <5> HIDE DEF force, old, before
          <5> QED BY <1>4, <3>1 DEF AllRows
        <4> HIDE DEF kept, keptShown, added
        <4>3. Sorted(<< >>, slots, lfs, {})
          BY DEF Sorted
        <4>4. Filtered(slots, lfs, ttt_min_row_time, << >>, 0) = << >>
          <5>1. Len(<< >>) = 0
            OBVIOUS
          <5> QED BY <5>1, FilteredEmpty
        <4>5. Parts(slots, lfs, AllRows(slots, lfs), {}, added)
          BY <4>2 DEF Parts
        <4> HIDE DEF force
        <4> QED BY <3>1, <4>1, <4>3, <4>4, <4>5
      <3>2. ASSUME ~force
            PROVE  /\ ~full /\ Calm(slots, lfs, res) /\ old = lss_index /\ changed # {} /\ ~lost
                   /\ retval = "partial" \/ retval = "append"
                   /\ older # {} <=> retval = "partial"
        <4>1. ~full /\ ~(older # {} /\ ~ordered)
          BY <3>2
        <4>2. retval = "partial" \/ retval = "append"
          BY <1>10, <1>14, <4>1
        <4>3. older # {} <=> retval = "partial"
          BY <1>10, <4>1, <4>2
        <4>4. changed # {}
          BY <1>9, <1>10, <4>2
        <4>5. ~Skipped(slots, res)
          BY <1>8, <4>4
        <4> HIDE DEF full, lost, changed
        <4> QED BY <1>11, <4>1, <4>2, <4>3, <4>4, <4>5
      <3>3. ASSUME ~force, NEW i \in open, slots[i].indexed < size(i)
            PROVE  i \in changed
        <4>1. res[i] \in {"NO_NEW_LINES", "NEW_LINES"}
          BY <3>2, <3>3 DEF Calm
        <4> QED BY <3>3, <4>1
      <3>4. ASSUME ~force, NEW i \in open, slots[i].indexed < size(i), i \notin older, old # << >>
            PROVE  RowTime(slots, lfs, old[Len(old)])
                     <= RowTime(slots, lfs, <<i, slots[i].indexed + 1>>)
        <4>1. i \in changed /\ ~lost /\ Calm(slots, lfs, res) /\ old = lss_index
          BY <3>2, <3>3, <3>4
        <4>2. ~(times(i)[FirstNew(slots[i])] < RowTime(slots, lfs, old[Len(old)]))
          <5>1. size(i) > slots[i].indexed
            BY <1>4, <3>4
          <5> DEFINE early == times(i)[FirstNew(slots[i])]
                               < RowTime(slots, lfs, old[Len(old)])
          <5>2. i \in older <=> /\ i \in changed /\ old # << >> /\ ~lost
                               /\ size(i) > slots[i].indexed /\ early
            <6> HIDE DEF changed, lost, old, early
            <6> QED BY DEF early
          <5> HIDE DEF changed, lost, old, older, early
          <5>3. ~early
            BY <3>4, <4>1, <5>1, <5>2
          <5> QED BY <5>3 DEF early, old
        <4>3. times(i)[FirstNew(slots[i])] = RowTime(slots, lfs, <<i, slots[i].indexed + 1>>)
          BY <1>4 DEF FirstNew
        <4>4. times(i)[FirstNew(slots[i])] \in Nat
          <5>1. FirstNew(slots[i]) \in 1..size(i)
            BY <1>4, <3>4 DEF FirstNew
          <5> QED BY <1>4, <5>1
        <4>5. RowTime(slots, lfs, old[Len(old)]) \in Nat
          <5>1. old \in Seq(Held(slots)) /\ old # << >>
            BY <3>4, <4>1 DEF Calm, Sorted
          <5> HIDE DEF old
          <5>2. old[Len(old)] \in Held(slots)
            BY <5>1
          <5> QED BY <1>3, <1>11, <3>2, <3>4, <5>2, HeldTimes
        <4> QED BY <4>2, <4>3, <4>4, <4>5
      <3>5. CASE ~force /\ retval = "append"
        <4> DEFINE K == Held(slots)
        <4>1. /\ Calm(slots, lfs, res) /\ old = lss_index /\ older = {}
              /\ \A i \in Open(slots) : slots[i].indexed <= Size(slots, lfs, i)
              /\ lss_index = << >> => K = {}
          BY <1>11, <3>2, <3>5
        <4>2. /\ kept = old /\ keptShown = lss_filtered_index
              /\ before = [i \in DOMAIN slots |-> slots[i].indexed]
          <5> HIDE DEF force, retval, lowest, old, open
          <5> QED BY <3>5
        <4>3. Sorted(kept, slots, lfs, K) /\ keptShown = Filtered(slots, lfs, ttt_min_row_time, kept, 0)
          <5> HIDE DEF kept, keptShown, old
          <5> QED BY <4>1, <4>2 DEF Calm
        <4>4. added = RowsBehind(slots, lfs)
          <5>1. ASSUME NEW x \in open \X (1..MaxLines)
                PROVE  x \in added <=> x \in RowsBehind(slots, lfs)
            <6>1. x[1] \in open /\ x[2] \in 1..MaxLines /\ slots[x[1]].indexed \in Nat /\ x[1] \in DOMAIN slots
              BY <1>4, SlotParts DEF Open
            <6>2. before[x[1]] = slots[x[1]].indexed
              <7> HIDE DEF before
              <7> QED BY <4>2, <6>1
            <6>3. old = << >> => slots[x[1]].indexed = 0
              BY <1>3, <4>1, <6>1, NoneHeld
            <6>4. x \in RowsBehind(slots, lfs) <=> x[2] <= size(x[1]) /\ x[2] > slots[x[1]].indexed
              BY <1>4, <6>1 DEF RowsBehind, AllRows
            <6> HIDE DEF force, old, before, open
            <6> QED BY <3>5, <6>1, <6>2, <6>3, <6>4
          <5>2. added \subseteq open \X (1..MaxLines) /\ RowsBehind(slots, lfs) \subseteq open \X (1..MaxLines)
            <6> HIDE DEF force, old, before
            <6> QED BY DEF RowsBehind, AllRows
          <5> HIDE DEF added, open
          <5> QED BY <5>1, <5>2
        <4>5. ASSUME NEW i \in Open(slots), slots[i].indexed < Size(slots, lfs, i)
              PROVE  /\ old # << >> =>
                           RowTime(slots, lfs, old[Len(old)])
                             <= RowTime(slots, lfs, <<i, slots[i].indexed + 1>>)
                     /\ \A l \in (slots[i].indexed + 1)..Size(slots, lfs, i) :
                           RowTime(slots, lfs, <<i, slots[i].indexed + 1>>)
                             <= RowTime(slots, lfs, <<i, l>>)
          <5>1. slots[i].indexed < size(i) /\ i \notin older
            BY <1>4, <4>1, <4>5
          <5> HIDE DEF force, older, old
          <5>2. old # << >> => RowTime(slots, lfs, old[Len(old)])
                             <= RowTime(slots, lfs, <<i, slots[i].indexed + 1>>)
            BY <3>4, <3>5, <5>1
          <5> QED BY <4>1, <5>2 DEF Calm
        <4> HIDE DEF kept, keptShown, added, old
        <4>6. Parts(slots, lfs, AllRows(slots, lfs), K, RowsBehind(slots, lfs))
          BY <1>3, <4>1, <4>2, <4>3, <4>5, AppendParts
        <4>7. lss_index \in Seq(Held(slots)) /\ Len(lss_index) \in Nat
              /\ lss_filtered_index \in Seq((0 + 1)..Len(lss_index))
          BY <4>1, CalmShown
        <4>8. Begins(kept, lss_index) /\ Begins(keptShown, lss_filtered_index)
          BY <4>1, <4>2, <4>7, BeginsAll
        <4> HIDE DEF retval, force
        <4>9. KeepsStart(kept, keptShown, retval)
          BY <3>5, <4>2, <4>8 DEF KeepsStart
        <4> QED BY <4>3, <4>4, <4>6, <4>9
      <3>6. CASE ~force /\ retval = "partial"
        <4> DEFINE T == { times(i)[FirstNew(slots[i])] : i \in older }
                   K == { x \in Held(slots) : RowTime(slots, lfs, x) < lowest }
        <4>1. /\ Calm(slots, lfs, res) /\ old = lss_index /\ older # {} /\ ordered
              /\ \A i \in Open(slots) : slots[i].indexed <= Size(slots, lfs, i)
          BY <1>10, <1>11, <3>2, <3>6
        <4>2. ASSUME NEW i \in older
              PROVE  /\ i \in open /\ old # << >> /\ slots[i].indexed < size(i)
                     /\ times(i)[FirstNew(slots[i])] \in Nat
                     /\ times(i)[FirstNew(slots[i])] = RowTime(slots, lfs, <<i, slots[i].indexed + 1>>)
                     /\ times(i)[FirstNew(slots[i])] < RowTime(slots, lfs, old[Len(old)])
          <5>1. /\ i \in open /\ old # << >> /\ size(i) > slots[i].indexed
                /\ times(i)[FirstNew(slots[i])] < RowTime(slots, lfs, old[Len(old)])
            <6> HIDE DEF old, lost
            <6> QED OBVIOUS
          <5>2. slots[i].indexed < size(i) /\ FirstNew(slots[i]) \in 1..size(i)
            <6> HIDE DEF older, changed, old, lowest, open
            <6>1. slots[i].indexed \in Nat /\ size(i) \in Nat
              BY <1>4, <5>1
            <6> QED BY <5>1, <6>1 DEF FirstNew
          <5>3. /\ times(i)[FirstNew(slots[i])] \in Nat
                /\ times(i)[FirstNew(slots[i])] = RowTime(slots, lfs, <<i, slots[i].indexed + 1>>)
            BY <1>4, <5>1, <5>2 DEF FirstNew
          <5> QED BY <5>1, <5>2, <5>3
        <4>3. lowest \in Nat /\ lowest \in T /\ \A t \in T : lowest <= t
          <5>1. lowest = Min(T)
            OBVIOUS
          <5> HIDE DEF older
          <5>2. T \in SUBSET Nat /\ T # {}
            BY <4>1, <4>2
          <5> HIDE DEF T, lowest
          <5> QED BY <5>1, <5>2, MinIs
        <4>4. ASSUME NEW i \in Open(slots), slots[i].indexed < Size(slots, lfs, i)
              PROVE  lowest <= RowTime(slots, lfs, <<i, slots[i].indexed + 1>>)
          <5> DEFINE at == RowTime(slots, lfs, <<i, slots[i].indexed + 1>>)
                     end == RowTime(slots, lfs, old[Len(old)])
          <5> SUFFICES lowest <= at
            OBVIOUS
          <5>1. slots[i].indexed < size(i) /\ slots[i].indexed + 1 \in 1..size(i)
            BY <1>4, <4>4
          <5>2. at \in Nat
            BY <1>4, <5>1
          <5>3. CASE i \in older
            <6>1. at \in T
              <7> HIDE DEF older
              <7> QED BY <4>2, <5>3
            <6> HIDE DEF at, T, lowest
            <6> QED BY <4>3, <6>1
          <5>4. CASE i \notin older
            <6>1. PICK j \in older : TRUE
              BY <4>1
            <6> HIDE DEF older
            <6>2. /\ old # << >> /\ times(j)[FirstNew(slots[j])] < end
                  /\ times(j)[FirstNew(slots[j])] \in Nat
              BY <4>2
            <6>3. lowest <= times(j)[FirstNew(slots[j])]
              <7> HIDE DEF lowest
              <7> QED BY <4>3
            <6>4. end \in Nat
              <7>1. old \in Seq(Held(slots))
                BY <4>1 DEF Calm, Sorted
              <7> HIDE DEF old
              <7>2. old[Len(old)] \in Held(slots)
                BY <6>2, <7>1
              <7> QED BY <1>3, <4>1, <7>2, HeldTimes
            <6>5. end <= at
              <7> HIDE DEF force, old
              <7> QED BY <3>4, <3>6, <5>1, <5>4, <6>2
            <6> HIDE DEF at, end, lowest
            <6> QED BY <4>3, <5>2, <6>2, <6>3, <6>4, <6>5
          <5> QED BY <5>3, <5>4
        <4>5. Parts(slots, lfs, AllRows(slots, lfs), K, RowsFrom(slots, lfs, lowest))
          <5> HIDE DEF lowest
          <5> QED BY <1>3, <4>1, <4>3, <4>4, PartialParts
        <4>6. added = RowsFrom(slots, lfs, lowest)
          <5>1. old # << >>
            BY <4>1, <4>2
          <5>2. ASSUME NEW x \in open \X (1..MaxLines)
                PROVE  x \in added <=> x \in RowsFrom(slots, lfs, lowest)
            <6>1. x[1] \in open /\ x[2] \in 1..MaxLines /\ x[1] \in DOMAIN slots
              BY DEF Open
            <6>2. before[x[1]] = LowestLine(times(x[1]), lowest)
              <7> HIDE DEF force, retval, lowest, open
              <7> QED BY <3>6, <6>1
            <6>3. x \in RowsFrom(slots, lfs, lowest)
                    <=> x[2] <= size(x[1]) /\ x[2] > LowestLine(times(x[1]), lowest)
              <7> HIDE DEF lowest
              <7> QED BY <1>4, <6>1 DEF RowsFrom, AllRows, times
            <6> HIDE DEF force, old, before, open, lowest
            <6> QED BY <3>6, <5>1, <6>1, <6>2, <6>3
          <5>3. added \subseteq open \X (1..MaxLines)
                /\ RowsFrom(slots, lfs, lowest) \subseteq open \X (1..MaxLines)
            <6> HIDE DEF force, old, before, lowest
            <6> QED BY DEF RowsFrom, AllRows
          <5> HIDE DEF added, open, lowest
          <5> QED BY <5>2, <5>3
        <4>7. /\ kept = SubSeq(old, 1, RowsBefore(slots, lfs, old, lowest))
              /\ keptShown = SubSeq(lss_filtered_index, 1,
                                    ShownBefore(slots, lfs, old, lss_filtered_index, lowest))
          <5>1. /\ rowsBefore = RowsBefore(slots, lfs, old, lowest)
                /\ shownBefore = ShownBefore(slots, lfs, old, lss_filtered_index, lowest)
            <6> HIDE DEF old, lowest
            <6> QED BY DEF RowsBefore, ShownBefore
          <5> HIDE DEF force, retval, rowsBefore, shownBefore, old, lowest
          <5> QED BY <3>6, <5>1
        <4>8. Sorted(kept, slots, lfs, K)
          <5>1. Sorted(old, slots, lfs, Held(slots))
            BY <4>1 DEF Calm
          <5>2. \A x \in Held(slots) : RowTime(slots, lfs, x) \in Nat
            BY <1>3, <4>1, HeldTimes
          <5> HIDE DEF old, lowest, kept, keptShown
          <5>3. Sorted(SubSeq(old, 1, RowsBefore(slots, lfs, old, lowest)), slots, lfs, K)
            BY <4>3, <5>1, <5>2, SortedCut
          <5> QED BY <4>7, <5>3
        <4>9. keptShown = Filtered(slots, lfs, ttt_min_row_time, kept, 0)
          <5>1. /\ Sorted(old, slots, lfs, Held(slots))
                /\ RowsShown(lss_filtered_index, slots, lfs, ttt_min_row_time, old)
            BY <4>1 DEF Calm, RowsShown
          <5>2. \A x \in Held(slots) : RowTime(slots, lfs, x) \in Nat
            BY <1>3, <4>1, HeldTimes
          <5> HIDE DEF old, lowest, kept, keptShown
          <5>3. RowsShown(SubSeq(lss_filtered_index, 1,
                                 ShownBefore(slots, lfs, old, lss_filtered_index, lowest)),
                          slots, lfs, ttt_min_row_time,
                          SubSeq(old, 1, RowsBefore(slots, lfs, old, lowest)))
            BY <4>3, <5>1, <5>2, FilteredCut
          <5> QED BY <4>7, <5>3 DEF RowsShown
        <4>10. KeepsStart(kept, keptShown, retval)
          <5>1. /\ Sorted(old, slots, lfs, Held(slots))
                /\ RowsShown(lss_filtered_index, slots, lfs, ttt_min_row_time, old)
            BY <4>1 DEF Calm, RowsShown
          <5>2. \A x \in Held(slots) : RowTime(slots, lfs, x) \in Nat
            BY <1>3, <4>1, HeldTimes
          <5>3. old = lss_index
            BY <4>1
          <5> HIDE DEF old, lowest, kept, keptShown
          <5>4. /\ ShownBefore(slots, lfs, old, lss_filtered_index, lowest)
                      \in 0..Len(lss_filtered_index)
                /\ RowsBefore(slots, lfs, old, lowest) \in 0..Len(old)
            BY <4>3, <5>1, <5>2, FilteredCut, SortedCut
          <5>5. Begins(kept, lss_index) /\ Begins(keptShown, lss_filtered_index)
            BY <4>7, <5>3, <5>4 DEF Begins
          <5> HIDE DEF retval, force
          <5> QED BY <3>6, <5>5 DEF KeepsStart
        <4> HIDE DEF kept, keptShown, added, lowest, retval, force
        <4> QED BY <4>5, <4>6, <4>8, <4>9, <4>10
      <3> QED BY <3>1, <3>2, <3>5, <3>6
    <2> HIDE DEF before, kept, keptShown, added
    <2>3. [i \in DOMAIN slots |-> IF i \in open THEN size(i) ELSE before[i]]
            = [i \in DOMAIN slots |-> IF i \in Open(slots) THEN Size(slots, lfs, i) ELSE 0]
      BY <1>4, <2>1
    <2>4. /\ Sorted(kept \o new, slots, lfs, AllRows(slots, lfs))
          /\ keptShown \o Filtered(slots, lfs, ttt_min_row_time, kept \o new, Len(kept))
               = Filtered(slots, lfs, ttt_min_row_time, kept \o new, 0)
          /\ Filtered(slots, lfs, ttt_min_row_time, kept \o new, Len(kept)) \in Seq(Nat)
          /\ \A i \in 1..Len(kept) : (kept \o new)[i] = kept[i]
      <3>1. PICK K : /\ Parts(slots, lfs, AllRows(slots, lfs), K, added)
                     /\ Sorted(kept, slots, lfs, K)
                     /\ keptShown = Filtered(slots, lfs, ttt_min_row_time, kept, 0)
        BY <2>2
      <3>2. Behind(slots, lfs, ttt_min_row_time, kept, new)
        BY <1>3, <1>14, <3>1, Continued
      <3> QED BY <3>1, <3>2 DEF Behind
    <2>5. out.index = kept \o new
      BY <1>7, <1>14
    <2>6. Complete(out, slots, lfs)
      BY <1>7, <1>14, <2>3, <2>4 DEF Complete
    <2>7. out.told = [rr |-> retval, from |-> SearchStart(retval, Len(keptShown),
                                                         Len(lss_filtered_index))]
      BY <1>7, <1>14
    <2>8. ASSUME ordered PROVE out.told.rr # "none"
                               /\ (out.told.from = 0
                                     \/ (~force0 /\ StartKept(out, out.told.from)))
      <3>1. CASE force
        <4>1. full
          BY <2>8, <3>1
        <4> HIDE DEF full
        <4>2. retval = "full"
          BY <4>1 DEF Verdict
        <4> HIDE DEF retval
        <4> QED BY <2>7, <4>2 DEF SearchStart
      <3>2. CASE ~force
        <4>1. KeepsStart(kept, keptShown, retval)
          <5> HIDE DEF force
          <5> QED BY <2>2, <3>2
        <4>2. ~full /\ ~force0 /\ changed # {}
          <5>1. ~full
            BY <3>2
          <5>2. retval \in {"partial", "append"}
            BY <4>1 DEF KeepsStart
          <5> HIDE DEF retval, full, changed
          <5>3. changed # {}
            BY <1>9, <1>10, <5>2
          <5> QED BY <1>11, <5>1, <5>3
        <4>3. Calm(slots, lfs, res)
          <5> HIDE DEF full, changed
          <5> QED BY <1>8, <1>11, <4>2
        <4>4. /\ lss_index \in Seq(Held(slots)) /\ Len(lss_index) \in Nat
              /\ lss_filtered_index \in Seq(1..Len(lss_index))
          BY <4>3, CalmShown
        <4>5. PICK K : /\ Sorted(kept, slots, lfs, K)
                       /\ keptShown = Filtered(slots, lfs, ttt_min_row_time, kept, 0)
          BY <2>2
        <4>6. kept \in Seq(K) /\ Len(kept) \in Nat
          BY <4>5 DEF Sorted
        <4>7. keptShown \in Seq(1..Len(kept))
          <5>1. 0 \in 0..Len(kept) /\ (0 + 1) = 1
            BY <4>6
          <5> QED BY <4>5, <4>6, <5>1, FilteredType
        <4>8. StartKept(out, Len(keptShown))
          <5> DEFINE more == Filtered(slots, lfs, ttt_min_row_time, kept \o new, Len(kept))
          <5>1. out.filtered = keptShown \o more
            BY <1>7, <1>14
          <5>2. more \in Seq(Nat) /\ \A i \in 1..Len(kept) : out.index[i] = kept[i]
            BY <2>4, <2>5
          <5> HIDE DEF more, retval
          <5> QED BY <4>1, <4>4, <4>6, <4>7, <5>1, <5>2, StartSame
        <4> HIDE DEF retval, force
        <4>9. Len(keptShown) = SearchStart(retval, Len(keptShown), Len(lss_filtered_index))
              /\ retval # "none"
          BY <4>1 DEF KeepsStart, SearchStart
        <4> QED BY <2>7, <4>2, <4>8, <4>9
      <3> QED BY <3>1, <3>2
    <2>9. Announced(out, slots, force0)
      <3> HIDE DEF force
      <3> QED BY <2>8 DEF Announced
    <2> QED BY <1>5, <1>7, <1>14, <2>6, <2>9
  <1> QED BY <1>2, <1>12, <1>13, <1>14

-----------------------------------------------------------------------------
(* The invariant.                                                          *)

\* No shifted file waits to be sorted.
Quiet(lfs) == \A f \in Files : ~lfs[f].sort

\* The rows of an index are these rows, each once.
Exactly(index, rows) ==
    /\ index \in Seq(rows)
    /\ \A r \in rows : \E i \in 1..Len(index) : index[i] = r
    /\ \A i, j \in 1..Len(index) : index[i] = index[j] => i = j

\* The rows of an index are in time order.
InTime(index, slots, lfs) ==
    \A i, j \in 1..Len(index) :
        i < j => RowTime(slots, lfs, index[i]) <= RowTime(slots, lfs, index[j])

\* The slots count every line that has been scanned, or none of the first line of
\* a file that was promoted while the view was paused; nothing is counted while
\* the index waits to be redone.
Caught(slots, lfs, index, force) ==
    IF force THEN index = << >> /\ \A i \in DOMAIN slots : slots[i].indexed = 0
    ELSE \A i \in Open(slots) :
            LET n == Size(slots, lfs, i)
            IN  slots[i].indexed = n \/ (slots[i].indexed = 0 /\ n = 1)

\* The index with the slots and the logfiles it is of.
IndexSound(slots, lfs, index, filtered, force, min) ==
    /\ SlotsSound(slots) /\ Freed(slots) /\ force \in BOOLEAN
    /\ Exactly(index, Held(slots))
    /\ filtered \in Seq(1..Len(index))
    /\ Caught(slots, lfs, index, force)
    /\ Quiet(lfs) => InTime(index, slots, lfs)
    /\ Quiet(lfs) /\ ~force => RowsShown(filtered, slots, lfs, min, index)

\* The file has a slot.
InSlot(slots, f) == \E i \in DOMAIN slots : slots[i].file = f

\* A logfile, what is on disk, and whether it has a slot: an open file has read
\* the beginning of what was written; a file without a slot has nothing to index.
FileSound(rec, written, has) ==
    /\ rec \in LogFile /\ written \in Seq(Line)
    /\ Len(written) <= MaxLines /\ Len(rec.seen) <= MaxLines
    /\ rec.offset \in {0, 1}
    /\ rec.state = "ok" =>
          /\ Len(rec.seen) <= Len(written)
          /\ \A l \in 1..Len(rec.seen) : rec.seen[l].ts = written[l].ts
    /\ ~has => rec.state \in {"ok", "absent"} /\ rec.seen = << >> /\ ~rec.sort
    /\ has => rec.state # "absent" /\ rec.seen # << >>
    /\ rec.sort => "adjust" \in Env
    /\ rec.state = "truncated" => "truncate" \in Env

\* The logfiles and what is on disk.
FilesInv(lfs, slots) ==
    /\ DOMAIN lfs = Files /\ lfs = [f \in Files |-> lfs[f]]
    /\ \A f \in Files : FileSound(lfs[f], disk[f], InSlot(slots, f))

\* The inductive invariant.
Inv ==
    /\ disk \in [Files -> Seq(Line)]
    /\ FilesInv(lf, lss_files)
    /\ IndexSound(lss_files, lf, lss_index, lss_filtered_index, lss_force_rebuild,
                  ttt_min_row_time)
    /\ ba_capacity \in Nat /\ ttt_min_row_time \in Nat

\* The logfiles of a sound state.
LEMMA FilesAre ==
    ASSUME NEW lfs, NEW slots, FilesInv(lfs, slots)
    PROVE  FilesSound(lfs)
  BY DEF FilesInv, FileSound, FilesSound

\* An index in order.
LEMMA SortedIs ==
    ASSUME NEW index, NEW slots, NEW lfs, NEW rows
    PROVE  Sorted(index, slots, lfs, rows) <=> Exactly(index, rows) /\ InTime(index, slots, lfs)
  BY DEF Sorted, Exactly, InTime

\* Slots with the same files, whichever lines they count.
Alike(slots, more) ==
    /\ DOMAIN more = DOMAIN slots
    /\ \A i \in DOMAIN slots : more[i].file = slots[i].file /\ more[i].visible = slots[i].visible

\* New counts change nothing else.
LEMMA IndexedIs ==
    ASSUME NEW slots \in Seq(Slot), NEW counts, \A i \in DOMAIN slots : counts[i] \in Nat
    PROVE  LET more == Indexed(slots, counts)
           IN  /\ more \in Seq(Slot) /\ Alike(slots, more) /\ Open(more) = Open(slots)
               /\ \A i \in DOMAIN slots : more[i].indexed = counts[i]
  <1> DEFINE more == Indexed(slots, counts)
  <1>1. ASSUME NEW i \in DOMAIN slots
        PROVE  /\ more[i] \in Slot /\ more[i].file = slots[i].file
               /\ more[i].visible = slots[i].visible /\ more[i].indexed = counts[i]
    <2>1. slots[i] \in Slot
      OBVIOUS
    <2>2. more[i] = [slots[i] EXCEPT !.indexed = counts[i]]
      BY DEF Indexed
    <2> QED BY <2>1, <2>2 DEF Slot
  <1>2. DOMAIN more = DOMAIN slots /\ DOMAIN slots = 1..Len(slots) /\ Len(slots) \in Nat
    BY DEF Indexed
  <1>3. more = [i \in 1..Len(slots) |-> more[i]]
    BY <1>2 DEF Indexed
  <1> HIDE DEF more
  <1>4. more \in Seq(Slot)
    BY <1>1, <1>2, <1>3
  <1>5. Open(more) = Open(slots)
    BY <1>1, <1>2 DEF Open
  <1> QED BY <1>1, <1>2, <1>4, <1>5 DEF Alike, more

\* The rows of slots that are alike have the same times and are shown alike.
LEMMA AlikeRows ==
    ASSUME NEW slots, NEW more, Alike(slots, more), NEW lfs, NEW min, NEW r, r[1] \in DOMAIN slots
    PROVE  /\ RowTime(more, lfs, r) = RowTime(slots, lfs, r)
           /\ Shown(more, lfs, min, r) <=> Shown(slots, lfs, min, r)
  <1>1. RowTime(more, lfs, r) = RowTime(slots, lfs, r)
    BY DEF Alike, RowTime
  <1> QED BY <1>1 DEF Alike, Shown

\* Rows that have the same time, and are as visible, in two states.
SameRows(slots, lfs, slots2, lfs2, rows) ==
    \A r \in rows : /\ RowTime(slots2, lfs2, r) = RowTime(slots, lfs, r)
                    /\ slots2[r[1]].visible <=> slots[r[1]].visible

\* What is in order, and what is shown, stays so while the rows are the same.
LEMMA Transfer ==
    ASSUME NEW rows, NEW index \in Seq(rows), NEW slots, NEW lfs, NEW slots2, NEW lfs2,
           SameRows(slots, lfs, slots2, lfs2, rows), NEW min, NEW filtered
    PROVE  /\ InTime(index, slots, lfs) => InTime(index, slots2, lfs2)
           /\ RowsShown(filtered, slots, lfs, min, index)
                => RowsShown(filtered, slots2, lfs2, min, index)
  <1>1. Len(index) \in Nat /\ \A i \in 1..Len(index) : index[i] \in rows
    OBVIOUS
  <1>2. InTime(index, slots, lfs) => InTime(index, slots2, lfs2)
    BY <1>1 DEF InTime, SameRows
  <1>3. ShownAlike(slots, lfs, slots2, lfs2, min, index, index)
    BY <1>1 DEF ShownAlike, Shown, SameRows
  <1>4. Filtered(slots2, lfs2, min, index, 0) = Filtered(slots, lfs, min, index, 0)
    BY <1>1, <1>3, FilteredSame
  <1> QED BY <1>2, <1>4 DEF RowsShown

\* Slots that are alike have the same rows.
LEMMA AlikeSame ==
    ASSUME NEW slots, NEW more, Alike(slots, more), NEW lfs,
           NEW rows, \A r \in rows : r[1] \in DOMAIN slots
    PROVE  SameRows(slots, lfs, more, lfs, rows)
  <1> SUFFICES ASSUME NEW r \in rows
               PROVE  /\ RowTime(more, lfs, r) = RowTime(slots, lfs, r)
                      /\ more[r[1]].visible <=> slots[r[1]].visible
    BY DEF SameRows
  <1>1. r[1] \in DOMAIN slots
    OBVIOUS
  <1>2. RowTime(more, lfs, r) = RowTime(slots, lfs, r)
    BY <1>1, AlikeRows
  <1>3. more[r[1]].visible = slots[r[1]].visible
    BY <1>1 DEF Alike
  <1> QED BY <1>2, <1>3

\* A complete index is sound.
LEMMA CompleteSound ==
    ASSUME NEW slots, SlotsSound(slots), NEW lfs, FilesSound(lfs), NEW r,
           Complete(r, slots, lfs)
    PROVE  IndexSound(r.files, lfs, r.index, r.filtered, r.force, ttt_min_row_time)
  <1> DEFINE counts == [i \in DOMAIN slots |->
                          IF i \in Open(slots) THEN Size(slots, lfs, i) ELSE 0]
             more == Indexed(slots, counts)
             rows == AllRows(slots, lfs)
             index == r.index
  <1>1. slots \in Seq(Slot) /\ \A i, j \in Open(slots) : slots[i].file = slots[j].file => i = j
    BY DEF SlotsSound
  <1>2. \A i \in DOMAIN slots : counts[i] \in Nat
    BY SlotTimes
  <1> HIDE DEF counts
  <1>3. /\ more \in Seq(Slot) /\ Alike(slots, more) /\ Open(more) = Open(slots)
        /\ \A i \in DOMAIN slots : more[i].indexed = counts[i]
    BY <1>1, <1>2, IndexedIs
  <1>4. r.files = more /\ r.force = FALSE /\ Sorted(index, slots, lfs, rows)
        /\ RowsShown(r.filtered, slots, lfs, ttt_min_row_time, index)
    BY DEF Complete, counts, RowsShown
  <1> HIDE DEF more, index
  <1>5. DOMAIN more = DOMAIN slots /\ \A i \in DOMAIN slots : more[i].file = slots[i].file
    BY <1>3 DEF Alike
  <1>6. Open(slots) \subseteq DOMAIN slots
    BY DEF Open
  <1>7. \A i \in Open(slots) : more[i].indexed = Size(slots, lfs, i) /\ Size(more, lfs, i) = Size(slots, lfs, i)
    BY <1>3, <1>5, <1>6 DEF counts, Size
  <1>8. SlotsSound(more) /\ Freed(more)
    <2>1. SlotsSound(more)
      BY <1>1, <1>3, <1>5, <1>6 DEF SlotsSound
    <2>2. \A i \in DOMAIN slots \ Open(slots) : more[i].indexed = 0
      BY <1>3 DEF counts
    <2> QED BY <1>3, <1>5, <2>1, <2>2 DEF Freed
  <1>9. Held(more) = rows
    BY <1>3, <1>7 DEF Held, AllRows
  <1>10. Exactly(index, Held(more)) /\ InTime(index, slots, lfs) /\ index \in Seq(rows)
    BY <1>4, <1>9, SortedIs DEF Exactly
  <1>11. SameRows(slots, lfs, more, lfs, rows)
    <2>1. \A x \in rows : x[1] \in DOMAIN slots
      BY <1>6 DEF AllRows
    <2> HIDE DEF rows
    <2> QED BY <1>3, <2>1, AlikeSame
  <1>12. InTime(index, more, lfs) /\ RowsShown(r.filtered, more, lfs, ttt_min_row_time, index)
    <2> HIDE DEF rows
    <2> QED BY <1>4, <1>10, <1>11, Transfer
  <1>13. r.filtered \in Seq(1..Len(index))
    <2>1. Len(index) \in Nat /\ 0 \in 0..Len(index)
      <3> HIDE DEF rows
      <3> QED BY <1>10
    <2>2. Filtered(slots, lfs, ttt_min_row_time, index, 0) \in Seq((0 + 1)..Len(index))
      BY <2>1, FilteredType
    <2>3. (0 + 1)..Len(index) = 1..Len(index)
      OBVIOUS
    <2> QED BY <1>4, <2>2, <2>3 DEF RowsShown
  <1>14. Caught(more, lfs, index, FALSE)
    BY <1>3, <1>7 DEF Caught
  <1> HIDE DEF rows
  <1>15. IndexSound(more, lfs, index, r.filtered, FALSE, ttt_min_row_time)
    BY <1>8, <1>10, <1>12, <1>13, <1>14 DEF IndexSound
  <1> QED BY <1>4, <1>15 DEF index

\* So is an emptied one.
LEMMA EmptiedSound ==
    ASSUME NEW slots, SlotsSound(slots), NEW lfs, FilesSound(lfs), NEW r, Emptied(r, slots)
    PROVE  IndexSound(r.files, lfs, r.index, r.filtered, r.force, ttt_min_row_time)
  <1> DEFINE counts == [i \in DOMAIN slots |-> 0]
             more == Indexed(slots, counts)
  <1>1. slots \in Seq(Slot) /\ \A i, j \in Open(slots) : slots[i].file = slots[j].file => i = j
    BY DEF SlotsSound
  <1>2. \A i \in DOMAIN slots : counts[i] \in Nat /\ counts[i] = 0
    OBVIOUS
  <1> HIDE DEF counts
  <1>3. /\ more \in Seq(Slot) /\ Alike(slots, more) /\ Open(more) = Open(slots)
        /\ \A i \in DOMAIN slots : more[i].indexed = counts[i]
    BY <1>1, <1>2, IndexedIs
  <1>4. r.files = more /\ r.force = TRUE /\ r.index = << >> /\ r.filtered = << >>
    BY DEF Emptied, counts
  <1> HIDE DEF more
  <1>5. DOMAIN more = DOMAIN slots /\ \A i \in DOMAIN slots : more[i].file = slots[i].file
    BY <1>3 DEF Alike
  <1>6. Open(slots) \subseteq DOMAIN slots
    BY DEF Open
  <1>7. \A i \in DOMAIN more : more[i].indexed = 0
    BY <1>2, <1>3, <1>5
  <1>8. SlotsSound(more) /\ Freed(more)
    BY <1>1, <1>3, <1>5, <1>6, <1>7 DEF SlotsSound, Freed
  <1>9. Held(more) = {}
    <2>1. \A x \in Open(more) \X (1..MaxLines) : ~(x[2] <= more[x[1]].indexed)
      BY <1>3, <1>5, <1>6, <1>7
    <2> QED BY <2>1 DEF Held
  <1>10. /\ Exactly(<< >>, Held(more)) /\ InTime(<< >>, more, lfs) /\ << >> \in Seq(1..Len(<< >>))
    BY <1>9 DEF Exactly, InTime
  <1>11. Caught(more, lfs, << >>, TRUE)
    BY <1>7 DEF Caught
  <1> QED BY <1>4, <1>8, <1>10, <1>11 DEF IndexSound

-----------------------------------------------------------------------------
(* The slots of a pass.                                                    *)

\* The slot of a file that is promoted.
NewSlot(p) == [file |-> p, indexed |-> 0, visible |-> TRUE]

\* What promoting p and removing the files in gone makes of the slots.
Slotted(slots, more, p, gone) ==
    /\ SlotsSound(more)
    /\ \A i \in Open(more) :
          \/ i \in Open(slots) /\ more[i] = slots[i]
          \/ p # NoFile /\ more[i] = NewSlot(p)
    /\ \A f \in Files : InSlot(more, f) <=> f \notin gone /\ (f = p \/ InSlot(slots, f))
    /\ gone = {} => /\ Freed(slots) => Freed(more)
                    /\ \A i \in Open(slots) : i \in Open(more) /\ more[i] = slots[i]

\* The promoted file gets a slot that was free or a new one.
LEMMA Inserted ==
    ASSUME NEW slots, SlotsSound(slots), NEW f \in Files, ~InSlot(slots, f)
    PROVE  LET more == InsertFile(slots, f)
           IN  /\ SlotsSound(more)
               /\ \E k \in DOMAIN more :
                    /\ k \notin Open(slots) /\ more[k] = NewSlot(f)
                    /\ DOMAIN slots \subseteq DOMAIN more
                    /\ \A i \in DOMAIN more \ {k} : i \in DOMAIN slots /\ more[i] = slots[i]
  <1> DEFINE ld == NewSlot(f)
             free == DOMAIN slots \ Open(slots)
             more == InsertFile(slots, f)
             n == Len(slots)
  <1>1. /\ slots \in Seq(Slot) /\ n \in Nat /\ DOMAIN slots = 1..n
        /\ \A i, j \in Open(slots) : slots[i].file = slots[j].file => i = j
    BY DEF SlotsSound
  <1>2. more = IF free = {} THEN Append(slots, ld) ELSE [slots EXCEPT ![Min(free)] = ld]
    BY DEF InsertFile, NewSlot
  <1>3. ld \in Slot /\ ld.file = f /\ f # NoFile
    BY EnvAssumption DEF NewSlot, Slot
  <1> HIDE DEF ld
  <1>4. PICK k : /\ k \notin Open(slots) /\ k \in DOMAIN more /\ more \in Seq(Slot) /\ more[k] = ld
                 /\ DOMAIN slots \subseteq DOMAIN more
                 /\ \A i \in DOMAIN more \ {k} : i \in DOMAIN slots /\ more[i] = slots[i]
    <2>1. CASE free = {}
      <3>1. more = Append(slots, ld)
        BY <1>2, <2>1
      <3> HIDE DEF more, free
      <3>2. /\ more \in Seq(Slot) /\ DOMAIN more = 1..(n + 1) /\ more[n + 1] = ld
            /\ \A i \in 1..n : more[i] = slots[i]
        BY <1>1, <1>3, <3>1
      <3>3. n + 1 \notin Open(slots) /\ n + 1 \in DOMAIN more
        BY <1>1, <3>2 DEF Open
      <3>4. \A i \in DOMAIN more \ {n + 1} : i \in 1..n
        BY <1>1, <3>2
      <3> HIDE DEF n
      <3> QED BY <1>1, <3>2, <3>3, <3>4
    <2>2. CASE free # {}
      <3> DEFINE m == Min(free)
      <3>1. free \in SUBSET Nat
        BY <1>1
      <3>2. m \in free
        <4> HIDE DEF free
        <4> QED BY <2>2, <3>1, MinIs
      <3>3. more = [slots EXCEPT ![m] = ld]
        BY <1>2, <2>2
      <3>4. m \in DOMAIN slots /\ m \notin Open(slots)
        BY <3>2
      <3> HIDE DEF more, free, m
      <3>5. more \in Seq(Slot) /\ DOMAIN more = DOMAIN slots /\ more[m] = ld
            /\ \A i \in DOMAIN slots \ {m} : more[i] = slots[i]
        BY <1>1, <1>3, <3>3, <3>4
      <3> QED BY <3>4, <3>5
    <2> QED BY <2>1, <2>2
  <1> HIDE DEF more, free, n
  <1>5. ASSUME NEW i \in Open(more), NEW j \in Open(more), more[i].file = more[j].file PROVE i = j
    <2>1. \A x \in Open(more) \ {k} : x \in Open(slots) /\ more[x] = slots[x] /\ slots[x].file # f
      BY <1>4 DEF Open, InSlot
    <2> QED BY <1>1, <1>3, <1>4, <1>5, <2>1
  <1>6. SlotsSound(more)
    BY <1>4, <1>5 DEF SlotsSound
  <1> QED BY <1>4, <1>6 DEF more, ld

\* The largest of some numbers.
LEMMA MaxIs ==
    ASSUME NEW n \in Nat, NEW T \in SUBSET (0..n), T # {}
    PROVE  Max(T) \in T /\ \A y \in T : y <= Max(T)
  <1> DEFINE U == { n - x : x \in T }
  <1>1. U \in SUBSET Nat /\ U # {}
    <2>1. \A x \in T : x \in 0..n /\ n - x \in Nat
      OBVIOUS
    <2>2. \E x \in T : n - x \in U
      OBVIOUS
    <2> QED BY <2>1, <2>2
  <1>2. PICK u \in U : \A v \in U : u <= v
    <2> HIDE DEF U
    <2> QED BY <1>1, LeastNumber
  <1>3. PICK x \in T : u = n - x
    BY <1>2
  <1>4. \A y \in T : x >= y
    <2> TAKE y \in T
    <2>1. n - y \in U
      OBVIOUS
    <2>2. n - x <= n - y /\ x \in 0..n /\ y \in 0..n
      BY <1>2, <1>3, <2>1
    <2> QED BY <2>2
  <1>5. Max(T) \in T /\ \A y \in T : Max(T) >= y
    BY <1>4 DEF Max
  <1> QED BY <1>5

\* The files that are not removed keep their slots.
LEMMA Removed ==
    ASSUME NEW slots, SlotsSound(slots), NEW gone \in SUBSET Files
    PROVE  LET more == RemoveFiles(slots, gone)
           IN  /\ SlotsSound(more) /\ DOMAIN more \subseteq DOMAIN slots
               /\ Open(more) = { i \in Open(slots) : slots[i].file \notin gone }
               /\ \A i \in DOMAIN more : slots[i].file \notin gone => more[i] = slots[i]
  <1> DEFINE left == [i \in DOMAIN slots |->
                        IF slots[i].file \in gone
                        THEN [slots[i] EXCEPT !.file = NoFile] ELSE slots[i]]
             used == Open(left) \cup {0}
             m == Max(used)
             more == RemoveFiles(slots, gone)
             n == Len(slots)
             Stay == { i \in Open(slots) : slots[i].file \notin gone }
  <1>1. /\ slots \in Seq(Slot) /\ n \in Nat /\ DOMAIN slots = 1..n
        /\ \A i, j \in Open(slots) : slots[i].file = slots[j].file => i = j
    BY DEF SlotsSound
  <1>2. more = SubSeq(left, 1, m)
    BY DEF RemoveFiles
  <1>3. ASSUME NEW i \in DOMAIN slots
        PROVE  /\ left[i] \in Slot
               /\ slots[i].file \notin gone => left[i] = slots[i]
               /\ slots[i].file \in gone => left[i].file = NoFile
    <2>1. slots[i] \in Slot
      BY <1>1
    <2>2. left[i] = IF slots[i].file \in gone THEN [slots[i] EXCEPT !.file = NoFile] ELSE slots[i]
      OBVIOUS
    <2> HIDE DEF left
    <2> QED BY <2>1, <2>2 DEF Slot
  <1>4. DOMAIN left = 1..n /\ left \in Seq(Slot) /\ Len(left) = n
    <2>1. DOMAIN left = 1..n /\ left = [i \in 1..n |-> left[i]]
      BY <1>1
    <2> HIDE DEF left
    <2> QED BY <1>1, <1>3, <2>1
  <1> HIDE DEF left
  <1>5. Open(left) = Stay
    BY <1>1, <1>3, <1>4 DEF Open
  <1>6. used \in SUBSET (0..n) /\ used # {}
    BY <1>1, <1>4 DEF Open
  <1>7. m \in used /\ m \in 0..n /\ \A y \in used : y <= m
    <2>1. m \in used /\ \A y \in used : y <= m
      <3> HIDE DEF used, n
      <3> QED BY <1>1, <1>6, MaxIs
    <2> HIDE DEF used, m, n
    <2> QED BY <1>6, <2>1
  <1>8. \A i \in Stay : i \in 1..m
    <2>1. \A i \in Stay : i \in used /\ i \in 1..n
      BY <1>1, <1>5 DEF Open
    <2> HIDE DEF used, m, n, Stay
    <2> QED BY <1>1, <1>7, <2>1
  <1> HIDE DEF m, used, more, n
  <1>9. /\ more \in Seq(Slot) /\ DOMAIN more = 1..m /\ 1..m \subseteq 1..n
        /\ \A i \in 1..m : more[i] = left[i]
    BY <1>1, <1>2, <1>4, <1>7
  <1>10. Open(more) = Stay
    <2>1. \A i \in 1..m : i \in Open(more) <=> i \in Open(left)
      BY <1>4, <1>9 DEF Open
    <2>2. Open(more) \subseteq 1..m
      BY <1>9 DEF Open
    <2> QED BY <1>5, <1>8, <2>1, <2>2
  <1>11. \A i \in DOMAIN more : slots[i].file \notin gone => more[i] = slots[i]
    BY <1>1, <1>3, <1>9
  <1>12. SlotsSound(more)
    <2>1. \A i \in Open(more) : i \in Open(slots) /\ more[i] = slots[i]
      BY <1>9, <1>10, <1>11 DEF Open
    <2> QED BY <1>1, <1>9, <2>1 DEF SlotsSound
  <1> QED BY <1>1, <1>9, <1>10, <1>11, <1>12 DEF more

\* The slots of a pass that promotes p, if any, and removes the files in gone.
LEMMA SlotsOfPass ==
    ASSUME NEW slots, SlotsSound(slots), NEW p \in Files \cup {NoFile},
           p # NoFile => ~InSlot(slots, p), NEW gone \in SUBSET Files, p \notin gone
    PROVE  Slotted(slots,
                   RemoveFiles(IF p = NoFile THEN slots ELSE InsertFile(slots, p), gone),
                   p, gone)
  <1> DEFINE in == IF p = NoFile THEN slots ELSE InsertFile(slots, p)
             more == RemoveFiles(in, gone)
  <1>1. /\ SlotsSound(in)
        /\ \A i \in Open(in) :
              \/ i \in Open(slots) /\ in[i] = slots[i]
              \/ p # NoFile /\ in[i] = NewSlot(p)
        /\ \A i \in Open(slots) : i \in Open(in) /\ in[i] = slots[i]
        /\ p # NoFile => \E i \in Open(in) : in[i].file = p
        /\ Freed(slots) => Freed(in)
    <2>1. CASE p = NoFile
      <3>1. in = slots
        BY <2>1
      <3> QED BY <2>1, <3>1
    <2>2. CASE p # NoFile
      <3>1. in = InsertFile(slots, p) /\ p \in Files
        BY <2>2
      <3> HIDE DEF in
      <3>2. SlotsSound(in)
        BY <2>2, <3>1, Inserted
      <3>3. PICK k \in DOMAIN in :
               /\ k \notin Open(slots) /\ in[k] = NewSlot(p)
               /\ DOMAIN slots \subseteq DOMAIN in
               /\ \A i \in DOMAIN in \ {k} : i \in DOMAIN slots /\ in[i] = slots[i]
        BY <2>2, <3>1, Inserted
      <3>4. k \in Open(in) /\ in[k].file = p
        BY <2>2, <3>3 DEF Open, NewSlot
      <3>5. \A i \in Open(in) : i = k \/ (i \in Open(slots) /\ in[i] = slots[i])
        BY <3>3 DEF Open
      <3>6. \A i \in Open(slots) : i \in Open(in) /\ in[i] = slots[i]
        BY <3>3 DEF Open
      <3>7. Freed(slots) => Freed(in)
        BY <3>3, <3>4, <3>6 DEF Freed, Open
      <3> QED BY <2>2, <3>2, <3>3, <3>4, <3>5, <3>6, <3>7
    <2> QED BY <2>1, <2>2
  <1> HIDE DEF in
  <1>2. /\ SlotsSound(more) /\ DOMAIN more \subseteq DOMAIN in
        /\ Open(more) = { i \in Open(in) : in[i].file \notin gone }
        /\ \A i \in DOMAIN more : in[i].file \notin gone => more[i] = in[i]
    BY <1>1, Removed
  <1> HIDE DEF more
  <1>3. \A i \in Open(more) : i \in Open(in) /\ more[i] = in[i] /\ in[i].file \notin gone
    BY <1>2 DEF Open
  <1>4. \A i \in Open(more) : \/ i \in Open(slots) /\ more[i] = slots[i]
                              \/ p # NoFile /\ more[i] = NewSlot(p)
    BY <1>1, <1>3
  <1>5. ASSUME NEW f \in Files
        PROVE  InSlot(more, f) <=> f \notin gone /\ (f = p \/ InSlot(slots, f))
    <2>1. f # NoFile
      BY EnvAssumption
    <2>2. ASSUME NEW s PROVE InSlot(s, f) <=> \E i \in Open(s) : s[i].file = f
      BY <2>1 DEF InSlot, Open
    <2>3. ASSUME InSlot(more, f) PROVE f \notin gone /\ (f = p \/ InSlot(slots, f))
      <3>1. PICK i \in Open(more) : more[i].file = f
        BY <2>2, <2>3
      <3> QED BY <1>3, <1>4, <2>2, <3>1 DEF NewSlot
    <2>4. ASSUME f \notin gone, f = p \/ InSlot(slots, f) PROVE InSlot(more, f)
      <3>1. PICK i \in Open(in) : in[i].file = f
        BY <1>1, <2>1, <2>2, <2>4
      <3>2. i \in Open(more) /\ more[i] = in[i]
        BY <1>2, <1>3, <2>4, <3>1
      <3> QED BY <2>2, <3>1, <3>2
    <2> QED BY <2>3, <2>4
  <1>6. ASSUME gone = {}
        PROVE  /\ Freed(slots) => Freed(more)
               /\ \A i \in Open(slots) : i \in Open(more) /\ more[i] = slots[i]
    <2>1. Open(more) = Open(in) /\ \A i \in DOMAIN more : more[i] = in[i]
      BY <1>2, <1>6
    <2>2. \A i \in Open(slots) : i \in Open(more) /\ more[i] = slots[i]
      BY <1>1, <1>3, <2>1
    <2>3. Freed(slots) => Freed(more)
      BY <1>1, <1>2, <2>1 DEF Freed
    <2> QED BY <2>2, <2>3
  <1>7. Slotted(slots, more, p, gone)
    BY <1>2, <1>4, <1>5, <1>6 DEF Slotted
  <1> QED BY <1>7 DEF more, in

-----------------------------------------------------------------------------
(* Scanning.                                                               *)

\* Times that do not fall from one line to the next are in order.
LEMMA RiseFrom ==
    ASSUME NEW n \in Nat, NEW times, \A i \in 1..n : times[i] \in Nat, NEW k \in Nat,
           \A i \in k..n : i > 1 => times[i - 1] <= times[i],
           NEW m \in 1..n, k <= m + 1
    PROVE  \A l \in m..n : times[m] <= times[l]
  <1> DEFINE T == { l \in m..n : times[m] <= times[l] }
  <1>1. m \in T /\ m \in Nat
    OBVIOUS
  <1>2. ASSUME NEW i \in T, i \in m..(n - 1) PROVE i + 1 \in T
    <2>1. i + 1 \in k..n /\ i + 1 > 1 /\ (i + 1) - 1 = i /\ i + 1 \in m..n
      BY <1>2
    <2>2. times[i] <= times[i + 1]
      BY <2>1
    <2>3. times[m] <= times[i] /\ times[m] \in Nat /\ times[i] \in Nat /\ times[i + 1] \in Nat
      BY <1>2, <2>1
    <2> QED BY <2>1, <2>2, <2>3
  <1>3. \A i \in m..n : i \in T
    <2> HIDE DEF T
    <2> QED BY <1>1, <1>2, RangeInduction
  <1> QED BY <1>3

\* What a scan of a logfile leaves.
Scanned(s, rec, f) ==
    /\ FileSound(s.lf, disk[f], TRUE)
    /\ s.lf.offset = rec.offset /\ Len(rec.seen) <= Len(s.lf.seen)
    /\ \A l \in 1..Len(rec.seen) : s.lf.seen[l].ts = rec.seen[l].ts
    /\ s.res \in {"NO_NEW_LINES", "NEW_LINES", "NEW_ORDER", "INVALID"}
    /\ s.res \in {"NO_NEW_LINES", "NEW_LINES"} =>
          /\ ~rec.sort \/ rec.state = "truncated"
          /\ s.lf.seen = rec.seen \/ ~OutOfOrder(f, s.lf, Len(rec.seen))

\* A scan of an open file leaves it sound and answers for what it read.
LEMMA ScanIs ==
    ASSUME NEW ld, NEW rec, NEW f \in Files, ld.file = f,
           FileSound(rec, disk[f], TRUE), rec.state # "closed", NEW s \in Scans(ld, rec)
    PROVE  Scanned(s, rec, f)
  <1> DEFINE idle == [lf  |-> [rec EXCEPT !.sort = FALSE],
                      res |-> IF rec.sort THEN "NEW_ORDER" ELSE "NO_NEW_LINES"]
             read == { [rec EXCEPT !.seen = SubSeq(disk[f], 1, n), !.sort = FALSE] :
                         n \in ReadTo(f, rec) }
             shut == [rec EXCEPT !.state = "closed"]
  <1>1. rec \in [state : {"absent", "ok", "truncated", "closed"},
                 seen : Seq(Line), offset : Nat, sort : BOOLEAN]
    BY DEF FileSound, LogFile
  <1>2. \/ rec.state = "truncated" /\ s \in [lf : {shut}, res : {"NO_NEW_LINES", "INVALID"}]
        \/ s = idle
        \/ /\ rec.state # "truncated"
           /\ \E r \in read : s = [lf |-> r, res |-> IF rec.sort \/ OutOfOrder(f, r, Len(rec.seen))
                                                     THEN "NEW_ORDER" ELSE "NEW_LINES"]
    <2> HIDE DEF idle, read, shut
    <2> QED BY Zenon DEF Scans, idle, read, shut
  <1>3. CASE rec.state = "truncated" /\ s \in [lf : {shut}, res : {"NO_NEW_LINES", "INVALID"}]
    <2>1. s.lf = shut /\ (s.res = "NO_NEW_LINES" \/ s.res = "INVALID")
      BY <1>3
    <2>2. /\ shut \in LogFile /\ shut.seen = rec.seen /\ shut.offset = rec.offset
          /\ shut.sort = rec.sort /\ shut.state = "closed"
      BY <1>1 DEF LogFile
    <2> HIDE DEF shut
    <2>3. FileSound(shut, disk[f], TRUE)
      BY <2>2 DEF FileSound
    <2>4. Len(rec.seen) <= Len(rec.seen)
      BY <1>1
    <2> QED BY <1>3, <2>1, <2>2, <2>3, <2>4 DEF Scanned
  <1>4. CASE s = idle
    <2> DEFINE r == [rec EXCEPT !.sort = FALSE]
    <2>1. s.lf = r /\ s.res = IF rec.sort THEN "NEW_ORDER" ELSE "NO_NEW_LINES"
      BY <1>4
    <2>2. /\ r \in LogFile /\ r.seen = rec.seen /\ r.offset = rec.offset
          /\ r.sort = FALSE /\ r.state = rec.state
      BY <1>1 DEF LogFile
    <2> HIDE DEF r
    <2>3. FileSound(r, disk[f], TRUE)
      BY <2>2 DEF FileSound
    <2>4. Len(rec.seen) <= Len(rec.seen)
      BY <1>1
    <2> QED BY <2>1, <2>2, <2>3, <2>4 DEF Scanned
  <1>5. ASSUME rec.state # "truncated", NEW r \in read,
               s = [lf |-> r, res |-> IF rec.sort \/ OutOfOrder(f, r, Len(rec.seen))
                                      THEN "NEW_ORDER" ELSE "NEW_LINES"]
        PROVE  Scanned(s, rec, f)
    <2>1. PICK n \in ReadTo(f, rec) :
             r = [rec EXCEPT !.seen = SubSeq(disk[f], 1, n), !.sort = FALSE]
      OBVIOUS
    <2> DEFINE w == disk[f]
               k == Len(rec.seen)
               got == SubSeq(w, 1, n)
    <2> HIDE DEF read
    <2>2. rec.state = "ok" /\ rec.seen \in Seq(Line) /\ rec.seen # << >> /\ w \in Seq(Line)
      BY <1>1, <1>5 DEF FileSound
    <2>3. /\ k <= Len(w) /\ Len(w) <= MaxLines /\ MaxLines \in Nat
          /\ \A l \in 1..k : rec.seen[l].ts = w[l].ts
      BY <2>2, EnvAssumption DEF FileSound
    <2>4. n \in ReadTo(f, rec) /\ (n \in (k + 1)..Len(w) \/ n = Len(w))
      BY DEF ReadTo
    <2>5. r = [rec EXCEPT !.seen = got, !.sort = FALSE]
      BY <2>1
    <2> HIDE DEF w
    <2>6. k \in Nat /\ k > 0 /\ Len(w) \in Nat
      BY <2>2
    <2>7. n \in Nat /\ k <= n /\ n <= Len(w)
      <3> HIDE DEF k
      <3> QED BY <2>3, <2>4, <2>6
    <2>8. got \in Seq(Line) /\ Len(got) = n /\ \A l \in 1..n : got[l] = w[l]
      <3> HIDE DEF k
      <3> QED BY <2>2, <2>7
    <2> HIDE DEF got
    <2>9. /\ r \in LogFile /\ r.seen = got /\ r.offset = rec.offset
          /\ r.sort = FALSE /\ r.state = rec.state
      BY <1>1, <2>5, <2>8 DEF LogFile
    <2>10. s.lf = r /\ s.res = IF rec.sort \/ OutOfOrder(f, r, k) THEN "NEW_ORDER" ELSE "NEW_LINES"
      BY <1>5
    <2> HIDE DEF k
    <2>11. Len(got) <= MaxLines /\ got # << >>
      BY <2>3, <2>6, <2>7, <2>8
    <2>12. \A l \in 1..Len(r.seen) : r.seen[l].ts = w[l].ts
      BY <2>8, <2>9
    <2>13. FileSound(r, w, TRUE)
      <3>1. rec.offset \in {0, 1} /\ Len(w) <= MaxLines
        BY <2>3 DEF FileSound
      <3> QED BY <2>2, <2>7, <2>8, <2>9, <2>11, <2>12, <3>1 DEF FileSound
    <2>14. \A l \in 1..k : l \in 1..n /\ r.seen[l].ts = rec.seen[l].ts
      BY <2>3, <2>6, <2>7, <2>8, <2>9
    <2>15. k <= Len(r.seen)
      BY <2>7, <2>8, <2>9
    <2> QED BY <2>9, <2>10, <2>13, <2>14, <2>15 DEF Scanned, w, k
  <1> QED BY <1>2, <1>3, <1>4, <1>5

\* What scanning every open file leaves.
AllScanned(out, slots, lfs) ==
    /\ DOMAIN out.lfs = Files /\ out.lfs = [f \in Files |-> out.lfs[f]]
    /\ \A i \in Open(slots) :
          \E s \in Scans(slots[i], lfs[slots[i].file]) :
              out.lfs[slots[i].file] = s.lf /\ out.res[i] = s.res
    /\ \A f \in Files : ~InSlot(slots, f) => out.lfs[f] = lfs[f]

\* ScanAll scans each open file once and touches no other.
LEMMA ScanAllIs ==
    ASSUME NEW slots, SlotsSound(slots), NEW lfs, NEW out \in ScanAll(slots, lfs)
    PROVE  AllScanned(out, slots, lfs)
  <1> DEFINE open    == Open(slots)
             scan(i) == Scans(slots[i], lfs[slots[i].file])
             all     == { s \in [open -> UNION { scan(i) : i \in open }] :
                            \A i \in open : s[i] \in scan(i) }
             now(s)  == [f \in Files |->
                           IF \E i \in open : slots[i].file = f
                           THEN s[CHOOSE i \in open : slots[i].file = f].lf
                           ELSE lfs[f]]
  <1>1. PICK s \in all : out = [lfs |-> now(s), res |-> [i \in open |-> s[i].res]]
    BY Zenon DEF ScanAll
  <1>2. \A i \in open : s[i] \in scan(i)
    OBVIOUS
  <1> HIDE DEF scan, all
  <1>3. out.lfs = now(s) /\ out.res = [i \in open |-> s[i].res]
    <2> HIDE DEF now, open
    <2> QED BY <1>1
  <1>4. ASSUME NEW i \in open
        PROVE  out.lfs[slots[i].file] = s[i].lf /\ out.res[i] = s[i].res
    <2>1. PICK f \in Files : f = slots[i].file
      BY SlotParts DEF SlotsSound
    <2>2. \A j \in open : slots[j].file = f => j = i
      BY <2>1 DEF SlotsSound
    <2>3. (CHOOSE j \in open : slots[j].file = f) = i /\ \E j \in open : slots[j].file = f
      <3> HIDE DEF open
      <3> QED BY <2>1, <2>2
    <2>4. now(s)[f] = s[CHOOSE j \in open : slots[j].file = f].lf
      <3> HIDE DEF open
      <3> QED BY <2>3, Zenon
    <2>5. out.lfs[f] = s[i].lf
      <3> HIDE DEF open, now
      <3> QED BY <1>3, <2>3, <2>4
    <2>6. out.res[i] = s[i].res
      <3> HIDE DEF now
      <3> QED BY <1>3
    <2> HIDE DEF now
    <2> QED BY <2>1, <2>5, <2>6
  <1>5. ASSUME NEW f \in Files, ~InSlot(slots, f) PROVE out.lfs[f] = lfs[f]
    BY <1>3, <1>5 DEF InSlot, Open
  <1>6. DOMAIN out.lfs = Files /\ out.lfs = [f \in Files |-> out.lfs[f]]
    BY <1>3
  <1> HIDE DEF now
  <1> QED BY <1>2, <1>4, <1>5, <1>6 DEF AllScanned, scan

\* The operations of writers and user under which the index is exact: a partial
\* line does not get its timestamp when it is finished, and a file whose clock was
\* shifted is not truncated.
Benign ==
    /\ "late_ts" \notin Env
    /\ ~("adjust" \in Env /\ "truncate" \in Env)

\* An open slot and its logfile.
LEMMA SlotFile ==
    ASSUME NEW slots, SlotsSound(slots), NEW lfs, FilesInv(lfs, slots), NEW i \in Open(slots)
    PROVE  /\ slots[i].file \in Files /\ InSlot(slots, slots[i].file)
           /\ FileSound(lfs[slots[i].file], disk[slots[i].file], TRUE)
           /\ slots[i].indexed \in Nat /\ Size(slots, lfs, i) \in Nat
  <1>1. slots[i].file \in Files /\ slots[i].indexed \in Nat /\ i \in DOMAIN slots
    BY SlotParts DEF SlotsSound
  <1>2. InSlot(slots, slots[i].file) = TRUE
    BY <1>1 DEF InSlot
  <1>3. FileSound(lfs[slots[i].file], disk[slots[i].file], TRUE)
    BY <1>1, <1>2 DEF FilesInv
  <1>4. Size(slots, lfs, i) \in Nat
    BY <1>3 DEF FileSound, LogFile, Size
  <1> QED BY <1>1, <1>2, <1>3, <1>4

\* The lines that are counted have been scanned.
LEMMA CaughtBound ==
    ASSUME NEW slots, SlotsSound(slots), NEW lfs, FilesInv(lfs, slots), NEW index,
           Caught(slots, lfs, index, FALSE)
    PROVE  \A i \in Open(slots) : slots[i].indexed <= Size(slots, lfs, i)
  <1> SUFFICES ASSUME NEW i \in Open(slots) PROVE slots[i].indexed <= Size(slots, lfs, i)
    OBVIOUS
  <1>1. slots[i].indexed \in Nat /\ Size(slots, lfs, i) \in Nat
    BY SlotFile
  <1>2. \/ slots[i].indexed = Size(slots, lfs, i)
        \/ slots[i].indexed = 0
    BY DEF Caught
  <1> QED BY <1>1, <1>2

\* Scans find a file out of order, or the index and what they have read is in
\* order.
LEMMA ScanCalm ==
    ASSUME Benign, NEW slots, NEW lfs, FilesInv(lfs, slots),
           \A f \in Files : lfs[f].state # "closed",
           IndexSound(slots, lfs, lss_index, lss_filtered_index, FALSE, ttt_min_row_time),
           NEW out, AllScanned(out, slots, lfs)
    PROVE  /\ \A i \in Open(slots) : slots[i].indexed <= Size(slots, out.lfs, i)
           /\ \/ \E i \in Open(slots) : out.res[i] \in {"NEW_ORDER", "INVALID"}
              \/ Calm(slots, out.lfs, out.res)
  <1>1. SlotsSound(slots) /\ Caught(slots, lfs, lss_index, FALSE) /\ Exactly(lss_index, Held(slots))
    BY DEF IndexSound
  <1>2. \A i \in Open(slots) : slots[i].indexed <= Size(slots, lfs, i)
    BY <1>1, CaughtBound
  <1>3. ASSUME NEW i \in Open(slots)
        PROVE  LET f == slots[i].file IN
               \E s : /\ out.lfs[f] = s.lf /\ out.res[i] = s.res /\ Scanned(s, lfs[f], f)
    <2>1. slots[i].file \in Files /\ FileSound(lfs[slots[i].file], disk[slots[i].file], TRUE)
      BY <1>1, SlotFile
    <2>2. PICK s \in Scans(slots[i], lfs[slots[i].file]) :
             out.lfs[slots[i].file] = s.lf /\ out.res[i] = s.res
      BY DEF AllScanned
    <2>3. Scanned(s, lfs[slots[i].file], slots[i].file)
      BY <2>1, ScanIs
    <2> QED BY <2>2, <2>3
  <1>4. ASSUME NEW i \in Open(slots)
        PROVE  LET f == slots[i].file
                   now == out.lfs[f]
                   rec == lfs[f]
                   res == out.res[i]
               IN  /\ now.offset = rec.offset /\ Len(rec.seen) <= Len(now.seen)
                   /\ FileSound(now, disk[f], TRUE)
                   /\ \A l \in 1..Len(rec.seen) : now.seen[l].ts = rec.seen[l].ts
                   /\ res \in {"NO_NEW_LINES", "NEW_LINES", "NEW_ORDER", "INVALID"}
                   /\ res \in {"NO_NEW_LINES", "NEW_LINES"} =>
                         /\ ~rec.sort \/ rec.state = "truncated"
                         /\ now.seen = rec.seen \/ ~OutOfOrder(f, now, Len(rec.seen))
    <2>1. PICK s : /\ out.lfs[slots[i].file] = s.lf /\ out.res[i] = s.res
                   /\ Scanned(s, lfs[slots[i].file], slots[i].file)
      BY <1>3
    <2> QED BY <2>1 DEF Scanned
  <1>5. ASSUME NEW i \in Open(slots) PROVE slots[i].indexed <= Size(slots, out.lfs, i)
    <2>1. Size(slots, lfs, i) <= Size(slots, out.lfs, i)
      BY <1>4 DEF Size
    <2>2. Size(slots, lfs, i) \in Nat /\ slots[i].indexed \in Nat
      BY <1>1, SlotFile
    <2>3. Size(slots, out.lfs, i) \in Nat
      BY <1>4 DEF Size, FileSound, LogFile
    <2> QED BY <1>2, <2>1, <2>2, <2>3
  <1>6. ASSUME ~ \E i \in Open(slots) : out.res[i] \in {"NEW_ORDER", "INVALID"}
        PROVE  Calm(slots, out.lfs, out.res)
    <2>1. ASSUME NEW i \in Open(slots) PROVE out.res[i] \in {"NO_NEW_LINES", "NEW_LINES"}
      BY <1>4, <1>6
    <2>2. Quiet(lfs)
      <3> SUFFICES ASSUME NEW f \in Files, lfs[f].sort PROVE FALSE
        BY DEF Quiet
      <3>1. FileSound(lfs[f], disk[f], InSlot(slots, f))
        BY DEF FilesInv
      <3>2. InSlot(slots, f) /\ "adjust" \in Env
        BY <3>1 DEF FileSound
      <3>3. PICK i \in Open(slots) : slots[i].file = f
        BY <3>2, EnvAssumption DEF InSlot, Open
      <3>4. lfs[f].state = "truncated"
        BY <1>4, <2>1, <3>3
      <3>5. "truncate" \in Env
        BY <3>1, <3>4 DEF FileSound
      <3> QED BY <3>2, <3>5 DEF Benign
    <2>3. /\ InTime(lss_index, slots, lfs)
          /\ RowsShown(lss_filtered_index, slots, lfs, ttt_min_row_time, lss_index)
      BY <2>2 DEF IndexSound
    <2>4. SameRows(slots, lfs, slots, out.lfs, Held(slots))
      <3> SUFFICES ASSUME NEW r \in Held(slots)
                   PROVE  RowTime(slots, out.lfs, r) = RowTime(slots, lfs, r)
        BY DEF SameRows
      <3> DEFINE i == r[1]
                 f == slots[i].file
                 a == lfs[f].seen
                 b == out.lfs[f].seen
                 n == Size(slots, lfs, i)
      <3>1. i \in Open(slots) /\ r[2] \in 1..MaxLines /\ r[2] <= slots[i].indexed
        BY DEF Held
      <3>2. FileSound(lfs[f], disk[f], TRUE) /\ n \in Nat /\ slots[i].indexed \in Nat
        BY <1>1, <3>1, SlotFile
      <3>3. a \in Seq(Line) /\ b \in Seq(Line) /\ lfs[f].offset \in Nat /\ n = Len(a)
        BY <1>4, <3>1, <3>2 DEF FileSound, LogFile, Size
      <3>4. /\ out.lfs[f].offset = lfs[f].offset /\ Len(a) <= Len(b)
            /\ \A l \in 1..n : a[l].ts = b[l].ts
        BY <1>4, <3>1, <3>3
      <3>5. r[2] \in 1..n
        BY <1>2, <3>1, <3>2
      <3>6. Times(f, lfs[f])[r[2]] = Times(f, out.lfs[f])[r[2]]
        <4> HIDE DEF a, b, n, f, i
        <4>1. n <= Len(a) /\ n <= Len(b)
          BY <3>2, <3>3, <3>4
        <4>2. PICK o \in Nat : o = lfs[f].offset
          BY <3>3
        <4>3. \A l \in 1..n : LineTimes(f, a, o)[l] = LineTimes(f, b, o)[l]
          <5>1. n \in Nat /\ a \in Seq(Line) /\ b \in Seq(Line)
            BY <3>2, <3>3
          <5>2. SameStamps(a, b, n)
            BY <3>4 DEF SameStamps
          <5>3. SameTimes(f, a, b, o, n)
            BY <4>1, <5>1, <5>2, TimesPrefix
          <5> QED BY <5>3 DEF SameTimes
        <4> QED BY <3>4, <3>5, <4>2, <4>3 DEF Times, a, b
      <3> QED BY <3>6 DEF RowTime
    <2>5. /\ InTime(lss_index, slots, out.lfs)
          /\ RowsShown(lss_filtered_index, slots, out.lfs, ttt_min_row_time, lss_index)
      <3>1. lss_index \in Seq(Held(slots))
        BY <1>1 DEF Exactly
      <3> QED BY <2>3, <2>4, <3>1, Transfer
    <2>6. ASSUME NEW i \in Open(slots),
                 NEW l \in (slots[i].indexed + 1)..Size(slots, out.lfs, i)
          PROVE  RowTime(slots, out.lfs, <<i, slots[i].indexed + 1>>)
                   <= RowTime(slots, out.lfs, <<i, l>>)
      <3> DEFINE f == slots[i].file
                 now == out.lfs[f]
                 n == Len(now.seen)
                 k == Len(lfs[f].seen)
                 m == slots[i].indexed + 1
                 times == Times(f, now)
      <3>1. /\ now.seen \in Seq(Line) /\ n \in Nat /\ now.offset \in Nat /\ k <= n
            /\ now.seen = lfs[f].seen \/ ~OutOfOrder(f, now, k)
        BY <1>4, <2>1 DEF FileSound, LogFile
      <3>2. slots[i].indexed \in Nat /\ k \in Nat /\ (slots[i].indexed = k \/ (slots[i].indexed = 0 /\ k = 1))
        BY <1>1, SlotFile DEF Caught, Size
      <3>3. l \in m..n /\ n = Size(slots, out.lfs, i)
        BY DEF Size
      <3>4. \A x : RowTime(slots, out.lfs, <<i, x>>) = times[x]
        BY DEF RowTime
      <3>5. \A x \in 1..n : times[x] \in Nat
        <4> HIDE DEF f
        <4> QED BY <3>1, TimesType DEF Times
      <3> HIDE DEF times
      <3>6. times[m] <= times[l]
        <4>1. CASE now.seen = lfs[f].seen
          <5>1. n = k
            BY <4>1
          <5> HIDE DEF n, k, now, f
          <5>2. l = m /\ l \in 1..n
            BY <3>1, <3>2, <3>3, <5>1
          <5>3. times[l] \in Nat
            BY <3>5, <5>2
          <5> HIDE DEF m
          <5> QED BY <5>2, <5>3
        <4>2. CASE ~OutOfOrder(f, now, k)
          <5>1. \A x \in k..n : x > 1 => ~(times[x] < times[x - 1])
            BY <4>2 DEF OutOfOrder, times
          <5> HIDE DEF n, k, now, f
          <5>2. m \in 1..n /\ k <= m + 1
            BY <3>1, <3>2, <3>3
          <5>3. ASSUME NEW x \in k..n, x > 1 PROVE times[x - 1] <= times[x]
            <6>1. x \in 1..n /\ x - 1 \in 1..n
              BY <3>1, <3>2, <5>3
            <6>2. times[x] \in Nat /\ times[x - 1] \in Nat
              BY <3>5, <6>1
            <6> QED BY <5>1, <5>3, <6>2
          <5> HIDE DEF m
          <5> QED BY <3>1, <3>2, <3>3, <3>5, <5>2, <5>3, RiseFrom
        <4> QED BY <3>1, <4>1, <4>2
      <3> QED BY <3>4, <3>6
    <2>7. Sorted(lss_index, slots, out.lfs, Held(slots))
      BY <1>1, <2>5, SortedIs
    <2> QED BY <2>1, <2>5, <2>6, <2>7 DEF Calm, RowsShown
  <1> QED BY <1>5, <1>6

\* The files that are found closed, and the logfiles once they are dropped and p
\* is promoted.
Gone == { f \in Files : lf[f].state = "closed" }
KeptFiles(p) ==
    [f \in Files |-> IF f \in Gone THEN Absent
                     ELSE IF f = p THEN [lf[f] EXCEPT !.seen = SubSeq(disk[f], 1, 1)]
                     ELSE lf[f]]

\* A promoted file has read its first line.
LEMMA Promoted ==
    ASSUME NEW f \in Files, FileSound(lf[f], disk[f], FALSE), lf[f].state = "ok", disk[f] # << >>
    PROVE  LET rec == [lf[f] EXCEPT !.seen = SubSeq(disk[f], 1, 1)]
           IN  /\ FileSound(rec, disk[f], TRUE) /\ Len(rec.seen) = 1
               /\ rec.state = "ok" /\ rec.sort = FALSE
  <1> DEFINE w == disk[f]
             got == SubSeq(w, 1, 1)
             rec == [lf[f] EXCEPT !.seen = got]
  <1>1. /\ lf[f] \in [state : {"absent", "ok", "truncated", "closed"},
                      seen : Seq(Line), offset : Nat, sort : BOOLEAN]
        /\ w \in Seq(Line) /\ w # << >> /\ ~lf[f].sort
    BY DEF FileSound, LogFile
  <1>2. Len(w) \in Nat /\ Len(w) >= 1 /\ Len(w) <= MaxLines /\ MaxLines \in Nat /\ lf[f].offset \in {0, 1}
    <2>1. Len(w) <= MaxLines /\ MaxLines \in Nat /\ lf[f].offset \in {0, 1}
      BY EnvAssumption DEF FileSound
    <2> HIDE DEF w
    <2> QED BY <1>1, <2>1
  <1> HIDE DEF w
  <1>3. got \in Seq(Line) /\ Len(got) = 1 /\ got[1] = w[1]
    BY <1>1, <1>2
  <1> HIDE DEF got
  <1>4. /\ rec \in LogFile /\ rec.seen = got /\ rec.state = "ok" /\ rec.sort = FALSE
        /\ rec.offset = lf[f].offset
    <2>1. lf[f].sort = FALSE
      BY <1>1
    <2> QED BY <1>1, <1>3, <2>1 DEF LogFile
  <1> HIDE DEF rec
  <1>5. got # << >> /\ 1 <= MaxLines
    BY <1>2, <1>3
  <1>6. FileSound(rec, w, TRUE)
    <2>1. ASSUME NEW l \in 1..Len(rec.seen) PROVE rec.seen[l].ts = w[l].ts
      <3>1. l = 1
        <4>1. rec.seen = got /\ Len(got) = 1
          BY <1>3, <1>4
        <4>2. l \in 1..1
          BY <4>1
        <4> QED BY <4>2
      <3> QED BY <1>3, <1>4, <3>1
    <2>2. Len(rec.seen) <= Len(w) /\ Len(rec.seen) <= MaxLines
      BY <1>2, <1>3, <1>4, <1>5
    <2> QED BY <1>1, <1>2, <1>4, <1>5, <2>1, <2>2 DEF FileSound
  <1> QED BY <1>3, <1>4, <1>6 DEF rec, got, w

\* Before the scans: the logfiles are sound, and so is the index, unless it is to
\* be redone.
LEMMA Prepared ==
    ASSUME Inv, NEW p \in Promotable \cup {NoFile}, NEW slots,
           Slotted(lss_files, slots, p, Gone)
    PROVE  /\ SlotsSound(slots) /\ FilesInv(KeptFiles(p), slots)
           /\ \A f \in Files : KeptFiles(p)[f].state # "closed"
           /\ Gone = {} /\ ~lss_force_rebuild =>
                 IndexSound(slots, KeptFiles(p), lss_index, lss_filtered_index, FALSE,
                            ttt_min_row_time)
  <1> DEFINE kept == KeptFiles(p)
             old == lss_files
  <1>1. /\ SlotsSound(slots) /\ SlotsSound(old)
        /\ \A f \in Files : FileSound(lf[f], disk[f], InSlot(old, f))
    BY DEF Inv, Slotted, IndexSound, FilesInv
  <1>2. ASSUME p # NoFile
        PROVE  /\ p \in Files /\ lf[p].state = "ok" /\ disk[p] # << >> /\ ~InSlot(old, p)
               /\ FileSound(lf[p], disk[p], FALSE) /\ p \notin Gone
    <2>1. p \in Files /\ lf[p].state = "ok" /\ disk[p] # << >> /\ ~InSlot(old, p)
      BY <1>2 DEF Promotable, InSlot
    <2>2. InSlot(old, p) = FALSE
      BY <2>1 DEF InSlot
    <2>3. FileSound(lf[p], disk[p], FALSE)
      BY <1>1, <2>1, <2>2
    <2> QED BY <2>1, <2>3 DEF Gone
  <1>3. DOMAIN kept = Files /\ kept = [f \in Files |-> kept[f]]
    BY DEF KeptFiles
  <1>4. ASSUME NEW f \in Files
        PROVE  /\ FileSound(kept[f], disk[f], InSlot(slots, f)) /\ kept[f].state # "closed"
               /\ f # p /\ f \notin Gone => kept[f] = lf[f]
               /\ f = p => Len(kept[f].seen) = 1
               /\ f \notin Gone => kept[f].sort = lf[f].sort
    <2>1. InSlot(slots, f) <=> f \notin Gone /\ (f = p \/ InSlot(old, f))
      BY DEF Slotted
    <2>2. InSlot(slots, f) \in BOOLEAN /\ InSlot(old, f) \in BOOLEAN /\ f # NoFile
      BY EnvAssumption DEF InSlot
    <2>3. CASE f \in Gone
      <3>1. kept[f] = Absent /\ f # p
        BY <1>2, <2>2, <2>3 DEF KeptFiles
      <3>2. InSlot(slots, f) = FALSE
        BY <2>1, <2>2, <2>3
      <3>3. disk[f] \in Seq(Line) /\ Len(disk[f]) <= MaxLines
        BY <1>1 DEF FileSound
      <3>4. /\ Absent \in LogFile /\ Absent.state = "absent" /\ Absent.seen = << >>
            /\ Absent.sort = FALSE /\ Absent.offset = 0
        BY DEF Absent, LogFile
      <3>5. Len(<< >>) <= MaxLines
        BY EnvAssumption
      <3>6. FileSound(Absent, disk[f], FALSE)
        BY <3>3, <3>4, <3>5 DEF FileSound
      <3> QED BY <2>3, <3>1, <3>2, <3>4, <3>6
    <2>4. CASE f \notin Gone /\ f = p
      <3>1. kept[f] = [lf[f] EXCEPT !.seen = SubSeq(disk[f], 1, 1)]
        BY <2>4 DEF KeptFiles
      <3>2. FileSound(lf[f], disk[f], FALSE) /\ lf[f].state = "ok" /\ disk[f] # << >>
        BY <1>2, <2>2, <2>4
      <3>3. /\ FileSound(kept[f], disk[f], TRUE) /\ Len(kept[f].seen) = 1
            /\ kept[f].state = "ok" /\ kept[f].sort = FALSE
        <4> HIDE DEF kept
        <4> QED BY <3>1, <3>2, Promoted
      <3>4. lf[f].sort = FALSE
        BY <3>2 DEF FileSound, LogFile
      <3>5. InSlot(slots, f) = TRUE
        BY <2>1, <2>2, <2>4
      <3> QED BY <2>4, <3>3, <3>4, <3>5
    <2>5. CASE f \notin Gone /\ f # p
      <3>1. kept[f] = lf[f]
        BY <2>5 DEF KeptFiles
      <3>2. InSlot(slots, f) = InSlot(old, f)
        BY <2>1, <2>2, <2>5
      <3>3. lf[f].state # "closed"
        BY <2>5 DEF Gone
      <3> QED BY <1>1, <2>5, <3>1, <3>2, <3>3
    <2> QED BY <2>3, <2>4, <2>5
  <1> HIDE DEF kept
  <1>5. FilesInv(kept, slots)
    BY <1>3, <1>4 DEF FilesInv
  <1>6. ASSUME Gone = {}, ~lss_force_rebuild
        PROVE  IndexSound(slots, kept, lss_index, lss_filtered_index, FALSE, ttt_min_row_time)
    <2>1. /\ IndexSound(old, lf, lss_index, lss_filtered_index, FALSE, ttt_min_row_time)
          /\ Freed(old)
      BY <1>6 DEF Inv, IndexSound
    <2>2. /\ Freed(slots) /\ \A i \in Open(old) : i \in Open(slots) /\ slots[i] = old[i]
          /\ \A i \in Open(slots) : \/ i \in Open(old) /\ slots[i] = old[i]
                                    \/ p # NoFile /\ slots[i] = NewSlot(p)
      BY <1>6, <2>1 DEF Slotted
    <2>3. ASSUME NEW i \in Open(old) PROVE kept[old[i].file] = lf[old[i].file]
      <3>1. old[i].file \in Files /\ i \in DOMAIN old
        BY <1>1, SlotParts DEF SlotsSound
      <3>2. old[i].file # p
        <4>1. CASE p = NoFile
          BY <4>1, SlotParts DEF Open
        <4>2. CASE p # NoFile
          BY <1>2, <3>1, <4>2 DEF InSlot
        <4> QED BY <4>1, <4>2
      <3> QED BY <1>4, <1>6, <3>1, <3>2
    <2>4. Held(slots) = Held(old)
      <3>1. ASSUME NEW r \in Held(slots) PROVE r \in Held(old)
        <4>1. r \in Open(slots) \X (1..MaxLines) /\ r[2] <= slots[r[1]].indexed
          BY DEF Held
        <4>2. r[1] \in Open(slots) /\ r[2] \in 1..MaxLines /\ r = <<r[1], r[2]>>
          BY <4>1
        <4>3. r[1] \in Open(old) /\ slots[r[1]] = old[r[1]]
          <5>1. CASE slots[r[1]] = NewSlot(p)
            <6>1. slots[r[1]].indexed = 0
              BY <5>1 DEF NewSlot
            <6>2. r[2] <= 0 /\ r[2] >= 1
              BY <4>1, <4>2, <6>1
            <6> QED BY <4>2, <6>2
          <5> QED BY <2>2, <4>2, <5>1
        <4>4. r \in Open(old) \X (1..MaxLines)
          BY <4>2, <4>3
        <4> QED BY <4>1, <4>3, <4>4 DEF Held
      <3>2. ASSUME NEW r \in Held(old) PROVE r \in Held(slots)
        <4>1. r \in Open(old) \X (1..MaxLines) /\ r[2] <= old[r[1]].indexed
          BY DEF Held
        <4>2. r[1] \in Open(old) /\ r[2] \in 1..MaxLines /\ r = <<r[1], r[2]>>
          BY <4>1
        <4>3. r[1] \in Open(slots) /\ slots[r[1]] = old[r[1]]
          BY <2>2, <4>2
        <4>4. r \in Open(slots) \X (1..MaxLines)
          BY <4>2, <4>3
        <4> QED BY <4>1, <4>3, <4>4 DEF Held
      <3> QED BY <3>1, <3>2
    <2>5. Exactly(lss_index, Held(slots)) /\ lss_filtered_index \in Seq(1..Len(lss_index))
      BY <2>1, <2>4 DEF IndexSound
    <2>6. Caught(slots, kept, lss_index, FALSE)
      <3> SUFFICES ASSUME NEW i \in Open(slots)
                   PROVE  \/ slots[i].indexed = Size(slots, kept, i)
                          \/ slots[i].indexed = 0 /\ Size(slots, kept, i) = 1
        BY DEF Caught
      <3>1. CASE i \in Open(old) /\ slots[i] = old[i]
        <4>1. Size(slots, kept, i) = Size(old, lf, i)
          BY <2>3, <3>1 DEF Size
        <4>2. Caught(old, lf, lss_index, FALSE)
          BY <2>1 DEF IndexSound
        <4> QED BY <3>1, <4>1, <4>2 DEF Caught
      <3>2. CASE p # NoFile /\ slots[i] = NewSlot(p)
        <4>1. slots[i].file = p /\ slots[i].indexed = 0 /\ p \in Files
          BY <1>2, <3>2 DEF NewSlot
        <4> QED BY <1>4, <4>1 DEF Size
      <3> QED BY <2>2, <3>1, <3>2
    <2>7. SameRows(old, lf, slots, kept, Held(slots))
      <3> SUFFICES ASSUME NEW r \in Held(slots)
                   PROVE  /\ RowTime(slots, kept, r) = RowTime(old, lf, r)
                          /\ slots[r[1]].visible <=> old[r[1]].visible
        BY DEF SameRows
      <3>1. r[1] \in Open(old)
        BY <2>4 DEF Held
      <3>2. slots[r[1]] = old[r[1]] /\ kept[old[r[1]].file] = lf[old[r[1]].file]
        BY <2>2, <2>3, <3>1
      <3> QED BY <3>2 DEF RowTime
    <2>8. ASSUME Quiet(kept)
          PROVE  /\ InTime(lss_index, slots, kept)
                 /\ RowsShown(lss_filtered_index, slots, kept, ttt_min_row_time, lss_index)
      <3>1. Quiet(lf)
        BY <1>4, <1>6, <2>8 DEF Quiet
      <3>2. /\ InTime(lss_index, old, lf)
            /\ RowsShown(lss_filtered_index, old, lf, ttt_min_row_time, lss_index)
        BY <2>1, <3>1 DEF IndexSound
      <3>3. lss_index \in Seq(Held(slots))
        BY <2>5 DEF Exactly
      <3> HIDE DEF old
      <3> QED BY <2>7, <3>2, <3>3, Transfer
    <2> QED BY <1>1, <2>2, <2>5, <2>6, <2>8 DEF IndexSound
  <1> QED BY <1>1, <1>4, <1>5, <1>6 DEF kept

\* Slots with the same files leave the logfiles sound.
LEMMA FilesStay ==
    ASSUME NEW lfs, NEW slots, FilesInv(lfs, slots), NEW more, DOMAIN more = DOMAIN slots,
           \A i \in DOMAIN slots : more[i].file = slots[i].file
    PROVE  FilesInv(lfs, more)
  <1>1. ASSUME NEW f \in Files PROVE InSlot(more, f) = InSlot(slots, f)
    BY DEF InSlot
  <1> QED BY <1>1 DEF FilesInv

\* When there is nothing to do, the index is sound as it is.
SoundAsIs(slots, force0, lfs, res) ==
    \/ force0
    \/ /\ ~Skipped(slots, res)
       /\ ~ /\ Calm(slots, lfs, res)
            /\ \A i \in Open(slots) : slots[i].indexed = Size(slots, lfs, i)
    \/ IndexSound(slots, lfs, lss_index, lss_filtered_index, FALSE, ttt_min_row_time)

\* What the view shows of an index.
View(filtered, index, slots) ==
    [k \in DOMAIN filtered |->
        LET row == index[filtered[k]] IN <<slots[row[1]].file, row[2]>>]

\* The first n rows that are shown are the same lines of the same files.
Agree(n, filtered, index, slots, filtered2, index2, slots2) ==
    /\ n \in Nat /\ n <= Len(filtered) /\ n <= Len(filtered2)
    /\ \A k \in 1..n :
          LET row == index[filtered[k]]
          IN  /\ filtered2[k] = filtered[k] /\ index2[filtered[k]] = row
              /\ slots2[row[1]].file = slots[row[1]].file

\* Views with the same first n rows.
SameTo(n, v, w) == SubSeq(w, 1, n) = SubSeq(v, 1, n)

\* A function on 1..a is a sequence of that length.
LEMMA FunctionSeq ==
    ASSUME NEW S, NEW a \in Nat, NEW v \in [1..a -> S]
    PROVE  v \in Seq(S) /\ Len(v) = a
  OBVIOUS

\* Then the views begin alike.
LEMMA ViewSame ==
    ASSUME NEW n, NEW N, NEW M, NEW filtered \in Seq(N), NEW filtered2 \in Seq(M),
           NEW index, NEW index2, NEW slots, NEW slots2,
           Agree(n, filtered, index, slots, filtered2, index2, slots2)
    PROVE  SameTo(n, View(filtered, index, slots), View(filtered2, index2, slots2))
  <1> DEFINE v == View(filtered, index, slots)
             w == View(filtered2, index2, slots2)
             S == { v[k] : k \in 1..Len(filtered) } \cup { w[k] : k \in 1..Len(filtered2) }
  <1>1. /\ DOMAIN filtered = 1..Len(filtered) /\ Len(filtered) \in Nat
        /\ DOMAIN filtered2 = 1..Len(filtered2) /\ Len(filtered2) \in Nat
        /\ n \in Nat /\ n <= Len(filtered) /\ n <= Len(filtered2)
    BY DEF Agree
  <1>2. ASSUME NEW k \in 1..n PROVE v[k] = w[k]
    <2>1. k \in DOMAIN filtered /\ k \in DOMAIN filtered2
      BY <1>1
    <2> QED BY <2>1 DEF View, Agree
  <1>3. /\ v = [k \in 1..Len(filtered) |-> v[k]] /\ w = [k \in 1..Len(filtered2) |-> w[k]]
    BY <1>1 DEF View
  <1> HIDE DEF v, w
  <1>4. v \in Seq(S) /\ w \in Seq(S) /\ Len(v) = Len(filtered) /\ Len(w) = Len(filtered2)
    <2>1. (\A k \in 1..Len(filtered) : v[k] \in S) /\ (\A k \in 1..Len(filtered2) : w[k] \in S)
      OBVIOUS
    <2> HIDE DEF S
    <2> DEFINE a == Len(filtered)
               b == Len(filtered2)
    <2>2. a \in Nat /\ b \in Nat
      BY <1>1
    <2>3. v = [k \in 1..a |-> v[k]] /\ \A k \in 1..a : v[k] \in S
      BY <1>3, <2>1
    <2>4. w = [k \in 1..b |-> w[k]] /\ \A k \in 1..b : w[k] \in S
      BY <1>3, <2>1
    <2> HIDE DEF a, b
    <2>5. v \in [1..a -> S]
      BY <2>3
    <2>6. w \in [1..b -> S]
      BY <2>4
    <2> QED BY <2>2, <2>5, <2>6, FunctionSeq DEF a, b
  <1> HIDE DEF S
  <1>5. SubSeq(v, 1, n) = [k \in 1..n |-> v[k]] /\ SubSeq(w, 1, n) = [k \in 1..n |-> w[k]]
    BY <1>1, <1>4
  <1> QED BY <1>2, <1>5 DEF v, w, SameTo

\* Unless all is redone anyhow, the rows are still of the same files.
RowsStay(slots, force0) ==
    /\ lss_filtered_index \in Seq(1..Len(lss_index))
    /\ \/ force0
       \/ \A k \in 1..Len(lss_index) :
             LET i == lss_index[k][1]
             IN  i \in DOMAIN slots /\ slots[i].file = lss_files[i].file

\* The open slots are of files with a time-ordered format.
Ordered(slots) == \A i \in Open(slots) : slots[i].file \in TimeOrdered

\* rebuild_index() tells the view of what changes.
LEMMA RebuildTells ==
    ASSUME NEW slots, NEW force0 \in BOOLEAN, RowsStay(slots, force0), NEW lfs, NEW res, NEW r,
           \/ Emptied(r, slots)
           \/ Unmoved(r, slots, force0, lfs, res)
           \/ Announced(r, slots, force0),
           Ordered(slots),
           \A i \in DOMAIN slots : r.files[i].file = slots[i].file,
           r.filtered \in Seq(1..Len(r.index)),
           lss_files' = r.files, lss_index' = r.index, lss_filtered_index' = r.filtered,
           lss_force_rebuild' = r.force, told' = r.told
    PROVE  RowsKept
  <1> DEFINE n == IF told'.rr = "none" THEN Len(lss_filtered_index) ELSE told'.from
  <1>1. ASSUME ~lss_force_rebuild'
        PROVE  n = 0 \/ (~force0 /\ StartKept(r, n))
    <2>1. CASE Emptied(r, slots)
      BY <1>1, <2>1 DEF Emptied
    <2>2. CASE Unmoved(r, slots, force0, lfs, res)
      <3>1. /\ told'.rr = "none" /\ ~force0 /\ r.filtered = lss_filtered_index
            /\ r.index = lss_index
        BY <2>2 DEF Unmoved, NotTold
      <3>2. n = Len(lss_filtered_index) /\ Len(lss_filtered_index) \in Nat
        BY <3>1 DEF RowsStay
      <3>3. \A k \in 1..Len(lss_filtered_index) : lss_filtered_index[k] \in 1..Len(lss_index)
        BY ElementOfSeq DEF RowsStay
      <3> HIDE DEF n
      <3> QED BY <3>1, <3>2, <3>3 DEF StartKept
    <2>3. CASE Announced(r, slots, force0)
      BY <2>3 DEF Announced, Ordered
    <2> QED BY <2>1, <2>2, <2>3
  <1>2. lss_filtered_index \in Seq(1..Len(lss_index)) /\ Len(lss_filtered_index) \in Nat
        /\ Len(r.filtered) \in Nat
    BY DEF RowsStay
  <1>3. ASSUME ~lss_force_rebuild'
        PROVE  Agree(n, lss_filtered_index, lss_index, lss_files,
                     r.filtered, r.index, r.files)
    <2> HIDE DEF n
    <2>1. CASE n = 0
      BY <1>2, <2>1 DEF Agree
    <2>2. CASE ~force0 /\ StartKept(r, n)
      <3>1. /\ n \in Nat /\ n <= Len(lss_filtered_index) /\ n <= Len(r.filtered)
        BY <1>2, <2>2 DEF StartKept
      <3>2. ASSUME NEW k \in 1..n
            PROVE  LET row == lss_index[lss_filtered_index[k]]
                   IN  /\ r.filtered[k] = lss_filtered_index[k]
                       /\ r.index[lss_filtered_index[k]] = row
                       /\ r.files[row[1]].file = lss_files[row[1]].file
        <4>1. /\ r.filtered[k] = lss_filtered_index[k] /\ lss_filtered_index[k] \in 1..Len(lss_index)
              /\ r.index[r.filtered[k]] = lss_index[r.filtered[k]]
          BY <2>2 DEF StartKept
        <4> DEFINE j == lss_filtered_index[k]
        <4>2. j \in 1..Len(lss_index) /\ r.index[j] = lss_index[j]
          BY <4>1
        <4> HIDE DEF j
        <4>3. r.files[lss_index[j][1]].file = lss_files[lss_index[j][1]].file
          BY <2>2, <4>2 DEF RowsStay
        <4> QED BY <4>1, <4>2, <4>3 DEF j
      <3> QED BY <3>1, <3>2 DEF Agree
    <2> QED BY <1>1, <1>3, <2>1, <2>2
  <1>4. ViewRows = View(lss_filtered_index, lss_index, lss_files)
        /\ ViewRows' = View(r.filtered, r.index, r.files)
    BY DEF ViewRows, View
  <1>5. ASSUME ~lss_force_rebuild'
        PROVE  SubSeq(ViewRows', 1, n) = SubSeq(ViewRows, 1, n)
    <2> DEFINE N == 1..Len(lss_index)
               M == 1..Len(r.index)
    <2>1. lss_filtered_index \in Seq(N) /\ r.filtered \in Seq(M)
      BY <1>2
    <2> HIDE DEF n, N, M
    <2>2. SameTo(n, View(lss_filtered_index, lss_index, lss_files),
                    View(r.filtered, r.index, r.files))
      <3>1. Agree(n, lss_filtered_index, lss_index, lss_files, r.filtered, r.index, r.files)
        BY <1>3, <1>5
      <3> QED BY <2>1, <3>1, ViewSame
    <2> QED BY <1>4, <2>2 DEF SameTo
  <1> QED BY <1>5 DEF RowsKept

\* rebuild_index() keeps the invariant, and tells the view.
LEMMA RebuildKeeps ==
    ASSUME disk \in [Files -> Seq(Line)], ba_capacity \in Nat, ttt_min_row_time \in Nat,
           NEW slots, NEW force0 \in BOOLEAN, NEW lfs, NEW res, NEW timeLeft \in BOOLEAN,
           Ready(slots, force0, lfs, res, timeLeft), FilesInv(lfs, slots),
           SoundAsIs(slots, force0, lfs, res), RowsStay(slots, force0),
           lf' = lfs, RebuildIndex(slots, force0, lfs, res, timeLeft),
           UNCHANGED <<disk, ttt_min_row_time>>
    PROVE  Inv' /\ (Ordered(slots) => RowsKept)
  <1>1. PICK r \in Rebuilt(slots, force0, lfs, res, timeLeft) :
           /\ lss_files' = r.files /\ lss_index' = r.index /\ lss_filtered_index' = r.filtered
           /\ lss_force_rebuild' = r.force /\ ba_capacity' = r.capacity /\ told' = r.told
    BY DEF RebuildIndex
  <1>2. /\ r.capacity \in Nat
        /\ \/ Emptied(r, slots)
           \/ Unmoved(r, slots, force0, lfs, res)
           \/ Complete(r, slots, lfs) /\ Announced(r, slots, force0)
    BY RebuiltIs
  <1>3. SlotsSound(slots) /\ FilesSound(lfs) /\ slots \in Seq(Slot)
    BY DEF Ready, SlotsSound
  <1>4. /\ DOMAIN r.files = DOMAIN slots /\ \A i \in DOMAIN slots : r.files[i].file = slots[i].file
        /\ IndexSound(r.files, lfs, r.index, r.filtered, r.force, ttt_min_row_time)
    <2>1. CASE Emptied(r, slots)
      <3> DEFINE counts == [i \in DOMAIN slots |-> 0]
      <3>1. r.files = Indexed(slots, counts) /\ \A i \in DOMAIN slots : counts[i] \in Nat
        BY <2>1 DEF Emptied
      <3> HIDE DEF counts
      <3>2. Alike(slots, r.files)
        BY <1>3, <3>1, IndexedIs
      <3>3. IndexSound(r.files, lfs, r.index, r.filtered, r.force, ttt_min_row_time)
        BY <1>3, <2>1, EmptiedSound
      <3> QED BY <3>2, <3>3 DEF Alike
    <2>2. CASE Complete(r, slots, lfs)
      <3> DEFINE counts == [i \in DOMAIN slots |->
                              IF i \in Open(slots) THEN Size(slots, lfs, i) ELSE 0]
      <3>1. r.files = Indexed(slots, counts) /\ \A i \in DOMAIN slots : counts[i] \in Nat
        BY <1>3, <2>2, SlotTimes DEF Complete
      <3> HIDE DEF counts
      <3>2. Alike(slots, r.files)
        BY <1>3, <3>1, IndexedIs
      <3>3. IndexSound(r.files, lfs, r.index, r.filtered, r.force, ttt_min_row_time)
        BY <1>3, <2>2, CompleteSound
      <3> QED BY <3>2, <3>3 DEF Alike
    <2>3. CASE Unmoved(r, slots, force0, lfs, res)
      BY <2>3 DEF Unmoved, SoundAsIs
    <2> QED BY <1>2, <2>1, <2>2, <2>3
  <1>5. FilesInv(lfs, r.files)
    BY <1>4, FilesStay
  <1>6. FilesInv(lf, lss_files)'
    BY <1>1, <1>5 DEF FilesInv
  <1>7. IndexSound(lss_files', lf', lss_index', lss_filtered_index', lss_force_rebuild',
                   ttt_min_row_time')
    BY <1>1, <1>4
  <1>8. ASSUME Ordered(slots) PROVE RowsKept
    <2>1. r.filtered \in Seq(1..Len(r.index))
      BY <1>4 DEF IndexSound
    <2> QED BY <1>1, <1>2, <1>4, <1>8, <2>1, RebuildTells
  <1> QED BY <1>1, <1>2, <1>6, <1>7, <1>8 DEF Inv

\* What a sound index gives rebuild_index() to rely on.
LEMMA SoundReady ==
    ASSUME NEW slots, NEW lfs, FilesInv(lfs, slots),
           IndexSound(slots, lfs, lss_index, lss_filtered_index, FALSE, ttt_min_row_time)
    PROVE  /\ SlotsSound(slots) /\ Freed(slots)
           /\ \A i \in Open(slots) : slots[i].indexed <= Size(slots, lfs, i)
           /\ lss_index = << >> => Held(slots) = {} /\ lss_filtered_index = << >>
  <1>1. /\ SlotsSound(slots) /\ Freed(slots) /\ Caught(slots, lfs, lss_index, FALSE)
        /\ Exactly(lss_index, Held(slots)) /\ lss_filtered_index \in Seq(1..Len(lss_index))
    BY DEF IndexSound
  <1>2. \A i \in Open(slots) : slots[i].indexed <= Size(slots, lfs, i)
    BY <1>1, CaughtBound
  <1>3. ASSUME lss_index = << >> PROVE Held(slots) = {} /\ lss_filtered_index = << >>
    <2>1. 1..Len(lss_index) = {}
      BY <1>3
    <2>2. Held(slots) = {}
      BY <1>1, <2>1 DEF Exactly
    <2>3. lss_filtered_index \in Seq({})
      BY <1>1, <2>1
    <2> QED BY <2>2, <2>3
  <1> QED BY <1>1, <1>2, <1>3

\* A pass keeps the invariant, and tells the view.
LEMMA PassKeeps ==
    ASSUME Benign, Inv, NEW p \in Promotable \cup {NoFile}, NEW paused \in BOOLEAN,
           NEW late \in BOOLEAN, RebuildIndexes(p, paused, late),
           UNCHANGED <<disk, ttt_min_row_time>>
    PROVE  Inv' /\ (TimeOrdered = Files => RowsKept)
  <1> DEFINE in    == IF p = NoFile THEN lss_files ELSE InsertFile(lss_files, p)
             slots == RemoveFiles(in, Gone)
             open  == Open(slots)
             alone == late /\ ~paused /\ Cardinality(open) = 1
             lost  == { f \in Gone : \E i \in DOMAIN lss_files : lss_files[i].file = f }
             force == lss_force_rebuild \/ RemoveForces(lost)
             kept  == KeptFiles(p)
             idle  == [i \in open |-> "SKIPPED"]
  <1>1. /\ disk \in [Files -> Seq(Line)] /\ ba_capacity \in Nat /\ ttt_min_row_time \in Nat
        /\ FilesInv(lf, lss_files) /\ SlotsSound(lss_files) /\ lss_force_rebuild \in BOOLEAN
    BY DEF Inv, IndexSound
  <1>2. \/ /\ paused \/ alone
           /\ lf' = kept /\ RebuildIndex(slots, force, kept, idle, ~alone)
        \/ \E out \in ScanAll(slots, kept) :
              lf' = out.lfs /\ RebuildIndex(slots, force, out.lfs, out.res, TRUE)
    BY Zenon DEF RebuildIndexes, KeptFiles, Gone
  <1>3. Slotted(lss_files, slots, p, Gone)
    <2>1. /\ p \in Files \cup {NoFile} /\ (p # NoFile => ~InSlot(lss_files, p)) /\ Gone \in SUBSET Files
          /\ p \notin Gone
      BY EnvAssumption DEF Promotable, InSlot, Gone
    <2> QED BY <1>1, <2>1, SlotsOfPass
  <1> HIDE DEF in, slots, kept
  <1>4. /\ SlotsSound(slots) /\ FilesInv(kept, slots) /\ \A f \in Files : kept[f].state # "closed"
        /\ Gone = {} /\ ~lss_force_rebuild =>
              IndexSound(slots, kept, lss_index, lss_filtered_index, FALSE, ttt_min_row_time)
    BY <1>3, Prepared DEF kept
  <1>5. force \in BOOLEAN /\ (~alone) \in BOOLEAN
    BY <1>1 DEF RemoveForces
  <1>6. ASSUME ~force
        PROVE  /\ IndexSound(slots, kept, lss_index, lss_filtered_index, FALSE, ttt_min_row_time)
               /\ Gone = {}
    <2>1. ~lss_force_rebuild /\ lost = {}
      BY <1>6 DEF RemoveForces
    <2>2. ASSUME NEW f \in Gone PROVE FALSE
      <3>1. f \in Files /\ lf[f].state = "closed" /\ ~InSlot(lss_files, f)
        BY <2>1 DEF Gone, InSlot
      <3>2. FileSound(lf[f], disk[f], InSlot(lss_files, f))
        BY <1>1, <3>1 DEF FilesInv
      <3> QED BY <3>1, <3>2 DEF FileSound
    <2> QED BY <1>4, <2>1, <2>2
  <1>7. RowsStay(slots, force)
    <2>1. /\ lss_filtered_index \in Seq(1..Len(lss_index))
          /\ lss_index \in Seq(Held(lss_files))
      BY DEF Inv, IndexSound, Exactly
    <2>2. ASSUME ~force, NEW k \in 1..Len(lss_index)
          PROVE  LET i == lss_index[k][1]
                 IN  i \in DOMAIN slots /\ slots[i].file = lss_files[i].file
      <3>1. lss_index[k] \in Held(lss_files)
        BY <2>1, ElementOfSeq
      <3> DEFINE i == lss_index[k][1]
      <3>2. i \in Open(lss_files)
        BY <3>1 DEF Held
      <3> HIDE DEF i
      <3>3. Gone = {}
        BY <1>6, <2>2
      <3>4. i \in Open(slots) /\ slots[i] = lss_files[i]
        BY <1>3, <3>2, <3>3 DEF Slotted
      <3>5. i \in DOMAIN slots
        BY <3>4 DEF Open
      <3> QED BY <3>4, <3>5 DEF i
    <2> HIDE DEF force
    <2> QED BY <1>5, <2>1, <2>2 DEF RowsStay
  <1>8. ASSUME TimeOrdered = Files PROVE Ordered(slots)
    BY <1>4, <1>8, SlotFile DEF Ordered
  <1> HIDE DEF force, lost
  <1>9. CASE lf' = kept /\ RebuildIndex(slots, force, kept, idle, ~alone)
    <2>1. Skipped(slots, idle)
      BY DEF Skipped
    <2>2. PICK left \in BOOLEAN : left = ~alone
      BY <1>5
    <2> HIDE DEF idle, alone
    <2>3. FilesSound(kept)
      BY <1>4, FilesAre
    <2>4. Ready(slots, force, kept, idle, left)
      <3>1. force \/ /\ Freed(slots)
                     /\ \A i \in Open(slots) : slots[i].indexed <= Size(slots, kept, i)
                     /\ lss_index = << >> => Held(slots) = {} /\ lss_filtered_index = << >>
        BY <1>4, <1>6, SoundReady
      <3> QED BY <1>4, <2>1, <2>3, <3>1 DEF Ready
    <2>5. lf' = kept /\ RebuildIndex(slots, force, kept, idle, left)
      BY <1>9, <2>2
    <2>6. SoundAsIs(slots, force, kept, idle)
      BY <1>6 DEF SoundAsIs
    <2>7. Inv' /\ (Ordered(slots) => RowsKept)
      BY <1>1, <1>4, <1>5, <1>7, <2>4, <2>5, <2>6, RebuildKeeps
    <2> QED BY <1>8, <2>7
  <1>10. ASSUME NEW out \in ScanAll(slots, kept), lf' = out.lfs,
               RebuildIndex(slots, force, out.lfs, out.res, TRUE)
        PROVE  Inv' /\ (TimeOrdered = Files => RowsKept)
    <2>1. AllScanned(out, slots, kept)
      BY <1>4, ScanAllIs
    <2>2. ASSUME NEW f \in Files PROVE FileSound(out.lfs[f], disk[f], InSlot(slots, f))
      <3>1. CASE InSlot(slots, f)
        <4>1. PICK i \in Open(slots) : slots[i].file = f
          BY <3>1, EnvAssumption DEF InSlot, Open
        <4>2. PICK s \in Scans(slots[i], kept[f]) : out.lfs[f] = s.lf /\ out.res[i] = s.res
          BY <2>1, <4>1 DEF AllScanned
        <4>3. FileSound(kept[f], disk[f], TRUE) /\ InSlot(slots, f) = TRUE
          BY <1>4, <4>1, SlotFile DEF InSlot
        <4>4. Scanned(s, kept[f], f)
          BY <1>4, <4>1, <4>2, <4>3, ScanIs
        <4> QED BY <4>2, <4>3, <4>4 DEF Scanned
      <3>2. CASE ~InSlot(slots, f)
        <4>1. out.lfs[f] = kept[f]
          BY <2>1, <3>2 DEF AllScanned
        <4> QED BY <1>4, <4>1 DEF FilesInv
      <3> QED BY <3>1, <3>2
    <2>3. FilesInv(out.lfs, slots)
      BY <2>1, <2>2 DEF AllScanned, FilesInv
    <2>4. FilesSound(out.lfs)
      BY <2>3, FilesAre
    <2>5. ASSUME NEW i \in Open(slots)
          PROVE  out.res[i] \in {"NO_NEW_LINES", "NEW_LINES", "NEW_ORDER", "INVALID"}
      <3>1. slots[i].file \in Files /\ FileSound(kept[slots[i].file], disk[slots[i].file], TRUE)
        BY <1>4, SlotFile
      <3>2. PICK s \in Scans(slots[i], kept[slots[i].file]) : out.res[i] = s.res
        BY <2>1 DEF AllScanned
      <3>3. Scanned(s, kept[slots[i].file], slots[i].file)
        BY <1>4, <3>1, <3>2, ScanIs
      <3> QED BY <3>2, <3>3 DEF Scanned
    <2>6. ASSUME ~force
          PROVE  /\ Freed(slots)
                 /\ \A i \in Open(slots) : slots[i].indexed <= Size(slots, out.lfs, i)
                 /\ lss_index = << >> => Held(slots) = {} /\ lss_filtered_index = << >>
                 /\ \/ \E i \in Open(slots) : out.res[i] \in {"NEW_ORDER", "INVALID"}
                    \/ Calm(slots, out.lfs, out.res)
                 /\ lss_filtered_index \in Seq(1..Len(lss_index))
      <3>1. IndexSound(slots, kept, lss_index, lss_filtered_index, FALSE, ttt_min_row_time)
        BY <1>6, <2>6
      <3>2. /\ Freed(slots)
            /\ lss_index = << >> => Held(slots) = {} /\ lss_filtered_index = << >>
        BY <1>4, <3>1, SoundReady
      <3>3. /\ \A i \in Open(slots) : slots[i].indexed <= Size(slots, out.lfs, i)
            /\ \/ \E i \in Open(slots) : out.res[i] \in {"NEW_ORDER", "INVALID"}
               \/ Calm(slots, out.lfs, out.res)
        BY <1>4, <2>1, <3>1, ScanCalm
      <3>4. lss_filtered_index \in Seq(1..Len(lss_index))
        BY <3>1 DEF IndexSound
      <3> QED BY <3>2, <3>3, <3>4
    <2>7. Ready(slots, force, out.lfs, out.res, TRUE)
      <3>1. CASE force
        BY <1>4, <2>4, <3>1 DEF Ready
      <3>2. CASE ~force
        BY <1>4, <2>4, <2>6, <3>2 DEF Ready
      <3> QED BY <3>1, <3>2
    <2>8. ASSUME ~force, \/ Skipped(slots, out.res)
                         \/ /\ Calm(slots, out.lfs, out.res)
                            /\ \A i \in Open(slots) : slots[i].indexed = Size(slots, out.lfs, i)
          PROVE  IndexSound(slots, out.lfs, lss_index, lss_filtered_index, FALSE, ttt_min_row_time)
      <3>1. ASSUME Skipped(slots, out.res), NEW i \in Open(slots) PROVE FALSE
        BY <2>5, <3>1 DEF Skipped
      <3>2. /\ Calm(slots, out.lfs, out.res)
            /\ \A i \in Open(slots) : slots[i].indexed = Size(slots, out.lfs, i)
        BY <2>6, <2>8, <3>1
      <3>3. Exactly(lss_index, Held(slots)) /\ InTime(lss_index, slots, out.lfs)
        BY <3>2, SortedIs DEF Calm
      <3>4. RowsShown(lss_filtered_index, slots, out.lfs, ttt_min_row_time, lss_index)
        BY <3>2 DEF Calm, RowsShown
      <3>5. Caught(slots, out.lfs, lss_index, FALSE)
        BY <3>2 DEF Caught
      <3> QED BY <1>4, <2>6, <2>8, <3>3, <3>4, <3>5 DEF IndexSound
    <2>9. TRUE \in BOOLEAN
      OBVIOUS
    <2>10. SoundAsIs(slots, force, out.lfs, out.res)
      BY <2>8 DEF SoundAsIs
    <2>11. Inv' /\ (Ordered(slots) => RowsKept)
      BY <1>1, <1>5, <1>10, <1>7, <2>3, <2>7, <2>9, <2>10, RebuildKeeps
    <2> QED BY <1>8, <2>11
  <1> QED BY <1>2, <1>9, <1>10

-----------------------------------------------------------------------------
(* Writers and user.                                                       *)

\* What a writer does to a file leaves the index alone.
LEMMA WritingKeeps ==
    ASSUME Inv, NEW f \in Files, NEW lines \in Seq(Line), disk' = [disk EXCEPT ![f] = lines],
           FileSound(lf[f], lines, InSlot(lss_files, f)),
           UNCHANGED <<lf, lss, ttt_min_row_time>>
    PROVE  Inv'
  <1>1. disk \in [Files -> Seq(Line)] /\ FilesInv(lf, lss_files)
    BY DEF Inv
  <1>2. disk' \in [Files -> Seq(Line)]
    BY <1>1
  <1>3. ASSUME NEW g \in Files PROVE FileSound(lf[g], disk'[g], InSlot(lss_files, g))
    <2>1. CASE g = f
      <3>1. disk'[g] = lines
        BY <1>1, <2>1
      <3> QED BY <2>1, <3>1
    <2>2. CASE g # f
      <3>1. disk'[g] = disk[g]
        BY <1>1, <2>2
      <3> QED BY <1>1, <3>1 DEF FilesInv
    <2> QED BY <2>1, <2>2
  <1>4. FilesInv(lf, lss_files)'
    BY <1>1, <1>3 DEF FilesInv, lss
  <1> QED BY <1>2, <1>4 DEF Inv, lss

\* A line that is written behind those that were read.
LEMMA WriteLineKeeps ==
    ASSUME Inv, NEW f \in Files, NEW line \in Line, WriteLine(f, line)
    PROVE  Inv'
  <1> DEFINE w == disk[f]
             lines == Append(w, line)
  <1>1. /\ disk' = [disk EXCEPT ![f] = lines] /\ lf[f].state = "ok" /\ Len(w) < MaxLines
        /\ UNCHANGED <<lf, lss, ttt_min_row_time>>
    BY DEF WriteLine
  <1>2. FileSound(lf[f], w, InSlot(lss_files, f))
    BY DEF Inv, FilesInv
  <1>3. w \in Seq(Line) /\ lf[f].seen \in Seq(Line) /\ MaxLines \in Nat
    BY <1>2, EnvAssumption DEF FileSound, LogFile
  <1>4. /\ Len(lf[f].seen) <= Len(w)
        /\ \A l \in 1..Len(lf[f].seen) : lf[f].seen[l].ts = w[l].ts
    BY <1>1, <1>2 DEF FileSound
  <1> HIDE DEF w
  <1>5. /\ lines \in Seq(Line) /\ Len(lines) = Len(w) + 1 /\ Len(w) \in Nat
        /\ \A l \in 1..Len(w) : lines[l] = w[l]
    BY <1>3
  <1> HIDE DEF lines
  <1>6. /\ Len(lf[f].seen) <= Len(lines) /\ Len(lines) <= MaxLines
        /\ \A l \in 1..Len(lf[f].seen) : lf[f].seen[l].ts = lines[l].ts
    <2>1. Len(lf[f].seen) \in Nat
      BY <1>3
    <2>2. \A l \in 1..Len(lf[f].seen) : l \in 1..Len(w)
      BY <1>4, <1>5, <2>1
    <2> QED BY <1>1, <1>3, <1>4, <1>5, <2>1, <2>2 DEF w
  <1>7. FileSound(lf[f], lines, InSlot(lss_files, f))
    BY <1>2, <1>5, <1>6 DEF FileSound
  <1> QED BY <1>1, <1>5, <1>7, WritingKeeps

\* The last line is finished; its timestamp was already known.
LEMMA FinishLineKeeps ==
    ASSUME Benign, Inv, NEW f \in Files, NEW ts \in 0..MaxTime, FinishLine(f, ts)
    PROVE  Inv'
  <1> DEFINE w == disk[f]
             n == Len(w)
             line == [ts |-> ts, whole |-> TRUE]
             lines == [w EXCEPT ![n] = line]
  <1>1. /\ lf[f].state = "ok" /\ n > 0 /\ ts = w[n].ts
        /\ UNCHANGED <<lf, lss, ttt_min_row_time>>
    BY DEF FinishLine, Benign
  <1>2. FileSound(lf[f], w, InSlot(lss_files, f)) /\ disk \in [Files -> Seq(Line)]
    BY DEF Inv, FilesInv
  <1>3. disk' = [disk EXCEPT ![f] = lines]
    BY DEF FinishLine
  <1>4. w \in Seq(Line) /\ lf[f].seen \in Seq(Line) /\ MaxLines \in Nat /\ Len(w) <= MaxLines
        /\ Len(lf[f].seen) <= Len(w)
        /\ \A l \in 1..Len(lf[f].seen) : lf[f].seen[l].ts = w[l].ts
    BY <1>1, <1>2, EnvAssumption DEF FileSound, LogFile
  <1>5. line \in Line /\ line.ts = ts
    BY DEF Line
  <1> HIDE DEF w, line
  <1>6. /\ lines \in Seq(Line) /\ Len(lines) = n /\ n \in Nat
        /\ \A l \in 1..n : lines[l].ts = w[l].ts
    BY <1>1, <1>4, <1>5
  <1> HIDE DEF lines, n
  <1>7. \A l \in 1..Len(lf[f].seen) : lf[f].seen[l].ts = lines[l].ts
    <2>1. Len(lf[f].seen) \in Nat
      BY <1>4
    <2>2. \A l \in 1..Len(lf[f].seen) : l \in 1..n
      BY <1>4, <1>6, <2>1 DEF n
    <2> QED BY <1>4, <1>6, <2>2
  <1>8. FileSound(lf[f], lines, InSlot(lss_files, f))
    BY <1>2, <1>4, <1>6, <1>7 DEF FileSound, n
  <1> QED BY <1>1, <1>3, <1>6, <1>8, WritingKeeps

\* Logfiles with the same lines: the index stays sound while a file waits to be
\* sorted, and when no clock is shifted.
LEMMA IndexKept ==
    ASSUME NEW slots, NEW lfs, NEW index, NEW filtered, NEW force, NEW min,
           IndexSound(slots, lfs, index, filtered, force, min),
           NEW lfs2, \A f \in Files : lfs2[f].seen = lfs[f].seen,
           \/ ~Quiet(lfs2)
           \/ \A f \in Files : lfs2[f].offset = lfs[f].offset /\ lfs2[f].sort = lfs[f].sort
    PROVE  IndexSound(slots, lfs2, index, filtered, force, min)
  <1>1. /\ SlotsSound(slots) /\ Caught(slots, lfs, index, force) /\ index \in Seq(Held(slots))
    BY DEF IndexSound, Exactly
  <1>2. \A i \in Open(slots) : slots[i].file \in Files
    BY <1>1, SlotParts DEF SlotsSound
  <1>3. \A i \in Open(slots) : Size(slots, lfs2, i) = Size(slots, lfs, i)
    BY <1>2 DEF Size
  <1>4. Caught(slots, lfs2, index, force)
    BY <1>1, <1>3 DEF Caught
  <1>5. ASSUME Quiet(lfs2)
        PROVE  /\ InTime(index, slots, lfs2)
               /\ ~force => RowsShown(filtered, slots, lfs2, min, index)
    <2>1. \A f \in Files : lfs2[f].offset = lfs[f].offset /\ lfs2[f].sort = lfs[f].sort
      BY <1>5
    <2>2. Quiet(lfs)
      BY <1>5, <2>1 DEF Quiet
    <2>3. SameRows(slots, lfs, slots, lfs2, Held(slots))
      <3> SUFFICES ASSUME NEW r \in Held(slots)
                   PROVE  RowTime(slots, lfs2, r) = RowTime(slots, lfs, r)
        BY DEF SameRows
      <3>1. slots[r[1]].file \in Files
        BY <1>2 DEF Held
      <3> QED BY <2>1, <3>1 DEF RowTime, Times
    <2>4. InTime(index, slots, lfs) /\ (~force => RowsShown(filtered, slots, lfs, min, index))
      BY <2>2 DEF IndexSound
    <2> QED BY <1>1, <2>3, <2>4, Transfer
  <1> QED BY <1>4, <1>5 DEF IndexSound

\* A logfile changes, not what it has read.
LEMMA FileKeeps ==
    ASSUME Inv, NEW f \in Files, NEW rec, lf' = [lf EXCEPT ![f] = rec],
           disk' \in [Files -> Seq(Line)], \A g \in Files \ {f} : disk'[g] = disk[g],
           FileSound(rec, disk'[f], InSlot(lss_files, f)), rec.seen = lf[f].seen,
           rec.sort \/ (rec.offset = lf[f].offset /\ rec.sort = lf[f].sort),
           UNCHANGED <<lss, ttt_min_row_time>>
    PROVE  Inv'
  <1>1. /\ FilesInv(lf, lss_files) /\ DOMAIN lf = Files /\ lf = [g \in Files |-> lf[g]]
        /\ IndexSound(lss_files, lf, lss_index, lss_filtered_index, lss_force_rebuild,
                      ttt_min_row_time)
    BY DEF Inv, FilesInv
  <1>2. /\ DOMAIN lf' = Files /\ lf' = [g \in Files |-> lf'[g]] /\ lf'[f] = rec
        /\ \A g \in Files \ {f} : lf'[g] = lf[g]
    BY <1>1
  <1>3. ASSUME NEW g \in Files PROVE FileSound(lf'[g], disk'[g], InSlot(lss_files, g))
    <2>1. CASE g = f
      BY <1>2, <2>1
    <2>2. CASE g # f
      BY <1>1, <1>2, <2>2 DEF FilesInv
    <2> QED BY <2>1, <2>2
  <1>4. FilesInv(lf, lss_files)'
    BY <1>2, <1>3 DEF FilesInv, lss
  <1>5. \A g \in Files : lf'[g].seen = lf[g].seen
    BY <1>2
  <1>6. \/ ~Quiet(lf')
        \/ \A g \in Files : lf'[g].offset = lf[g].offset /\ lf'[g].sort = lf[g].sort
    BY <1>2 DEF Quiet
  <1>7. IndexSound(lss_files, lf', lss_index, lss_filtered_index, lss_force_rebuild,
                   ttt_min_row_time)
    BY <1>1, <1>5, <1>6, IndexKept
  <1> QED BY <1>4, <1>7 DEF Inv, lss

\* A file that is removed or truncated keeps what was read until a pass meets it.
LEMMA LoseFileKeeps ==
    ASSUME Inv, NEW f \in Files, NEW state \in {"closed", "truncated"}, LoseFile(f, state)
    PROVE  Inv'
  <1> DEFINE rec == [lf[f] EXCEPT !.state = state]
  <1>1. /\ lf[f].state = "ok" /\ lf[f].seen # << >> /\ lf' = [lf EXCEPT ![f] = rec]
        /\ disk' = [disk EXCEPT ![f] = << >>]
        /\ state = "truncated" => "truncate" \in Env
        /\ UNCHANGED <<lss, ttt_min_row_time>>
    BY DEF LoseFile
  <1>2. FileSound(lf[f], disk[f], InSlot(lss_files, f)) /\ disk \in [Files -> Seq(Line)]
    BY DEF Inv, FilesInv
  <1>3. /\ disk' \in [Files -> Seq(Line)] /\ disk'[f] = << >>
        /\ \A g \in Files \ {f} : disk'[g] = disk[g]
    BY <1>1, <1>2
  <1>4. /\ rec \in LogFile /\ rec.seen = lf[f].seen /\ rec.offset = lf[f].offset
        /\ rec.sort = lf[f].sort /\ rec.state = state
    BY <1>2 DEF FileSound, LogFile
  <1> HIDE DEF rec
  <1>5. InSlot(lss_files, f)
    BY <1>1, <1>2 DEF FileSound
  <1>6. << >> \in Seq(Line) /\ Len(<< >>) <= MaxLines
    BY EnvAssumption
  <1>7. FileSound(rec, << >>, InSlot(lss_files, f))
    BY <1>1, <1>2, <1>4, <1>5, <1>6 DEF FileSound
  <1> QED BY <1>1, <1>3, <1>4, <1>7, FileKeeps

\* A file that is opened has no slot and nothing to index yet.
LEMMA OpenFileKeeps ==
    ASSUME Inv, NEW f \in Files, OpenFile(f)
    PROVE  Inv'
  <1> DEFINE rec == [lf[f] EXCEPT !.state = "ok"]
  <1>1. /\ lf[f].state = "absent" /\ lf' = [lf EXCEPT ![f] = rec]
        /\ UNCHANGED <<disk, lss, ttt_min_row_time>>
    BY DEF OpenFile
  <1>2. FileSound(lf[f], disk[f], InSlot(lss_files, f)) /\ disk \in [Files -> Seq(Line)]
    BY DEF Inv, FilesInv
  <1>3. disk' \in [Files -> Seq(Line)] /\ \A g \in Files : disk'[g] = disk[g]
    BY <1>1, <1>2
  <1>4. /\ rec \in LogFile /\ rec.seen = lf[f].seen /\ rec.offset = lf[f].offset
        /\ rec.sort = lf[f].sort /\ rec.state = "ok"
    BY <1>2 DEF FileSound, LogFile
  <1> HIDE DEF rec
  <1>5. ~InSlot(lss_files, f) /\ lf[f].seen = << >>
    BY <1>1, <1>2 DEF FileSound
  <1>6. Len(<< >>) <= Len(disk[f]) /\ \A l \in 1..Len(<< >>) : FALSE
    BY <1>2
  <1>7. FileSound(rec, disk[f], InSlot(lss_files, f))
    BY <1>1, <1>2, <1>4, <1>5, <1>6 DEF FileSound
  <1> QED BY <1>1, <1>3, <1>4, <1>7, FileKeeps

\* A shifted file asks to be sorted; until then only the order is in doubt.
LEMMA AdjustKeeps ==
    ASSUME Inv, NEW f \in Files, AdjustContentTime(f)
    PROVE  Inv'
  <1> DEFINE rec == [lf[f] EXCEPT !.offset = 1 - @, !.sort = TRUE]
  <1>1. /\ "adjust" \in Env /\ InSlot(lss_files, f)
        /\ UNCHANGED <<disk, lss, ttt_min_row_time>>
    BY DEF AdjustContentTime, InSlot
  <1>2. FileSound(lf[f], disk[f], InSlot(lss_files, f)) /\ disk \in [Files -> Seq(Line)]
        /\ lf = [g \in Files |-> lf[g]]
    BY DEF Inv, FilesInv
  <1>3. lf' = [lf EXCEPT ![f] = rec]
    BY <1>2 DEF AdjustContentTime
  <1>4. disk' \in [Files -> Seq(Line)] /\ \A g \in Files : disk'[g] = disk[g]
    BY <1>1, <1>2
  <1>5. lf[f].offset \in {0, 1} /\ 1 - lf[f].offset \in {0, 1}
    BY <1>2 DEF FileSound
  <1>6. /\ rec \in LogFile /\ rec.seen = lf[f].seen /\ rec.offset = 1 - lf[f].offset
        /\ rec.sort = TRUE /\ rec.state = lf[f].state
    <2> DEFINE o == 1 - lf[f].offset
    <2>1. o \in Nat
      BY <1>5
    <2>2. rec = [lf[f] EXCEPT !.offset = o, !.sort = TRUE]
      OBVIOUS
    <2>3. lf[f] \in LogFile
      BY <1>2 DEF FileSound
    <2> HIDE DEF o, rec
    <2>4. /\ rec \in LogFile /\ rec.seen = lf[f].seen /\ rec.offset = o
          /\ rec.sort = TRUE /\ rec.state = lf[f].state
      BY <2>1, <2>2, <2>3 DEF LogFile
    <2> QED BY <2>4 DEF o
  <1> HIDE DEF rec
  <1>7. FileSound(rec, disk[f], InSlot(lss_files, f))
    BY <1>1, <1>2, <1>5, <1>6 DEF FileSound
  <1> QED BY <1>1, <1>3, <1>4, <1>6, <1>7, FileKeeps

\* Filtering again, after slots were hidden or shown or the time bound moved.
LEMMA FiltersKeep ==
    ASSUME Inv, NEW slots \in Seq(Slot), DOMAIN slots = DOMAIN lss_files,
           \A i \in DOMAIN slots : /\ slots[i].file = lss_files[i].file
                                   /\ slots[i].indexed = lss_files[i].indexed,
           NEW min \in Nat, TextFiltersChanged(slots, min), UNCHANGED <<disk, lf>>
    PROVE  Inv'
  <1> DEFINE old == lss_files
             rows == Held(old)
  <1>1. /\ SlotsSound(old) /\ Freed(old) /\ lss_force_rebuild \in BOOLEAN
        /\ Exactly(lss_index, rows) /\ lss_index \in Seq(rows)
        /\ lss_filtered_index \in Seq(1..Len(lss_index))
        /\ Caught(old, lf, lss_index, lss_force_rebuild)
        /\ Quiet(lf) => InTime(lss_index, old, lf)
        /\ FilesInv(lf, old) /\ disk \in [Files -> Seq(Line)] /\ ba_capacity \in Nat
    BY DEF Inv, IndexSound, Exactly
  <1>2. /\ ttt_min_row_time' = min /\ lss_files' = slots
        /\ lss_index' = lss_index /\ lss_force_rebuild' = lss_force_rebuild
        /\ ba_capacity' = ba_capacity /\ disk' = disk /\ lf' = lf
        /\ IF lss_force_rebuild
           THEN lss_filtered_index' = lss_filtered_index
           ELSE lss_filtered_index' = Filtered(slots, lf, min, lss_index, 0)
    BY DEF TextFiltersChanged
  <1>3. Open(slots) = Open(old) /\ Open(old) \subseteq DOMAIN old
    BY DEF Open
  <1>4. SlotsSound(slots) /\ Freed(slots) /\ Held(slots) = rows
    <2>1. SlotsSound(slots)
      BY <1>1, <1>3 DEF SlotsSound
    <2>2. Freed(slots)
      BY <1>1, <1>3 DEF Freed
    <2>3. Held(slots) = rows
      BY <1>3 DEF Held
    <2> QED BY <2>1, <2>2, <2>3
  <1>5. Caught(slots, lf, lss_index, lss_force_rebuild)
    <2>1. \A i \in Open(slots) : Size(slots, lf, i) = Size(old, lf, i)
      BY <1>3 DEF Size
    <2> QED BY <1>1, <1>3, <2>1 DEF Caught
  <1>6. ASSUME Quiet(lf) PROVE InTime(lss_index, slots, lf)
    <2>1. \A r \in rows : RowTime(slots, lf, r) = RowTime(old, lf, r)
      BY <1>3 DEF Held, RowTime
    <2>2. \A i \in 1..Len(lss_index) : lss_index[i] \in rows
      <3> HIDE DEF rows
      <3> QED BY <1>1
    <2>3. InTime(lss_index, old, lf)
      BY <1>1, <1>6
    <2> HIDE DEF rows
    <2> QED BY <2>1, <2>2, <2>3 DEF InTime
  <1> HIDE DEF rows
  <1>7. Len(lss_index) \in Nat /\ 0 \in 0..Len(lss_index)
    BY <1>1
  <1>8. lss_filtered_index' \in Seq(1..Len(lss_index))
    <2>1. Filtered(slots, lf, min, lss_index, 0) \in Seq((0 + 1)..Len(lss_index))
      BY <1>7, FilteredType
    <2>2. (0 + 1)..Len(lss_index) = 1..Len(lss_index)
      OBVIOUS
    <2> QED BY <1>1, <1>2, <2>1, <2>2
  <1>9. ~lss_force_rebuild => RowsShown(lss_filtered_index', slots, lf, min, lss_index)
    BY <1>2 DEF RowsShown
  <1>10. IndexSound(slots, lf, lss_index, lss_filtered_index', lss_force_rebuild, min)
    BY <1>1, <1>4, <1>5, <1>6, <1>8, <1>9 DEF IndexSound
  <1>11. FilesInv(lf, slots)
    BY <1>1, FilesStay
  <1>12. FilesInv(lf, lss_files)'
    BY <1>2, <1>11 DEF FilesInv
  <1> QED BY <1>1, <1>2, <1>10, <1>12 DEF Inv

\* Hiding or showing a file selects the shown rows anew.
LEMMA SetVisibilityKeeps ==
    ASSUME Inv, NEW i \in DOMAIN lss_files, SetVisibility(i)
    PROVE  Inv'
  <1> DEFINE v == ~lss_files[i].visible
             ld == [lss_files[i] EXCEPT !.visible = v]
             slots == [lss_files EXCEPT ![i] = ld]
  <1>1. lss_files \in Seq(Slot) /\ ttt_min_row_time \in Nat
    BY DEF Inv, IndexSound, SlotsSound
  <1>2. TextFiltersChanged(slots, ttt_min_row_time) /\ UNCHANGED <<disk, lf>>
    BY DEF SetVisibility
  <1>3. lss_files[i] \in Slot /\ v \in BOOLEAN
    BY <1>1
  <1> HIDE DEF v
  <1>4. ld \in Slot /\ ld.file = lss_files[i].file /\ ld.indexed = lss_files[i].indexed
    BY <1>3 DEF Slot
  <1> HIDE DEF ld
  <1>5. /\ slots \in Seq(Slot) /\ DOMAIN slots = DOMAIN lss_files
        /\ \A j \in DOMAIN slots : /\ slots[j].file = lss_files[j].file
                                   /\ slots[j].indexed = lss_files[j].indexed
    BY <1>1, <1>4
  <1> HIDE DEF slots
  <1> QED BY <1>1, <1>2, <1>5, FiltersKeep

\* So does moving the first time that is shown.
LEMMA SetMinRowTimeKeeps ==
    ASSUME Inv, NEW t \in 0..MaxTime, SetMinRowTime(t)
    PROVE  Inv'
  <1>1. lss_files \in Seq(Slot) /\ t \in Nat
    BY EnvAssumption DEF Inv, IndexSound, SlotsSound
  <1>2. TextFiltersChanged(lss_files, t) /\ UNCHANGED <<disk, lf>>
    BY DEF SetMinRowTime
  <1> QED BY <1>1, <1>2, FiltersKeep

\* The initial state.
LEMMA InitInv ==
    ASSUME Init
    PROVE  Inv
  <1> DEFINE rec == [Absent EXCEPT !.state = "ok"]
  <1>1. disk \in [Files -> Seq(Line)] /\ \A f \in Files : disk[f] = << >>
    BY DEF Init
  <1>2. /\ rec \in LogFile /\ rec.seen = << >> /\ rec.state = "ok" /\ rec.offset = 0
        /\ rec.sort = FALSE
    <2>1. /\ Absent \in LogFile /\ Absent.seen = << >> /\ Absent.offset = 0
          /\ Absent.sort = FALSE
      BY DEF Absent, LogFile
    <2> QED BY <2>1 DEF LogFile
  <1>3. DOMAIN lf = Files /\ lf = [f \in Files |-> lf[f]] /\ \A f \in Files : lf[f] = rec
    BY DEF Init
  <1> HIDE DEF rec
  <1>4. << >> \in Seq(Line) /\ Len(<< >>) = 0 /\ 0 <= MaxLines
    BY EnvAssumption
  <1>5. ASSUME NEW f \in Files PROVE FileSound(lf[f], disk[f], InSlot(lss_files, f))
    <2>1. ~InSlot(lss_files, f)
      BY DEF Init, InSlot
    <2>2. Len(lf[f].seen) = 0 /\ Len(disk[f]) = 0
      BY <1>1, <1>2, <1>3, <1>4
    <2> QED BY <1>1, <1>2, <1>3, <1>4, <2>1, <2>2 DEF FileSound
  <1>6. FilesInv(lf, lss_files)
    BY <1>3, <1>5 DEF FilesInv
  <1>7. /\ lss_files = << >> /\ lss_index = << >> /\ lss_filtered_index = << >>
        /\ lss_force_rebuild = FALSE /\ ba_capacity = 0 /\ ttt_min_row_time = 0
    BY DEF Init
  <1>8. SlotsSound(<< >>) /\ Freed(<< >>) /\ Open(<< >>) = {}
    BY DEF SlotsSound, Freed, Open
  <1>9. Held(<< >>) = {}
    BY <1>8 DEF Held
  <1>10. Exactly(<< >>, Held(<< >>)) /\ InTime(<< >>, << >>, lf) /\ Caught(<< >>, lf, << >>, FALSE)
         /\ << >> \in Seq(1..Len(<< >>))
    BY <1>8, <1>9 DEF Exactly, InTime, Caught
  <1>11. RowsShown(<< >>, << >>, lf, 0, << >>)
    <2>1. Len(<< >>) = 0
      OBVIOUS
    <2>2. Filtered(<< >>, lf, 0, << >>, 0) = << >>
      BY <2>1, FilteredEmpty
    <2> QED BY <2>2 DEF RowsShown
  <1>12. IndexSound(<< >>, lf, << >>, << >>, FALSE, 0)
    BY <1>8, <1>10, <1>11 DEF IndexSound
  <1> QED BY <1>1, <1>6, <1>7, <1>12 DEF Inv

\* Every step keeps the invariant.
LEMMA NextInv ==
    ASSUME Benign, Inv, [Next]_vars
    PROVE  Inv'
  <1>1. CASE Pass
    <2>1. PICK p \in Promotable \cup {NoFile},
               paused \in (IF "pause" \in Env THEN BOOLEAN ELSE {FALSE}),
               late \in (IF "deadline" \in Env THEN BOOLEAN ELSE {FALSE}) :
             RebuildIndexes(p, paused, late)
      BY <1>1 DEF Pass
    <2>2. paused \in BOOLEAN /\ late \in BOOLEAN /\ UNCHANGED <<disk, ttt_min_row_time>>
      BY <1>1 DEF Pass
    <2> QED BY <2>1, <2>2, PassKeeps
  <1>2. CASE WriterStep
    BY <1>2, WriteLineKeeps, FinishLineKeeps, LoseFileKeeps, OpenFileKeeps DEF WriterStep
  <1>3. CASE UserStep
    BY <1>3, SetVisibilityKeeps, SetMinRowTimeKeeps, AdjustKeeps DEF UserStep
  <1>4. CASE UNCHANGED vars
    <2>1. /\ disk' = disk /\ lf' = lf /\ lss_files' = lss_files /\ lss_index' = lss_index
          /\ lss_filtered_index' = lss_filtered_index /\ lss_force_rebuild' = lss_force_rebuild
          /\ ba_capacity' = ba_capacity /\ ttt_min_row_time' = ttt_min_row_time
      BY <1>4 DEF vars, lss
    <2>2. FilesInv(lf, lss_files)'
      BY <2>1 DEF Inv, FilesInv
    <2> QED BY <2>1, <2>2 DEF Inv
  <1> QED BY <1>1, <1>2, <1>3, <1>4 DEF Next

\* A step that leaves the index alone keeps the rows, whatever it tells.
LEMMA IdleTells ==
    ASSUME UNCHANGED lss
    PROVE  RowsKept
  <1>1. /\ lss_files' = lss_files /\ lss_index' = lss_index
        /\ lss_filtered_index' = lss_filtered_index
    BY DEF lss
  <1>2. ViewRows' = ViewRows
    BY <1>1 DEF ViewRows
  <1> QED BY <1>2 DEF RowsKept

\* Filtering again is told from the first row on.
LEMMA FiltersTell ==
    ASSUME NEW slots, NEW min, TextFiltersChanged(slots, min), lss_force_rebuild \in BOOLEAN
    PROVE  RowsKept
  <1>1. CASE lss_force_rebuild
    BY <1>1 DEF TextFiltersChanged, RowsKept
  <1>2. CASE ~lss_force_rebuild
    <2>1. told' = [rr |-> "full", from |-> 0]
      BY <1>2 DEF TextFiltersChanged
    <2>2. told'.rr = "full" /\ told'.from = 0
      BY <2>1
    <2>3. ASSUME NEW s PROVE SubSeq(s, 1, 0) = << >>
      OBVIOUS
    <2> QED BY <2>2, <2>3 DEF RowsKept
  <1> QED BY <1>1, <1>2

\* Every step tells the view.
LEMMA NextTells ==
    ASSUME Benign, TimeOrdered = Files, Inv, [Next]_vars
    PROVE  [RowsKept]_vars
  <1>1. CASE Pass
    <2>1. PICK p \in Promotable \cup {NoFile},
              paused \in (IF "pause" \in Env THEN BOOLEAN ELSE {FALSE}),
              late \in (IF "deadline" \in Env THEN BOOLEAN ELSE {FALSE}) :
             RebuildIndexes(p, paused, late)
      BY <1>1 DEF Pass
    <2>2. paused \in BOOLEAN /\ late \in BOOLEAN /\ UNCHANGED <<disk, ttt_min_row_time>>
      BY <1>1 DEF Pass
    <2> QED BY <2>1, <2>2, PassKeeps
  <1>2. CASE WriterStep
    BY <1>2, IdleTells DEF WriterStep, WriteLine, FinishLine, LoseFile, OpenFile
  <1>3. CASE UserStep
    <2>1. lss_force_rebuild \in BOOLEAN
      BY DEF Inv, IndexSound
    <2> QED BY <1>3, <2>1, IdleTells, FiltersTell
            DEF UserStep, SetVisibility, SetMinRowTime, AdjustContentTime
  <1> QED BY <1>1, <1>2, <1>3 DEF Next

-----------------------------------------------------------------------------
(* The theorems.                                                           *)

\* The invariant holds in every state.
LEMMA InvAlways ==
    ASSUME Benign
    PROVE  Spec => []Inv
  <1>1. Init => Inv
    BY InitInv
  <1>2. Inv /\ [Next]_vars => Inv'
    BY NextInv
  <1> QED BY <1>1, <1>2, PTL DEF Spec

\* What the invariant says of the index in the terms of the properties.
LEMMA InvParts ==
    ASSUME Inv
    PROVE  TypeOK /\ IndexExact /\ IndexInOrder /\ FilteredExact
  <1> DEFINE slots == lss_files
             rows == Held(slots)
             n == Len(lss_index)
  <1>1. /\ disk \in [Files -> Seq(Line)] /\ FilesInv(lf, slots) /\ lss_force_rebuild \in BOOLEAN
        /\ ba_capacity \in Nat /\ ttt_min_row_time \in Nat /\ SlotsSound(slots)
        /\ lss_index \in Seq(rows)
        /\ \A r \in rows : \E i \in 1..n : lss_index[i] = r
        /\ \A i, j \in 1..n : lss_index[i] = lss_index[j] => i = j
        /\ lss_filtered_index \in Seq(1..n)
        /\ Caught(slots, lf, lss_index, lss_force_rebuild)
        /\ Quiet(lf) => InTime(lss_index, slots, lf)
        /\ Quiet(lf) /\ ~lss_force_rebuild =>
              RowsShown(lss_filtered_index, slots, lf, ttt_min_row_time, lss_index)
    BY DEF Inv, IndexSound, Exactly
  <1>2. lf \in [Files -> LogFile] /\ FilesSound(lf) /\ slots \in Seq(Slot)
    BY <1>1, FilesAre DEF FilesSound, SlotsSound
  <1>3. DOMAIN lss_index = 1..n /\ n \in Nat /\ \A k \in 1..n : lss_index[k] \in rows
    <2> HIDE DEF rows
    <2> QED BY <1>1
  <1>4. \A i \in Open(slots) : slots[i].indexed <= Size(slots, lf, i)
    <2>1. CASE lss_force_rebuild
      <3> SUFFICES ASSUME NEW i \in Open(slots) PROVE slots[i].indexed <= Size(slots, lf, i)
        OBVIOUS
      <3>1. slots[i].indexed = 0 /\ Size(slots, lf, i) \in Nat
        BY <1>1, <2>1, SlotFile DEF Caught, Open
      <3> QED BY <3>1
    <2>2. CASE ~lss_force_rebuild
      <3>1. Caught(slots, lf, lss_index, FALSE)
        BY <1>1, <2>2
      <3> QED BY <1>1, <3>1, CaughtBound
    <2> QED BY <2>1, <2>2
  <1>5. ASSUME NEW k \in DOMAIN lss_index
        PROVE  /\ lss_index[k][1] \in Open(slots)
               /\ lss_index[k][2] \in 1..Len(lf[slots[lss_index[k][1]].file].seen)
    <2> DEFINE r == lss_index[k]
    <2>1. r \in Open(slots) \X (1..MaxLines) /\ r[2] <= slots[r[1]].indexed
      BY <1>3 DEF Held
    <2> HIDE DEF r
    <2>2. r[1] \in Open(slots) /\ r[2] \in 1..MaxLines
      BY <2>1
    <2>3. slots[r[1]].indexed \in Nat /\ Size(slots, lf, r[1]) \in Nat
      BY <1>1, <2>2, SlotFile
    <2>4. slots[r[1]].indexed <= Size(slots, lf, r[1])
      BY <1>4, <2>2
    <2>5. r[2] \in 1..Size(slots, lf, r[1])
      BY <2>1, <2>2, <2>3, <2>4
    <2> QED BY <2>2, <2>5 DEF Size, r
  <1>6. TypeOK
    <2>1. \A i \in Open(slots) : slots[i].indexed <= Len(lf[slots[i].file].seen)
      BY <1>4 DEF Size
    <2>2. /\ disk \in [Files -> Seq(Line)] /\ lss_filtered_index \in Seq(1..Len(lss_index))
          /\ lss_force_rebuild \in BOOLEAN /\ ba_capacity \in Nat /\ ttt_min_row_time \in Nat
      BY <1>1
    <2>3. lf \in [Files -> LogFile] /\ lss_files \in Seq(Slot)
      BY <1>2
    <2> HIDE DEF rows
    <2> QED BY <1>5, <2>1, <2>2, <2>3 DEF TypeOK
  <1>7. IndexExact
    <2>1. { lss_index[k] : k \in DOMAIN lss_index } = rows
      <3>1. \A r \in rows : \E i \in 1..n : lss_index[i] = r
        BY <1>1
      <3> HIDE DEF rows, n
      <3> QED BY <1>3, <3>1
    <2>2. \A j, k \in DOMAIN lss_index : lss_index[j] = lss_index[k] => j = k
      <3> HIDE DEF rows
      <3> QED BY <1>1, <1>3
    <2> QED BY <2>1, <2>2 DEF IndexExact, Held
  <1>8. IndexInOrder
    BY <1>1, <1>3 DEF IndexInOrder, Quiet, InTime, TimeOf
  <1>9. FilteredExact
    BY <1>1 DEF FilteredExact, Quiet, RowsShown
  <1> QED BY <1>6, <1>7, <1>8, <1>9

\* Rows are lines of the files that are open, and the shown rows are rows.
THEOREM TypeCorrect ==
    ASSUME Benign
    PROVE  Spec => []TypeOK
  BY InvAlways, InvParts, PTL

\* Every line that a slot counts is in the index once, and nothing else is,
\* whichever way rebuild_index() brought it up to date.
THEOREM ExactTheorem ==
    ASSUME Benign
    PROVE  Spec => []IndexExact
  BY InvAlways, InvParts, PTL

\* The index is in time order unless a shifted file waits to be sorted.
THEOREM OrderTheorem ==
    ASSUME Benign
    PROVE  Spec => []IndexInOrder
  BY InvAlways, InvParts, PTL

\* The view shows the rows that pass the filters, in order, and no other.
THEOREM FilteredTheorem ==
    ASSUME Benign
    PROVE  Spec => []FilteredExact
  BY InvAlways, InvParts, PTL

\* When all formats are time-ordered, the view is told of every change of its
\* rows: those before the row from which it is told to search are as they were.
THEOREM ToldTheorem ==
    ASSUME Benign, TimeOrdered = Files
    PROVE  Spec => ViewIsTold
  <1>1. Inv /\ [Next]_vars => [RowsKept]_vars
    BY NextTells
  <1> QED BY <1>1, InvAlways, PTL DEF Spec, ViewIsTold

=============================================================================
