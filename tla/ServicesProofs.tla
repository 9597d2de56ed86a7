--------------------------- MODULE ServicesProofs ---------------------------
(***************************************************************************)
(* Proofs about Services, for any number of services, threads, messages    *)
(* and nested calls: types, delivery, what an answer means and the         *)
(* life of the threads.  A port is seen as one sequence of sequences of    *)
(* messages, the batches that are being run and the queue; every action is *)
(* one of a few steps of such a sequence, and what is to be shown is shown *)
(* of these steps.                                                         *)
(***************************************************************************)
EXTENDS Services, SequenceTheorems, TLAPS

-----------------------------------------------------------------------------
(* Ports: sequences of sequences of messages                                *)

Ports == Seq(Seq(Msg))

\* The parts of a port are sequences of messages.
LEMMA PortElements ==
    ASSUME NEW h \in Ports
    PROVE  /\ Len(h) \in Nat
           /\ \A k \in 1..Len(h) : h[k] \in Seq(Msg) /\ Len(h[k]) \in Nat
  <1>1. Len(h) \in Nat /\ \A k \in 1..Len(h) : h[k] \in Seq(Msg)
    BY DEF Ports
  <1>2. \A q \in Seq(Msg) : Len(q) \in Nat
    OBVIOUS
  <1> QED
    BY <1>1, <1>2

\* No two messages of a port have the same waiting thread, those in out aside.
Apart(h, out) ==
    \A k, l \in 1..Len(h) : \A i \in 1..Len(h[k]), j \in 1..Len(h[l]) :
        before(k, i, l, j) => h[k][i].from \in out \/ h[k][i].from # h[l][j].from

\* g is what is left of h: its k-th sequence is the one at up[k] of h without its
\* first drop[k] messages or more, in the same order.
Within(g, h, up, drop) ==
    /\ \A k \in 1..Len(g) :
          /\ up[k] \in Nat /\ drop[k] \in Nat
          /\ \A i \in 1..Len(g[k]) :
                /\ up[k] \in 1..Len(h) /\ i + drop[k] \in 1..Len(h[up[k]])
                /\ g[k][i] = h[up[k]][i + drop[k]]
    /\ \A k, l \in 1..Len(g) : k < l => up[k] < up[l]

\* What is left of a port is ordered and apart as the port was.
LEMMA WithinKeeps ==
    ASSUME NEW g \in Ports, NEW h \in Ports, NEW up, NEW drop, NEW out,
           Within(g, h, up, drop)
    PROVE  (ordered(h) => ordered(g)) /\ (Apart(h, out) => Apart(g, out))
  <1> SUFFICES ASSUME NEW k \in 1..Len(g), NEW l \in 1..Len(g),
                      NEW i \in 1..Len(g[k]), NEW j \in 1..Len(g[l]),
                      before(k, i, l, j)
               PROVE  /\ ordered(h) => g[k][i].id < g[l][j].id
                      /\ Apart(h, out) => \/ g[k][i].from \in out
                                          \/ g[k][i].from # g[l][j].from
    BY ZenonT(30) DEF ordered, Apart
  <1> DEFINE i2 == i + drop[k]
             j2 == j + drop[l]
  <1>1. /\ up[k] \in 1..Len(h) /\ up[l] \in 1..Len(h)
        /\ i2 \in 1..Len(h[up[k]]) /\ j2 \in 1..Len(h[up[l]])
        /\ g[k][i] = h[up[k]][i2] /\ g[l][j] = h[up[l]][j2]
    BY DEF Within
  <1>2. drop[k] \in Nat /\ drop[l] \in Nat /\ (k < l => up[k] < up[l])
    BY DEF Within
  <1>3. before(up[k], i2, up[l], j2)
    BY <1>2 DEF before
  <1> HIDE DEF i2, j2
  <1>4. ordered(h) => h[up[k]][i2].id < h[up[l]][j2].id
    BY <1>1, <1>3 DEF ordered, before
  <1>5. Apart(h, out) => \/ h[up[k]][i2].from \in out
                         \/ h[up[k]][i2].from # h[up[l]][j2].from
    BY <1>1, <1>3 DEF Apart
  <1> QED
    BY <1>1, <1>4, <1>5

\* The steps of a port: a message m is appended to the queue,
Sent(h, g, m) ==
    /\ Len(g) = Len(h)
    /\ \A k \in 1..(Len(h) - 1) : g[k] = h[k]
    /\ g[Len(h)] = Append(h[Len(h)], m)

\* the queue becomes the innermost batch,
Taken(h, g) ==
    /\ Len(g) = Len(h) + 1
    /\ \A k \in 1..Len(h) : g[k] = h[k]
    /\ g[Len(h) + 1] = <<>>

\* the front of the innermost batch ends,
Advanced(h, g) ==
    /\ Len(h) > 1 /\ Len(g) = Len(h)
    /\ h[Len(h) - 1] # <<>> /\ g[Len(h) - 1] = Tail(h[Len(h) - 1])
    /\ \A k \in 1..Len(h) : k # Len(h) - 1 => g[k] = h[k]

\* the innermost batch is done and the message around it ends,
Unnested(h, g) ==
    /\ Len(h) > 2 /\ Len(g) = Len(h) - 1
    /\ h[Len(h) - 1] = <<>> /\ h[Len(h) - 2] # <<>>
    /\ g[Len(h) - 1] = h[Len(h)] /\ g[Len(h) - 2] = Tail(h[Len(h) - 2])
    /\ \A k \in 1..(Len(h) - 3) : g[k] = h[k]

\* there are no batches any more.
Dropped(h, g) ==
    /\ Len(h) > 0 /\ Len(g) = 1
    /\ g[1] = h[Len(h)]

\* The tail of a sequence, by its elements.
LEMMA TailElements ==
    ASSUME NEW S, NEW q \in Seq(S), q # <<>>
    PROVE  /\ Tail(q) \in Seq(S) /\ Len(q) \in Nat \ {0}
           /\ Len(Tail(q)) = Len(q) - 1
           /\ \A i \in 1..(Len(q) - 1) : Tail(q)[i] = q[i + 1]
           /\ Head(q) = q[1] /\ q[1] \in S
  OBVIOUS

\* What is left after a message of the innermost batch has ended, ...
LEMMA AdvancedWithin ==
    ASSUME NEW g \in Ports, NEW h \in Ports, Advanced(h, g)
    PROVE  \E up, drop : Within(g, h, up, drop)
  <1> DEFINE up == [k \in 1..Len(g) |-> k]
             drop == [k \in 1..Len(g) |-> IF k = Len(h) - 1 THEN 1 ELSE 0]
  <1>1. ASSUME NEW k \in 1..Len(g)
        PROVE  /\ up[k] \in Nat /\ drop[k] \in Nat
               /\ \A i \in 1..Len(g[k]) :
                     /\ up[k] \in 1..Len(h) /\ i + drop[k] \in 1..Len(h[up[k]])
                     /\ g[k][i] = h[up[k]][i + drop[k]]
    <2>1. CASE k = Len(h) - 1
      <3>1. h[k] \in Seq(Msg) /\ h[k] # <<>> /\ g[k] = Tail(h[k])
        BY <2>1 DEF Advanced, Ports
      <3>2. /\ Len(h[k]) \in Nat /\ Len(Tail(h[k])) = Len(h[k]) - 1
            /\ \A i \in 1..(Len(h[k]) - 1) : Tail(h[k])[i] = h[k][i + 1]
        BY <3>1, TailElements
      <3>3. /\ Len(g[k]) = Len(h[k]) - 1
            /\ \A i \in 1..(Len(h[k]) - 1) : g[k][i] = h[k][i + 1]
        BY <3>1, <3>2
      <3>4. up[k] = k /\ drop[k] = 1 /\ k \in 1..Len(h)
        BY <2>1 DEF Advanced
      <3> HIDE DEF up, drop
      <3> QED
        BY <3>2, <3>3, <3>4
    <2>2. CASE k # Len(h) - 1
      <3>1. g[k] = h[k] /\ Len(h[k]) \in Nat
        BY <2>2 DEF Advanced, Ports
      <3> QED
        BY <2>2, <3>1, up[k] = k, drop[k] = 0 DEF Advanced
    <2> QED
      BY <2>1, <2>2
  <1>2. Within(g, h, up, drop)
    BY <1>1 DEF Within
  <1> QED
    BY <1>2

\* ... after the message that called process_for() again has ended, ...
LEMMA UnnestedWithin ==
    ASSUME NEW g \in Ports, NEW h \in Ports, Unnested(h, g)
    PROVE  \E up, drop : Within(g, h, up, drop)
  <1> DEFINE up == [k \in 1..Len(g) |-> IF k = Len(h) - 1 THEN k + 1 ELSE k]
             drop == [k \in 1..Len(g) |-> IF k = Len(h) - 2 THEN 1 ELSE 0]
  <1>1. ASSUME NEW k \in 1..Len(g)
        PROVE  /\ up[k] \in Nat /\ drop[k] \in Nat
               /\ \A i \in 1..Len(g[k]) :
                     /\ up[k] \in 1..Len(h) /\ i + drop[k] \in 1..Len(h[up[k]])
                     /\ g[k][i] = h[up[k]][i + drop[k]]
    <2>1. CASE k = Len(h) - 2
      <3>1. h[k] \in Seq(Msg) /\ h[k] # <<>> /\ g[k] = Tail(h[k])
        BY <2>1 DEF Unnested, Ports
      <3>2. /\ Len(h[k]) \in Nat /\ Len(Tail(h[k])) = Len(h[k]) - 1
            /\ \A i \in 1..(Len(h[k]) - 1) : Tail(h[k])[i] = h[k][i + 1]
        BY <3>1, TailElements
      <3>3. /\ Len(g[k]) = Len(h[k]) - 1
            /\ \A i \in 1..(Len(h[k]) - 1) : g[k][i] = h[k][i + 1]
        BY <3>1, <3>2
      <3>4. up[k] = k /\ drop[k] = 1 /\ k \in 1..Len(h)
        BY <2>1 DEF Unnested
      <3> HIDE DEF up, drop
      <3> QED
        BY <3>2, <3>3, <3>4
    <2>2. CASE k = Len(h) - 1
      <3>1. g[k] = h[k + 1] /\ k + 1 \in 1..Len(h) /\ Len(h[k + 1]) \in Nat
        BY <2>2, PortElements DEF Unnested
      <3>2. up[k] = k + 1 /\ drop[k] = 0
        BY <2>2 DEF Unnested
      <3> HIDE DEF up, drop
      <3> QED
        BY <3>1, <3>2
    <2>3. CASE k # Len(h) - 1 /\ k # Len(h) - 2
      <3>1. g[k] = h[k] /\ k \in 1..Len(h) /\ Len(h[k]) \in Nat
        BY <2>3, PortElements, SMTT(30) DEF Unnested
      <3>2. up[k] = k /\ drop[k] = 0
        BY <2>3 DEF Unnested
      <3> HIDE DEF up, drop
      <3> QED
        BY <3>1, <3>2
    <2> QED
      BY <2>1, <2>2, <2>3
  <1>2. \A k, l \in 1..Len(g) : k < l => up[k] < up[l]
    BY PortElements DEF Unnested
  <1> HIDE DEF up, drop
  <1>3. Within(g, h, up, drop)
    BY <1>1, <1>2 DEF Within
  <1> QED
    BY <1>3

\* ... after the queue was taken as a batch, ...
LEMMA TakenWithin ==
    ASSUME NEW g \in Ports, NEW h \in Ports, Taken(h, g)
    PROVE  \E up, drop : Within(g, h, up, drop)
  <1> DEFINE up == [k \in 1..Len(g) |-> k]
             drop == [k \in 1..Len(g) |-> 0]
  <1>1. \A k \in 1..Len(g) : up[k] = k /\ drop[k] = 0
    OBVIOUS
  <1> HIDE DEF up, drop
  <1>2. \A k \in 1..Len(h) : g[k] = h[k] /\ Len(h[k]) \in Nat
    BY PortElements DEF Taken
  <1>3. Len(g) = Len(h) + 1 /\ Len(h) \in Nat /\ Len(g[Len(h) + 1]) = 0
    BY DEF Taken, Ports
  <1>4. Within(g, h, up, drop)
    BY <1>1, <1>2, <1>3 DEF Within
  <1> QED
    BY <1>4

\* ... and after the batches are gone is within what was there.
LEMMA DroppedWithin ==
    ASSUME NEW g \in Ports, NEW h \in Ports, Dropped(h, g)
    PROVE  \E up, drop : Within(g, h, up, drop)
  <1> DEFINE up == [k \in 1..Len(g) |-> Len(h)]
             drop == [k \in 1..Len(g) |-> 0]
  <1>1. \A k \in 1..Len(g) : up[k] = Len(h) /\ drop[k] = 0
    OBVIOUS
  <1> HIDE DEF up, drop
  <1>2. /\ Len(g) = 1 /\ g[1] = h[Len(h)]
        /\ Len(h) \in 1..Len(h) /\ Len(h[Len(h)]) \in Nat
    BY DEF Dropped, Ports
  <1>3. Within(g, h, up, drop)
    BY <1>1, <1>2 DEF Within
  <1> QED
    BY <1>3
-----------------------------------------------------------------------------
(* What is still to be run                                                  *)

\* The message x is still to be run and at place (k, i).
At(h, x, k, i) ==
    /\ k \in 1..Len(h) /\ i \in 1..Len(h[k]) /\ (i > 1 \/ k >= Len(h) - 1)
    /\ h[k][i].id = x

\* To be run is what is at such a place.
LEMMA ToRunAt ==
    ASSUME NEW h, NEW x
    PROVE  x \in toRun(h) <=> \E k, i : At(h, x, k, i)
  BY DEF toRun, At

\* Sending adds one message.
LEMMA ToRunSent ==
    ASSUME NEW g \in Ports, NEW h \in Ports, NEW m \in Msg, Len(h) > 0, Sent(h, g, m)
    PROVE  toRun(g) = toRun(h) \union {m.id}
  <1> DEFINE n == Len(h)
             q == Len(h[n])
  <1>1. /\ n \in Nat \ {0} /\ q \in Nat /\ Len(g) = n
        /\ \A k \in 1..(n - 1) : g[k] = h[k]
        /\ Len(g[n]) = q + 1 /\ g[n][q + 1] = m
        /\ \A i \in 1..q : g[n][i] = h[n][i]
    BY DEF Sent, Ports
  <1> HIDE DEF n, q
  <1>2. Len(h) = n /\ Len(h[n]) = q
    BY DEF n, q
  <1>3. ASSUME NEW x, NEW k, NEW i, At(g, x, k, i)
        PROVE  x = m.id \/ At(h, x, k, i)
    BY <1>1, <1>2, <1>3 DEF At
  <1>4. ASSUME NEW x, NEW k, NEW i, At(h, x, k, i)
        PROVE  At(g, x, k, i)
    BY <1>1, <1>2, <1>4 DEF At
  <1>5. At(g, m.id, n, q + 1)
    BY <1>1 DEF At
  <1> QED
    BY <1>3, <1>4, <1>5, ToRunAt

\* The first of the innermost batch is to be run, and it is nowhere else.
LEMMA ToRunHead ==
    ASSUME NEW h \in Ports, ordered(h), Len(h) > 1, h[Len(h) - 1] # <<>>
    PROVE  LET n == Len(h) - 1 IN
           /\ At(h, h[n][1].id, n, 1)
           /\ \A x, k, i : At(h, x, k, i) /\ (k # n \/ i # 1) => x # h[n][1].id
           /\ Head(h[n]) = h[n][1] /\ h[n][1] \in Msg
  <1> DEFINE n == Len(h) - 1
  <1>a. Len(h) \in Nat
    BY PortElements
  <1>0. n \in Nat \ {0} /\ Len(h) = n + 1 /\ n \in 1..Len(h)
    BY <1>a
  <1>1. n \in Nat \ {0} /\ Len(h) = n + 1 /\ h[n] \in Seq(Msg) /\ Len(h[n]) \in Nat
    BY <1>0, PortElements
  <1>2. Len(h[n]) # 0 /\ Head(h[n]) = h[n][1] /\ h[n][1] \in Msg
    BY <1>1
  <1> HIDE DEF n
  <1>3. At(h, h[n][1].id, n, 1)
    BY <1>1, <1>2 DEF At
  <1>4. ASSUME NEW x, NEW k, NEW i, At(h, x, k, i), k # n \/ i # 1
        PROVE  x # h[n][1].id
    <2>1. /\ k \in 1..(n + 1) /\ Len(h[k]) \in Nat /\ i \in 1..Len(h[k])
          /\ h[k][i].id = x
          /\ n \in 1..Len(h) /\ k \in 1..Len(h) /\ 1 \in 1..Len(h[n])
      BY <1>1, <1>2, <1>4, PortElements DEF At
    <2>2. before(k, i, n, 1) => h[k][i].id < h[n][1].id
      BY <2>1 DEF ordered
    <2>3. before(n, 1, k, i) => h[n][1].id < h[k][i].id
      BY <2>1 DEF ordered
    <2>4. before(k, i, n, 1) \/ before(n, 1, k, i)
      BY <1>1, <1>4, <2>1 DEF before
    <2>5. h[k][i] \in Msg /\ h[n][1] \in Msg
      BY <1>2, <2>1, PortElements
    <2>6. h[k][i].id \in Nat /\ h[n][1].id \in Nat
      BY <2>5 DEF Msg
    <2> QED
      BY <2>1, <2>2, <2>3, <2>4, <2>6
  <1> QED
    BY <1>2, <1>3, <1>4 DEF n

\* To begin a message, whether it ends at once or processes the port again, takes
\* it from the ones still to be run.
LEMMA ToRunAdvanced ==
    ASSUME NEW g \in Ports, NEW h \in Ports, ordered(h), Advanced(h, g)
    PROVE  /\ h[Len(h) - 1][1].id \in toRun(h)
           /\ toRun(g) = toRun(h) \ {h[Len(h) - 1][1].id}
  <1> DEFINE n == Len(h) - 1
             q == Len(h[n])
             y == h[n][1].id
  <1>0. n \in Nat \ {0} /\ Len(h) = n + 1 /\ n \in 1..Len(h)
    BY PortElements DEF Advanced
  <1>1. /\ n \in Nat \ {0} /\ Len(h) = n + 1 /\ h[n] \in Seq(Msg) /\ q \in Nat
        /\ h[n] # <<>> /\ Len(g) = n + 1 /\ g[n] = Tail(h[n]) /\ g[n + 1] = h[n + 1]
        /\ \A k \in 1..(n - 1) : g[k] = h[k]
    BY <1>0, PortElements DEF Advanced
  <1>2. q > 0 /\ Len(g[n]) = q - 1 /\ \A i \in 1..(q - 1) : g[n][i] = h[n][i + 1]
    BY <1>1, TailElements
  <1>3. At(h, y, n, 1) /\ \A x, k, i : At(h, x, k, i) /\ (k # n \/ i # 1) => x # y
    BY <1>1, ToRunHead
  <1>4. Len(h[n]) = q /\ y = h[n][1].id /\ Len(h) - 1 = n
    OBVIOUS
  <1> HIDE DEF n, q, y
  <1>5. ASSUME NEW x, NEW k, NEW i, At(g, x, k, i)
        PROVE  \E i2 : At(h, x, k, i2) /\ x # y
    <2>1. CASE k = n
      <3>1. At(h, x, n, i + 1) /\ i + 1 # 1
        BY <1>1, <1>2, <1>4, <1>5, <2>1 DEF At
      <3> QED
        BY <1>3, <2>1, <3>1
    <2>2. CASE k # n
      <3>1. At(h, x, k, i)
        BY <1>1, <1>4, <1>5, <2>2, SMTT(30) DEF At
      <3> QED
        BY <1>3, <2>2, <3>1
    <2> QED
      BY <2>1, <2>2
  <1>6. ASSUME NEW x, NEW k, NEW i, At(h, x, k, i), x # y
        PROVE  \E i2 : At(g, x, k, i2)
    <2>1. CASE k = n
      <3>1. i # 1
        BY <1>4, <1>6, <2>1 DEF At
      <3>2. At(g, x, n, i - 1)
        BY <1>1, <1>2, <1>4, <1>6, <2>1, <3>1 DEF At
      <3> QED
        BY <2>1, <3>2
    <2>2. CASE k # n
      <3>1. At(g, x, k, i)
        BY <1>1, <1>4, <1>6, <2>2, SMTT(30) DEF At
      <3> QED
        BY <3>1
    <2> QED
      BY <2>1, <2>2
  <1>7. y \in toRun(h) /\ toRun(g) = toRun(h) \ {y}
    BY <1>3, <1>5, <1>6, ToRunAt
  <1> QED
    BY <1>4, <1>7

\* The same for a message that processes the port again.
LEMMA ToRunNested ==
    ASSUME NEW g \in Ports, NEW h \in Ports, ordered(h), Taken(h, g),
           Len(h) > 1, h[Len(h) - 1] # <<>>
    PROVE  /\ h[Len(h) - 1][1].id \in toRun(h)
           /\ toRun(g) = toRun(h) \ {h[Len(h) - 1][1].id}
  <1> DEFINE n == Len(h) - 1
             y == h[n][1].id
  <1>1. /\ n \in Nat \ {0} /\ Len(h) = n + 1
        /\ Len(g) = n + 2 /\ Len(g[n + 2]) = 0
        /\ \A k \in 1..(n + 1) : g[k] = h[k]
    BY PortElements DEF Taken
  <1>2. At(h, y, n, 1) /\ \A x, k, i : At(h, x, k, i) /\ (k # n \/ i # 1) => x # y
    BY ToRunHead
  <1>3. y = h[n][1].id /\ Len(h) - 1 = n
    OBVIOUS
  <1> HIDE DEF n, y
  <1>4. ASSUME NEW x, NEW k, NEW i, At(g, x, k, i)
        PROVE  At(h, x, k, i) /\ x # y
    <2>1. At(h, x, k, i) /\ (k # n \/ i # 1)
      BY <1>1, <1>4 DEF At
    <2> QED
      BY <1>2, <2>1
  <1>5. ASSUME NEW x, NEW k, NEW i, At(h, x, k, i), x # y
        PROVE  At(g, x, k, i)
    <2>1. k # n \/ i # 1
      BY <1>3, <1>5 DEF At
    <2>2. k \in 1..(n + 1) /\ Len(h[k]) \in Nat /\ i \in 1..Len(h[k])
      BY <1>1, <1>5, PortElements DEF At
    <2> QED
      BY <1>1, <1>5, <2>1, <2>2 DEF At
  <1>6. y \in toRun(h) /\ toRun(g) = toRun(h) \ {y}
    BY <1>2, <1>4, <1>5, ToRunAt
  <1> QED
    BY <1>3, <1>6

\* The end of a message that processed the port again changes nothing here, ...
LEMMA ToRunUnnested ==
    ASSUME NEW g \in Ports, NEW h \in Ports, Unnested(h, g)
    PROVE  toRun(g) = toRun(h)
  <1> DEFINE n == Len(h) - 2
             q == Len(h[n])
  <1>0. n \in Nat \ {0} /\ Len(h) = n + 2 /\ n \in 1..Len(h)
    BY PortElements DEF Unnested
  <1>1. /\ h[n] \in Seq(Msg) /\ q \in Nat /\ h[n] # <<>> /\ Len(h[n + 1]) = 0
        /\ Len(g) = n + 1 /\ g[n] = Tail(h[n]) /\ g[n + 1] = h[n + 2]
        /\ \A k \in 1..(n - 1) : g[k] = h[k]
    BY <1>0, PortElements DEF Unnested
  <1>2. q > 0 /\ Len(g[n]) = q - 1 /\ \A i \in 1..(q - 1) : g[n][i] = h[n][i + 1]
    BY <1>1, TailElements
  <1>3. Len(h[n]) = q
    OBVIOUS
  <1> HIDE DEF n, q
  <1>4. ASSUME NEW x, NEW k, NEW i, At(g, x, k, i)
        PROVE  \E k2, i2 : At(h, x, k2, i2)
    <2>1. CASE k = n
      <3>1. At(h, x, n, i + 1)
        BY <1>0, <1>1, <1>2, <1>3, <1>4, <2>1 DEF At
      <3> QED
        BY <3>1
    <2>2. CASE k = n + 1
      <3>1. At(h, x, n + 2, i)
        BY <1>0, <1>1, <1>4, <2>2 DEF At
      <3> QED
        BY <3>1
    <2>3. CASE k # n /\ k # n + 1
      <3>1. At(h, x, k, i)
        BY <1>0, <1>1, <1>4, <2>3 DEF At
      <3> QED
        BY <3>1
    <2> QED
      BY <2>1, <2>2, <2>3
  <1>5. ASSUME NEW x, NEW k, NEW i, At(h, x, k, i)
        PROVE  \E k2, i2 : At(g, x, k2, i2)
    <2>1. CASE k = n
      <3>1. At(g, x, n, i - 1)
        BY <1>0, <1>1, <1>2, <1>3, <1>5, <2>1 DEF At
      <3> QED
        BY <3>1
    <2>2. CASE k = n + 2
      <3>1. At(g, x, n + 1, i)
        BY <1>0, <1>1, <1>5, <2>2 DEF At
      <3> QED
        BY <3>1
    <2>3. CASE k # n /\ k # n + 2
      <3>1. At(g, x, k, i)
        BY <1>0, <1>1, <1>5, <2>3 DEF At
      <3> QED
        BY <3>1
    <2> QED
      BY <2>1, <2>2, <2>3
  <1> QED
    BY <1>4, <1>5, ToRunAt

\* ... nor does taking the queue when nothing is being run, ...
LEMMA ToRunTaken ==
    ASSUME NEW g \in Ports, NEW h \in Ports, Taken(h, g), Len(h) = 1
    PROVE  toRun(g) = toRun(h)
  <1>1. Len(g) = 2 /\ g[1] = h[1] /\ Len(g[2]) = 0
    BY DEF Taken
  <1>2. \A x, k, i : At(g, x, k, i) <=> At(h, x, k, i)
    BY <1>1 DEF At
  <1> QED
    BY <1>2, ToRunAt

\* ... nor the end of an outermost batch.
LEMMA ToRunDone ==
    ASSUME NEW g \in Ports, NEW h \in Ports, Dropped(h, g), Len(h) = 2, h[1] = <<>>
    PROVE  toRun(g) = toRun(h)
  <1>1. Len(g) = 1 /\ g[1] = h[2] /\ Len(h[1]) = 0
    BY DEF Dropped
  <1>2. \A x, k, i : At(g, x, k, i) => At(h, x, 2, i)
    BY <1>1 DEF At
  <1>3. \A x, k, i : At(h, x, k, i) => At(g, x, 1, i)
    BY <1>1 DEF At
  <1>4. \A x : x \in toRun(g) <=> x \in toRun(h)
    BY <1>2, <1>3, ToRunAt, Zenon
  <1> QED
    BY <1>4, Zenon
-----------------------------------------------------------------------------
(* Every message once                                                       *)

\* The places of a port that has got one more message.
LEMMA SentPlaces ==
    ASSUME NEW g \in Ports, NEW h \in Ports, NEW m \in Msg, Len(h) > 0, Sent(h, g, m),
           NEW k \in 1..Len(g), NEW i \in 1..Len(g[k])
    PROVE  \/ k = Len(h) /\ i = Len(h[Len(h)]) + 1 /\ g[k][i] = m
           \/ k \in 1..Len(h) /\ i \in 1..Len(h[k]) /\ g[k][i] = h[k][i]
  <1>1. /\ Len(h) \in Nat \ {0} /\ Len(g) = Len(h) /\ h[Len(h)] \in Seq(Msg)
        /\ Len(h[Len(h)]) \in Nat
    BY PortElements DEF Sent
  <1>2. CASE k = Len(h)
    <2>1. g[k] = Append(h[k], m) /\ h[k] \in Seq(Msg)
      BY <1>1, <1>2 DEF Sent
    <2>2. /\ Len(g[k]) = Len(h[k]) + 1 /\ g[k][Len(h[k]) + 1] = m
          /\ \A j \in 1..Len(h[k]) : g[k][j] = h[k][j]
      BY <2>1
    <2> QED
      BY <1>1, <1>2, <2>2
  <1>3. CASE k # Len(h)
    BY <1>1, <1>3 DEF Sent
  <1> QED
    BY <1>2, <1>3

\* A new message has the highest number, so a port stays ordered, ...
LEMMA SentOrdered ==
    ASSUME NEW g \in Ports, NEW h \in Ports, NEW m \in Msg, Len(h) > 0, Sent(h, g, m),
           NEW n \in Nat, m.id = n + 1,
           \A k \in 1..Len(h) : \A i \in 1..Len(h[k]) : h[k][i].id <= n,
           ordered(h)
    PROVE  ordered(g)
  <1> SUFFICES ASSUME NEW k \in 1..Len(g), NEW l \in 1..Len(g),
                      NEW i \in 1..Len(g[k]), NEW j \in 1..Len(g[l]),
                      before(k, i, l, j)
               PROVE  g[k][i].id < g[l][j].id
    BY Zenon DEF ordered
  <1>1. /\ Len(h) \in Nat /\ Len(g) = Len(h) /\ Len(h[Len(h)]) \in Nat
    BY PortElements DEF Sent
  <1>2. \/ k = Len(h) /\ i = Len(h[Len(h)]) + 1 /\ g[k][i] = m
        \/ k \in 1..Len(h) /\ i \in 1..Len(h[k]) /\ g[k][i] = h[k][i]
    BY SentPlaces
  <1>3. \/ l = Len(h) /\ j = Len(h[Len(h)]) + 1 /\ g[l][j] = m
        \/ l \in 1..Len(h) /\ j \in 1..Len(h[l]) /\ g[l][j] = h[l][j]
    BY SentPlaces
  <1>4. ~(k = Len(h) /\ i = Len(h[Len(h)]) + 1)
    BY <1>1, <1>3 DEF before
  <1>5. k \in 1..Len(h) /\ i \in 1..Len(h[k]) /\ g[k][i] = h[k][i]
    BY <1>2, <1>4
  <1>6. h[k][i] \in Msg
    BY <1>5, PortElements
  <1>7. h[k][i].id \in Nat /\ h[k][i].id <= n
    BY <1>5, <1>6 DEF Msg
  <1>8. CASE g[l][j] = m
    BY <1>5, <1>7, <1>8
  <1>9. CASE l \in 1..Len(h) /\ j \in 1..Len(h[l]) /\ g[l][j] = h[l][j]
    BY <1>5, <1>9 DEF ordered
  <1> QED
    BY <1>3, <1>8, <1>9

\* ... and apart when no message has the same waiting thread.
LEMMA SentApart ==
    ASSUME NEW g \in Ports, NEW h \in Ports, NEW m \in Msg, NEW out, Len(h) > 0, Sent(h, g, m),
           m.from \notin out =>
              \A k \in 1..Len(h) : \A i \in 1..Len(h[k]) : h[k][i].from # m.from,
           Apart(h, out)
    PROVE  Apart(g, out)
  <1> SUFFICES ASSUME NEW k \in 1..Len(g), NEW l \in 1..Len(g),
                      NEW i \in 1..Len(g[k]), NEW j \in 1..Len(g[l]),
                      before(k, i, l, j)
               PROVE  g[k][i].from \in out \/ g[k][i].from # g[l][j].from
    BY Zenon DEF Apart
  <1>1. /\ Len(h) \in Nat /\ Len(g) = Len(h) /\ Len(h[Len(h)]) \in Nat
    BY PortElements DEF Sent
  <1>2. \/ k = Len(h) /\ i = Len(h[Len(h)]) + 1 /\ g[k][i] = m
        \/ k \in 1..Len(h) /\ i \in 1..Len(h[k]) /\ g[k][i] = h[k][i]
    BY SentPlaces
  <1>3. \/ l = Len(h) /\ j = Len(h[Len(h)]) + 1 /\ g[l][j] = m
        \/ l \in 1..Len(h) /\ j \in 1..Len(h[l]) /\ g[l][j] = h[l][j]
    BY SentPlaces
  <1>4. ~(k = Len(h) /\ i = Len(h[Len(h)]) + 1)
    BY <1>1, <1>3 DEF before
  <1>5. k \in 1..Len(h) /\ i \in 1..Len(h[k]) /\ g[k][i] = h[k][i]
    BY <1>2, <1>4
  <1>8. CASE g[l][j] = m
    BY <1>5, <1>8
  <1>9. CASE l \in 1..Len(h) /\ j \in 1..Len(h[l]) /\ g[l][j] = h[l][j]
    BY <1>5, <1>9 DEF Apart
  <1> QED
    BY <1>3, <1>8, <1>9

\* The messages 1..n of a port h are each run, by now or still to come.
Kept(h, r, n) ==
    /\ ordered(h) /\ IsInjective(r)
    /\ Range(r) \union toRun(h) = 1..n
    /\ Range(r) \intersect toRun(h) = {}

\* Nothing is lost by sending, ...
LEMMA KeptSent ==
    ASSUME NEW g \in Ports, NEW h \in Ports, NEW m \in Msg, Len(h) > 0, Sent(h, g, m),
           NEW n \in Nat, m.id = n + 1, NEW r,
           \A k \in 1..Len(h) : \A i \in 1..Len(h[k]) : h[k][i].id <= n,
           Kept(h, r, n)
    PROVE  Kept(g, r, n + 1)
  <1>0. ordered(h)
    BY DEF Kept
  <1>a. ordered(g)
    BY <1>0, SentOrdered
  <1>b. toRun(g) = toRun(h) \union {m.id}
    BY ToRunSent
  <1>1. ordered(g) /\ toRun(g) = toRun(h) \union {n + 1}
    BY <1>a, <1>b
  <1>2. 1..(n + 1) = (1..n) \union {n + 1} /\ n + 1 \notin 1..n
    OBVIOUS
  <1> QED
    BY <1>1, <1>2 DEF Kept

\* ... nor by beginning a message that was still to be run.
LEMMA KeptBegun ==
    ASSUME NEW g, NEW h, NEW r \in Seq(Nat), NEW n, NEW x \in Nat,
           ordered(g), x \in toRun(h), toRun(g) = toRun(h) \ {x}, Kept(h, r, n)
    PROVE  Kept(g, Append(r, x), n)
  <1>1. /\ Len(r) \in Nat /\ DOMAIN r = 1..Len(r)
        /\ DOMAIN Append(r, x) = 1..(Len(r) + 1)
        /\ Append(r, x)[Len(r) + 1] = x
        /\ \A i \in 1..Len(r) : Append(r, x)[i] = r[i]
    OBVIOUS
  <1>2. Range(Append(r, x)) = Range(r) \union {x}
    <2>1. ASSUME NEW i \in 1..(Len(r) + 1)
          PROVE  Append(r, x)[i] \in Range(r) \union {x}
      BY <1>1 DEF Range
    <2>2. ASSUME NEW i \in 1..Len(r) PROVE i \in 1..(Len(r) + 1) /\ r[i] = Append(r, x)[i]
      BY <1>1
    <2>3. Len(r) + 1 \in 1..(Len(r) + 1)
      BY <1>1
    <2> QED
      BY <1>1, <2>1, <2>2, <2>3 DEF Range
  <1>3. x \notin Range(r)
    BY DEF Kept
  <1>4. IsInjective(Append(r, x))
    BY <1>1, <1>3 DEF Kept, IsInjective, Range
  <1> QED
    BY <1>2, <1>3, <1>4 DEF Kept

\* A service thread, which does not nest, begins its messages in turn.
LEMMA InTurn ==
    ASSUME NEW h \in Ports, NEW r \in Seq(Nat), NEW n \in Nat, Kept(h, r, n),
           \A i \in 1..Len(r) : r[i] = i, Len(h) = 2, h[1] # <<>>
    PROVE  h[1][1].id = Len(r) + 1
  <1> DEFINE y == h[1][1].id
  <1>1. /\ h[1] \in Seq(Msg) /\ h[1][1] \in Msg /\ Len(h[1]) \in Nat \ {0}
        /\ Len(h[2]) \in Nat
    <2>1. 1 \in 1..Len(h) /\ 2 \in 1..Len(h)
      OBVIOUS
    <2>2. h[1] \in Seq(Msg) /\ Len(h[2]) \in Nat
      BY <2>1, PortElements
    <2> QED
      BY <2>2, TailElements
  <1>2. y \in Nat
    BY <1>1 DEF Msg
  <1>3. Range(r) = 1..Len(r) /\ Len(r) \in Nat
    BY DEF Range
  <1>4. At(h, y, 1, 1)
    BY <1>1 DEF At
  <1>5. y \in toRun(h)
    BY <1>4, ToRunAt
  <1>6. y \in 1..n /\ y \notin 1..Len(r)
    BY <1>3, <1>5 DEF Kept
  <1>7. Len(r) + 1 \in 1..n
    BY <1>3, <1>6
  <1>8. Len(r) + 1 \in toRun(h)
    BY <1>3, <1>7 DEF Kept
  <1>9. PICK k, i : At(h, Len(r) + 1, k, i)
    BY <1>8, ToRunAt
  <1>10. /\ k \in 1..Len(h) /\ 1 \in 1..Len(h) /\ 1 \in 1..Len(h[1]) /\ i \in 1..Len(h[k])
         /\ h[k][i].id = Len(r) + 1
    BY <1>1, <1>9 DEF At
  <1>11. before(1, 1, k, i) => y < Len(r) + 1
    BY <1>10 DEF Kept, ordered
  <1>12. before(1, 1, k, i) \/ (k = 1 /\ i = 1)
    BY <1>1, <1>10 DEF before
  <1> QED
    BY <1>2, <1>3, <1>6, <1>10, <1>11, <1>12
-----------------------------------------------------------------------------
(* The steps of a port, by its batches and its queue                        *)

\* The port from its batches b and its queue q.
LEMMA HeldParts ==
    ASSUME NEW b \in Ports, NEW q \in Seq(Msg)
    PROVE  /\ Append(b, q) \in Ports /\ Len(b) \in Nat
           /\ Len(Append(b, q)) = Len(b) + 1
           /\ Append(b, q)[Len(b) + 1] = q
           /\ \A k \in 1..Len(b) : Append(b, q)[k] = b[k]
  BY DEF Ports

\* msg_port::send()
LEMMA SentStep ==
    ASSUME NEW b \in Ports, NEW q \in Seq(Msg), NEW m \in Msg
    PROVE  /\ Append(q, m) \in Seq(Msg)
           /\ Sent(Append(b, q), Append(b, Append(q, m)), m)
  <1>1. Append(q, m) \in Seq(Msg)
    OBVIOUS
  <1> QED
    BY <1>1, HeldParts DEF Sent

\* tmp_msgs.swap()
LEMMA TakenStep ==
    ASSUME NEW b \in Ports, NEW q \in Seq(Msg)
    PROVE  Taken(Append(b, q), Append(Append(b, q), <<>>))
  <1>1. Append(b, q) \in Ports /\ <<>> \in Seq(Msg)
    BY HeldParts
  <1> QED
    BY <1>1, HeldParts DEF Taken

\* A sequence without its last element, and the last one.
LEMMA FrontElements ==
    ASSUME NEW S, NEW b \in Seq(S), Len(b) > 0
    PROVE  /\ Front(b) \in Seq(S) /\ Len(Front(b)) = Len(b) - 1 /\ Last(b) = b[Len(b)]
           /\ \A k \in 1..(Len(b) - 1) : Front(b)[k] = b[k]
  <1> DEFINE n == Len(b) - 1
  <1>1. n \in Nat /\ \A i \in 1..n : b[i] \in S
    OBVIOUS
  <1> HIDE DEF n
  <1>2. /\ SubSeq(b, 1, n) \in Seq(S)
        /\ Len(SubSeq(b, 1, n)) = IF 1 <= n THEN n - 1 + 1 ELSE 0
        /\ \A i \in 1..(n - 1 + 1) : SubSeq(b, 1, n)[i] = b[1 + i - 1]
    BY <1>1, SubSeqProperties, 1 \in Int
  <1>3. Len(SubSeq(b, 1, n)) = n /\ \A i \in 1..n : SubSeq(b, 1, n)[i] = b[i]
    BY <1>1, <1>2
  <1> QED
    BY <1>2, <1>3 DEF Front, Last, n

\* The same for batches.
LEMMA PortFront ==
    ASSUME NEW b \in Ports, Len(b) > 0
    PROVE  /\ Front(b) \in Ports /\ Len(Front(b)) = Len(b) - 1 /\ Last(b) = b[Len(b)]
           /\ \A k \in 1..(Len(b) - 1) : Front(b)[k] = b[k]
  BY FrontElements DEF Ports

\* tmp_msgs.pop_front() of the innermost batch
LEMMA AdvancedStep ==
    ASSUME NEW b \in Ports, NEW q \in Seq(Msg), Len(b) > 0, Last(b) # <<>>
    PROVE  LET c == Append(Front(b), Tail(Last(b))) IN
           /\ c \in Ports /\ Len(c) = Len(b)
           /\ \A k \in 1..(Len(b) - 1) : c[k] = b[k]
           /\ Advanced(Append(b, q), Append(c, q))
  <1> DEFINE f == Front(b)
             n == Len(b)
             c == Append(f, Tail(Last(b)))
  <1>1. /\ f \in Ports /\ Len(f) = n - 1 /\ Last(b) = b[n] /\ n \in Nat \ {0}
        /\ \A k \in 1..(n - 1) : f[k] = b[k]
    BY PortFront, PortElements
  <1>2. b[n] \in Seq(Msg) /\ b[n] # <<>>
    BY <1>1, PortElements
  <1>3. Tail(b[n]) \in Seq(Msg)
    BY <1>2
  <1> HIDE DEF n, f
  <1>4. /\ c \in Ports /\ Len(c) = n /\ c[n] = Tail(b[n])
        /\ \A k \in 1..(n - 1) : c[k] = b[k]
    <2>1. Tail(Last(b)) \in Seq(Msg)
      BY <1>1, <1>3
    <2>2. /\ c \in Ports /\ Len(c) = Len(f) + 1 /\ c[Len(f) + 1] = Tail(Last(b))
          /\ \A k \in 1..Len(f) : c[k] = f[k]
      BY <1>1, <2>1, HeldParts
    <2> HIDE DEF c
    <2> QED
      BY <1>1, <2>2
  <1> HIDE DEF c
  <1>5. /\ Len(Append(b, q)) = n + 1 /\ Len(Append(c, q)) = n + 1
        /\ \A k \in 1..n : Append(b, q)[k] = b[k] /\ Append(c, q)[k] = c[k]
        /\ Append(b, q)[n + 1] = q /\ Append(c, q)[n + 1] = q
    BY <1>4, HeldParts DEF n
  <1>6. Advanced(Append(b, q), Append(c, q))
    BY <1>1, <1>2, <1>4, <1>5 DEF Advanced
  <1> QED
    BY <1>4, <1>6 DEF c, f, n

\* pop_front() of the batch around one that is empty
LEMMA UnnestedStep ==
    ASSUME NEW b \in Ports, NEW q \in Seq(Msg), Len(b) > 1, Last(b) = <<>>,
           b[Len(b) - 1] # <<>>
    PROVE  LET o == Front(b)
               c == Append(Front(o), Tail(Last(o))) IN
           /\ c \in Ports /\ Len(c) = Len(b) - 1
           /\ \A k \in 1..(Len(b) - 2) : c[k] = b[k]
           /\ Unnested(Append(b, q), Append(c, q))
           /\ Last(o) = b[Len(b) - 1]
  <1> DEFINE o == Front(b)
             c == Append(Front(o), Tail(Last(o)))
             n == Len(b)
  <1>1. /\ o \in Ports /\ Len(o) = n - 1 /\ Last(b) = b[n] /\ n \in Nat /\ n > 1
        /\ \A k \in 1..(n - 1) : o[k] = b[k]
    BY PortFront, PortElements
  <1>2. Last(o) = b[n - 1] /\ Last(o) # <<>>
    BY <1>1, PortFront
  <1> HIDE DEF o, n
  <1>3. /\ c \in Ports /\ Len(c) = n - 1
        /\ \A k \in 1..(n - 2) : c[k] = o[k]
        /\ Advanced(Append(o, q), Append(c, q))
    <2>1. Len(o) > 0
      BY <1>1
    <2>2. /\ c \in Ports /\ Len(c) = Len(o)
          /\ \A k \in 1..(Len(o) - 1) : c[k] = o[k]
          /\ Advanced(Append(o, q), Append(c, q))
      BY <1>1, <1>2, <2>1, AdvancedStep
    <2> HIDE DEF c
    <2> QED
      BY <1>1, <2>2
  <1>4. c[n - 1] = Tail(b[n - 1])
    <2>1. Front(o) \in Ports /\ Len(Front(o)) = n - 2
      BY <1>1, PortFront
    <2>2. Tail(Last(o)) \in Seq(Msg)
      BY <1>1, <1>2, PortElements, TailElements
    <2> QED
      BY <1>1, <1>2, <2>1, <2>2, HeldParts
  <1> HIDE DEF c
  <1>5. /\ Len(Append(b, q)) = n + 1 /\ Len(Append(c, q)) = n
        /\ \A k \in 1..n : Append(b, q)[k] = b[k]
        /\ \A k \in 1..(n - 1) : Append(c, q)[k] = c[k]
        /\ Append(b, q)[n + 1] = q /\ Append(c, q)[n] = q
    BY <1>1, <1>3, HeldParts, SMTT(30) DEF n
  <1>6. Unnested(Append(b, q), Append(c, q))
    BY <1>1, <1>2, <1>3, <1>4, <1>5 DEF Unnested, n
  <1> QED
    BY <1>1, <1>2, <1>3, <1>6 DEF c, n, o

\* the end of all batches
LEMMA DroppedStep ==
    ASSUME NEW b \in Ports, NEW q \in Seq(Msg)
    PROVE  Dropped(Append(b, q), Append(<<>>, q))
  <1>1. <<>> \in Ports /\ Len(<<>>) = 0
    BY DEF Ports
  <1> QED
    BY <1>1, HeldParts DEF Dropped
-----------------------------------------------------------------------------
(* The inductive invariant                                                  *)

\* There are batches exactly while the port is processed; only the main thread nests,
\* and the message that processed the port again is the front of its batch.
PortShape ==
    \A s \in Services :
        /\ pc[s] = "run" <=> batches[s] # <<>>
        /\ s # Main => Len(batches[s]) <= 1
        /\ \A k \in 1..(Len(batches[s]) - 1) : batches[s][k] # <<>>

\* A thread waits for one answer at a time, and its message is there once.
OneAnswer ==
    /\ \A s \in Services : Apart(held(s), unheard)
    /\ \A t \in Threads \ gaveUp : waiting[t] = NoOne => ~replied[t]

\* A supervisor has the workers it started in its list until it has joined them; while
\* it stops them the ones it has visited have ended.
Tree ==
    /\ \A s \in Services : \A c \in kids[s] :
          s = Parent[c] /\ pc[c] # "new" /\ finished[c] = 0
    /\ \A c \in Services : pc[c] = "new" => finished[c] = 0
    /\ \A s \in Services :
          /\ pc[s] \in {"clean", "stopping"} => todo[s] \subseteq kids[s]
          /\ pc[s] = "stopping" => \A c \in kids[s] \ todo[s] : pc[c] = "ended"
          /\ pc[s] = "ended" => kids[s] = {}
-----------------------------------------------------------------------------
(* What a step does to a port                                               *)

\* The number of the message that is begun, empty_msg() not counted.
beginning(h, r) ==
    IF h[Len(h) - 1][1].id = 0 THEN r ELSE Append(r, h[Len(h) - 1][1].id)

\* The caller of the message m of s begins to wait for it.
BeginsToWait(s, m) ==
    /\ waiting[m.from] = NoOne /\ waiting'[m.from] = s
    /\ asked'[m.from] = m.id

\* What a step does to the port of s, its counters and its order of running.
PortStep(s, h, g) ==
    \/ g = h /\ ran'[s] = ran[s] /\ sent'[s] = sent[s]
    \/ \E m \in Msg :
          /\ Sent(h, g, m) /\ ran'[s] = ran[s]
          /\ m.from # NoOne => BeginsToWait(s, m)
          /\ \/ m.id = sent[s] + 1 /\ sent'[s] = sent[s] + 1
             \/ m.id = 0 /\ sent'[s] = sent[s] /\ ~looping'[s]
    \/ Taken(h, g) /\ Len(h) = 1 /\ ran'[s] = ran[s] /\ sent'[s] = sent[s]
    \/ /\ Taken(h, g) /\ s = Main /\ Len(h) > 1 /\ Len(h) <= Depth + 1
       /\ h[Len(h) - 1] # <<>>
       /\ ran'[s] = beginning(h, ran[s]) /\ sent'[s] = sent[s]
    \/ Advanced(h, g) /\ ran'[s] = beginning(h, ran[s]) /\ sent'[s] = sent[s]
    \/ Unnested(h, g) /\ ran'[s] = ran[s] /\ sent'[s] = sent[s]
    \/ /\ Dropped(h, g) /\ Len(h) = 2 /\ h[1] = <<>>
       /\ ran'[s] = ran[s] /\ sent'[s] = sent[s]
    \/ /\ Dropped(h, g) /\ ~looping'[s] /\ ran'[s] \in Seq(Nat) /\ sent'[s] = sent[s]

\* The same of the variables.
PortEffect(s) ==
    /\ queue'[s] \in Seq(Msg) /\ batches'[s] \in Ports
    /\ PortStep(s, held(s), held(s)')

\* The types of what a port consists of, of what send_and_wait() keeps and of what the
\* supervisors keep: the parts of TypeOK.
PortTypes ==
    /\ queue \in [Services -> Seq(Msg)] /\ batches \in [Services -> Ports]
    /\ ran \in [Services -> Seq(Nat)] /\ sent \in [Services -> Nat]
    /\ looping \in [Services -> BOOLEAN]

ReplyTypes ==
    /\ waiting \in [Threads -> Services \union {NoOne}]
    /\ asked \in [Threads -> Nat] /\ replied \in [Threads -> BOOLEAN]
    /\ gaveUp \subseteq Threads

\* A port that is not touched.
LEMMA StillEffect ==
    ASSUME PortTypes, NEW s \in Services,
           queue'[s] = queue[s], batches'[s] = batches[s],
           ran'[s] = ran[s], sent'[s] = sent[s]
    PROVE  PortEffect(s)
  BY DEF PortEffect, PortStep, PortTypes, held

\* send() and send_and_wait() append to one port.
LEMMA EnqueueEffect ==
    ASSUME PortTypes, NEW s \in Services, NEW d \in Services,
           NEW t \in Threads \union {NoOne},
           t # NoOne => /\ waiting[t] = NoOne /\ waiting'[t] = d
                        /\ asked'[t] = sent'[d],
           enqueue(d, t), UNCHANGED <<batches, ran>>
    PROVE  PortEffect(s)
  <1>1. CASE s # d
    <2>1. /\ queue'[s] = queue[s] /\ batches'[s] = batches[s]
          /\ ran'[s] = ran[s] /\ sent'[s] = sent[s]
      BY <1>1 DEF PortTypes, enqueue
    <2> QED
      BY <2>1, StillEffect
  <1>2. CASE s = d
    <2> DEFINE m == msg(sent[s] + 1, t)
    <2>1. m \in Msg /\ m.id = sent[s] + 1 /\ m.from = t
      BY DEF msg, Msg, PortTypes
    <2>2. sent'[s] = sent[s] + 1 /\ queue'[s] = Append(queue[s], m)
      BY <1>2 DEF PortTypes, enqueue
    <2> HIDE DEF m
    <2>3. batches[s] \in Ports /\ queue[s] \in Seq(Msg)
      BY DEF PortTypes
    <2>4. /\ Append(queue[s], m) \in Seq(Msg)
          /\ Sent(Append(batches[s], queue[s]), Append(batches[s], Append(queue[s], m)), m)
      BY <2>1, <2>3, SentStep
    <2>5. m.from # NoOne => BeginsToWait(s, m)
      BY <1>2, <2>1, <2>2 DEF BeginsToWait
    <2> QED
      BY <1>2, <2>1, <2>2, <2>3, <2>4, <2>5 DEF PortEffect, PortStep, held
  <1> QED
    BY <1>1, <1>2

\* process_for() takes the queue of a service that runs nothing.
LEMMA SwapEffect ==
    ASSUME PortTypes, PortShape, NEW s \in Services, NEW d \in Services,
           pc[d] # "run", swap(d), UNCHANGED <<sent, ran>>
    PROVE  PortEffect(s)
  <1>1. CASE s # d
    <2>1. /\ queue'[s] = queue[s] /\ batches'[s] = batches[s]
          /\ ran'[s] = ran[s] /\ sent'[s] = sent[s]
      BY <1>1 DEF PortTypes, swap
    <2> QED
      BY <2>1, StillEffect
  <1>2. CASE s = d
    <2>1. batches[s] = <<>> /\ queue[s] \in Seq(Msg) /\ batches[s] \in Ports
      BY <1>2 DEF PortShape, PortTypes
    <2>2. batches'[s] = <<queue[s]>> /\ queue'[s] = <<>>
      BY <1>2 DEF PortTypes, swap
    <2>3. Append(<<>>, queue[s]) = <<queue[s]>>
      BY <2>1
    <2>a. Len(batches[s]) = 0
      BY <2>1
    <2>b. batches[s] \in Ports /\ queue[s] \in Seq(Msg)
      BY <2>1
    <2>4. /\ Append(batches[s], queue[s]) \in Ports
          /\ Len(Append(batches[s], queue[s])) = 1
      BY <2>a, <2>b, HeldParts
    <2>5. Taken(Append(batches[s], queue[s]), Append(Append(batches[s], queue[s]), <<>>))
      BY <2>1, TakenStep
    <2>6. batches'[s] = Append(batches[s], queue[s])
      BY <2>1, <2>2, <2>3
    <2>7. held(s) = Append(batches[s], queue[s]) /\ held(s)' = Append(batches'[s], <<>>)
      BY <2>2 DEF held
    <2>8. Taken(held(s), held(s)') /\ Len(held(s)) = 1
      BY <2>4, <2>5, <2>6, <2>7
    <2>9. /\ queue'[s] \in Seq(Msg) /\ batches'[s] \in Ports
          /\ ran'[s] = ran[s] /\ sent'[s] = sent[s]
      <3>1. <<>> \in Seq(Msg)
        OBVIOUS
      <3>2. ran' = ran /\ sent' = sent
        OBVIOUS
      <3> QED
        BY <2>2, <2>4, <2>6, <3>1, <3>2, Zenon
    <2> QED
      BY <2>8, <2>9, Zenon DEF PortEffect, PortStep
  <1> QED
    BY <1>1, <1>2

\* The front of the innermost batch is the message that begins.
LEMMA BeginEffect ==
    ASSUME PortTypes, NEW s \in Services, batches[s] # <<>>, now(s) # <<>>
    PROVE  /\ Len(batches[s]) > 0 /\ Len(held(s)) = Len(batches[s]) + 1
           /\ held(s)[Len(held(s)) - 1] = now(s) /\ now(s) \in Seq(Msg)
           /\ Head(now(s)) = held(s)[Len(held(s)) - 1][1] /\ Head(now(s)) \in Msg
           /\ begin(s) => /\ ran'[s] = beginning(held(s), ran[s])
                          /\ ran'[s] \in Seq(Nat)
  <1> DEFINE b == batches[s]
             n == Len(b)
  <1>1. b \in Ports /\ queue[s] \in Seq(Msg)
    BY DEF PortTypes
  <1>2. n \in Nat /\ n > 0
    BY <1>1 DEF Ports
  <1>3. now(s) = b[n]
    BY <1>1, <1>2, PortFront DEF now
  <1>4. /\ Len(held(s)) = n + 1 /\ \A k \in 1..n : held(s)[k] = b[k]
    BY <1>1, HeldParts DEF held
  <1>5. held(s)[Len(held(s)) - 1] = b[n] /\ b[n] \in Seq(Msg)
    BY <1>1, <1>2, <1>4, PortElements
  <1> DEFINE x == Head(now(s))
  <1>6. x = b[n][1] /\ x \in Msg
    BY <1>3, <1>5, TailElements
  <1>7. x.id \in Nat
    BY <1>6 DEF Msg
  <1>8. ran[s] \in Seq(Nat)
    BY DEF PortTypes
  <1>9. ASSUME begin(s)
        PROVE  ran'[s] = beginning(held(s), ran[s]) /\ ran'[s] \in Seq(Nat)
    <2>1. ran'[s] = IF x.id = 0 THEN ran[s] ELSE Append(ran[s], x.id)
      BY <1>9 DEF begin, PortTypes
    <2> HIDE DEF x, b, n
    <2>2. ran'[s] = beginning(held(s), ran[s])
      BY <1>5, <1>6, <2>1 DEF beginning
    <2>3. ran'[s] \in Seq(Nat)
      BY <1>7, <1>8, <2>1
    <2> QED
      BY <2>2, <2>3
  <1> QED
    BY <1>2, <1>3, <1>4, <1>5, <1>6, <1>9

\* A callback begins and ends.
LEMMA CallbackEffect ==
    ASSUME PortTypes, PortShape, NEW s \in Services, NEW d \in Services, callback(d)
    PROVE  PortEffect(s)
  <1>1. CASE s # d
    <2>1. /\ queue'[s] = queue[s] /\ batches'[s] = batches[s]
          /\ ran'[s] = ran[s] /\ sent'[s] = sent[s]
      BY <1>1 DEF PortTypes, callback, begin, ports
    <2> QED
      BY <2>1, StillEffect
  <1>2. CASE s = d
    <2>1. batches[s] # <<>> /\ now(s) # <<>> /\ begin(s)
      BY <1>2 DEF PortShape, callback
    <2>2. batches[s] \in Ports /\ queue[s] \in Seq(Msg)
      BY DEF PortTypes
    <2>3. Len(batches[s]) > 0 /\ ran'[s] = beginning(held(s), ran[s])
      BY <2>1, BeginEffect
    <2> DEFINE c == Append(Front(batches[s]), Tail(Last(batches[s])))
    <2>4. c \in Ports /\ Advanced(Append(batches[s], queue[s]), Append(c, queue[s]))
      BY <2>1, <2>2, <2>3, AdvancedStep DEF now
    <2>5. batches'[s] = c /\ queue'[s] = queue[s] /\ sent'[s] = sent[s]
      BY <1>2 DEF PortTypes, callback, ports, now
    <2> HIDE DEF c
    <2>6. Advanced(held(s), held(s)')
      BY <2>4, <2>5 DEF held
    <2> QED
      BY <2>2, <2>3, <2>4, <2>5, <2>6 DEF PortEffect, PortStep
  <1> QED
    BY <1>1, <1>2

\* A callback throws.
LEMMA ThrowEffect ==
    ASSUME PortTypes, PortShape, NEW s \in Services, NEW d \in Services,
           callback_throws(d)
    PROVE  PortEffect(s)
  <1>1. CASE s # d
    <2>1. /\ queue'[s] = queue[s] /\ batches'[s] = batches[s]
          /\ ran'[s] = ran[s] /\ sent'[s] = sent[s]
      BY <1>1 DEF PortTypes, callback_throws, begin, ports
    <2> QED
      BY <2>1, StillEffect
  <1>2. CASE s = d
    <2>1. batches[s] # <<>> /\ now(s) # <<>> /\ begin(s)
      BY <1>2 DEF PortShape, callback_throws
    <2>2. batches[s] \in Ports /\ queue[s] \in Seq(Msg)
      BY DEF PortTypes
    <2>3. ran'[s] \in Seq(Nat)
      BY <2>1, BeginEffect
    <2>4. Dropped(Append(batches[s], queue[s]), Append(<<>>, queue[s])) /\ <<>> \in Ports
      BY <2>2, DroppedStep DEF Ports
    <2>5. /\ batches'[s] = <<>> /\ queue'[s] = queue[s] /\ sent'[s] = sent[s]
          /\ ~looping'[s]
      BY <1>2 DEF PortTypes, callback_throws, ports
    <2>6. Dropped(held(s), held(s)')
      BY <2>4, <2>5 DEF held
    <2>7. batches'[s] \in Ports /\ queue'[s] \in Seq(Msg)
      BY <2>2, <2>4, <2>5
    <2> QED
      BY <2>3, <2>5, <2>6, <2>7, Zenon DEF PortEffect, PortStep
  <1> QED
    BY <1>1, <1>2

\* A callback processes the port of the main thread again.
LEMMA NestEffect ==
    ASSUME PortTypes, PortShape, NEW s \in Services, NEW d \in Services, nest(d)
    PROVE  PortEffect(s)
  <1>1. CASE s # d
    <2>1. /\ queue'[s] = queue[s] /\ batches'[s] = batches[s]
          /\ ran'[s] = ran[s] /\ sent'[s] = sent[s]
      BY <1>1 DEF PortTypes, nest, begin
    <2> QED
      BY <2>1, StillEffect
  <1>2. CASE s = d
    <2>1. batches[s] # <<>> /\ now(s) # <<>> /\ begin(s) /\ s = Main
      BY <1>2 DEF PortShape, nest
    <2>2. batches[s] \in Ports /\ queue[s] \in Seq(Msg)
      BY DEF PortTypes
    <2>3. /\ Len(batches[s]) > 0 /\ ran'[s] = beginning(held(s), ran[s])
          /\ Len(held(s)) = Len(batches[s]) + 1 /\ held(s)[Len(held(s)) - 1] # <<>>
      BY <2>1, BeginEffect
    <2>4. /\ Append(batches[s], queue[s]) \in Ports
          /\ Taken(Append(batches[s], queue[s]), Append(Append(batches[s], queue[s]), <<>>))
      BY <2>2, HeldParts, TakenStep
    <2>5. /\ batches'[s] = Append(batches[s], queue[s]) /\ queue'[s] = <<>>
          /\ sent'[s] = sent[s] /\ Len(batches[s]) <= Depth
      BY <1>2 DEF PortTypes, nest
    <2>6. Taken(held(s), held(s)')
      BY <2>4, <2>5 DEF held
    <2>7. Len(held(s)) > 1 /\ Len(held(s)) <= Depth + 1
      BY <2>2, <2>3, <2>5, PortElements, ServicesAssumption
    <2>8. batches'[s] \in Ports /\ queue'[s] \in Seq(Msg)
      <3>1. <<>> \in Seq(Msg)
        OBVIOUS
      <3> QED
        BY <2>4, <2>5, <3>1, Zenon
    <2> QED
      BY <2>1, <2>3, <2>5, <2>6, <2>7, <2>8, Zenon DEF PortEffect, PortStep
  <1> QED
    BY <1>1, <1>2

\* It ends after the inner process_for() has returned.
LEMMA UnnestEffect ==
    ASSUME PortTypes, PortShape, NEW s \in Services, NEW d \in Services, unnest(d)
    PROVE  PortEffect(s)
  <1>1. CASE s # d
    <2>1. /\ queue'[s] = queue[s] /\ batches'[s] = batches[s]
          /\ ran'[s] = ran[s] /\ sent'[s] = sent[s]
      BY <1>1 DEF PortTypes, unnest, ports
    <2> QED
      BY <2>1, StillEffect
  <1>2. CASE s = d
    <2>1. Len(batches[s]) > 1 /\ Last(batches[s]) = <<>>
      BY <1>2 DEF unnest, now
    <2>2. batches[s] \in Ports /\ queue[s] \in Seq(Msg) /\ Len(batches[s]) \in Nat
      BY PortElements DEF PortTypes
    <2>3. batches[s][Len(batches[s]) - 1] # <<>>
      BY <2>1, <2>2 DEF PortShape
    <2> DEFINE o == Front(batches[s])
               c == Append(Front(o), Tail(Last(o)))
    <2>4. c \in Ports /\ Unnested(Append(batches[s], queue[s]), Append(c, queue[s]))
      BY <2>1, <2>2, <2>3, UnnestedStep
    <2>5. /\ batches'[s] = c /\ queue'[s] = queue[s] /\ sent'[s] = sent[s]
          /\ ran'[s] = ran[s]
      BY <1>2 DEF PortTypes, unnest, ports
    <2> HIDE DEF c
    <2>6. Unnested(held(s), held(s)')
      BY <2>4, <2>5 DEF held
    <2> QED
      BY <2>2, <2>4, <2>5, <2>6 DEF PortEffect, PortStep
  <1> QED
    BY <1>1, <1>2

\* The outermost process_for() returns.
LEMMA ProcessedEffect ==
    ASSUME PortTypes, PortShape, NEW s \in Services, NEW d \in Services, processed(d)
    PROVE  PortEffect(s)
  <1>1. CASE s # d
    <2>1. /\ queue'[s] = queue[s] /\ batches'[s] = batches[s]
          /\ ran'[s] = ran[s] /\ sent'[s] = sent[s]
      BY <1>1 DEF PortTypes, processed, ports
    <2> QED
      BY <2>1, StillEffect
  <1>2. CASE s = d
    <2>1. batches[s] = <<<<>>>>
      BY <1>2 DEF processed
    <2>2. batches[s] \in Ports /\ queue[s] \in Seq(Msg)
      BY DEF PortTypes
    <2>3. Len(batches[s]) = 1 /\ batches[s][1] = <<>>
      BY <2>1
    <2>4. Dropped(Append(batches[s], queue[s]), Append(<<>>, queue[s])) /\ <<>> \in Ports
      BY <2>2, DroppedStep DEF Ports
    <2>5. /\ batches'[s] = <<>> /\ queue'[s] = queue[s] /\ sent'[s] = sent[s]
          /\ ran'[s] = ran[s]
      BY <1>2 DEF PortTypes, processed, ports
    <2>6. Dropped(held(s), held(s)')
      BY <2>4, <2>5 DEF held
    <2>7. Len(held(s)) = 2 /\ held(s)[1] = <<>>
      <3>1. /\ Len(held(s)) = Len(batches[s]) + 1
            /\ \A k \in 1..Len(batches[s]) : held(s)[k] = batches[s][k]
        BY <2>2, HeldParts DEF held
      <3> QED
        BY <2>3, <3>1
    <2>8. batches'[s] \in Ports /\ queue'[s] \in Seq(Msg)
      BY <2>2, <2>4, <2>5
    <2> QED
      BY <2>5, <2>6, <2>7, <2>8, Zenon DEF PortEffect, PortStep
  <1> QED
    BY <1>1, <1>2

\* stop() sends the empty message to a service that looped until now.
LEMMA StopEffect ==
    ASSUME PortTypes, NEW s \in Services, NEW p, NEW d \in Services, stop(p, d)
    PROVE  PortEffect(s)
  <1>1. CASE s # d \/ ~looping[d]
    <2>1. /\ queue'[s] = queue[s] /\ batches'[s] = batches[s]
          /\ ran'[s] = ran[s] /\ sent'[s] = sent[s]
      BY <1>1 DEF PortTypes, stop
    <2> QED
      BY <2>1, StillEffect
  <1>2. CASE s = d /\ looping[d]
    <2>1. empty_msg \in Msg /\ empty_msg.id = 0 /\ empty_msg.from = NoOne
      BY DEF empty_msg, msg, Msg
    <2>2. /\ queue'[s] = Append(queue[s], empty_msg) /\ ~looping'[s]
          /\ batches'[s] = batches[s] /\ sent'[s] = sent[s] /\ ran'[s] = ran[s]
      BY <1>2 DEF PortTypes, stop
    <2>3. batches[s] \in Ports /\ queue[s] \in Seq(Msg)
      BY DEF PortTypes
    <2>4. /\ Append(queue[s], empty_msg) \in Seq(Msg)
          /\ Sent(Append(batches[s], queue[s]),
                  Append(batches[s], Append(queue[s], empty_msg)), empty_msg)
      BY <2>1, <2>3, SentStep
    <2> QED
      BY <2>1, <2>2, <2>3, <2>4 DEF PortEffect, PortStep, held
  <1> QED
    BY <1>1, <1>2

\* No port is touched.
LEMMA StillStep ==
    ASSUME PortTypes, UNCHANGED <<queue, batches, ran, sent>>, NEW s \in Services
    PROVE  PortEffect(s)
  BY StillEffect

\* Every step is one of these at every port, and no service loops again.
LEMMA NextEffect ==
    ASSUME PortTypes, PortShape, ReplyTypes, [Next]_vars, NEW s \in Services
    PROVE  PortEffect(s) /\ (looping'[s] => looping[s])
  <1> USE DEF ports, tree, reply
  <1>1. ASSUME NEW t \in Threads, NEW d \in Services, send(t, d) PROVE PortEffect(s)
    BY <1>1, EnqueueEffect DEF send
  <1>2. ASSUME NEW t \in Threads, NEW d \in Services, send_and_wait(t, d)
        PROVE  PortEffect(s)
    <2>1. waiting[t] = NoOne /\ waiting'[t] = d /\ asked'[t] = sent'[d]
      BY <1>2 DEF send_and_wait, free, ReplyTypes
    <2> QED
      BY <1>2, <2>1, EnqueueEffect DEF send_and_wait
  <1>3. ASSUME NEW t \in Threads, return(t) \/ return_early(t) PROVE PortEffect(s)
    BY <1>3, StillStep DEF return, return_early, hang_up
  <1>4. ASSUME NEW d \in Services, run(d) PROVE PortEffect(s)
    <2>1. ASSUME process_for(d) PROVE PortEffect(s)
      <3>1. CASE UNCHANGED <<queue, batches>>
        BY <2>1, <3>1, StillStep DEF process_for
      <3>2. CASE swap(d)
        BY <2>1, <3>2, SwapEffect DEF process_for
      <3> QED
        BY <2>1, <3>1, <3>2 DEF process_for
    <2>2. ASSUME wake(d) PROVE PortEffect(s)
      BY <2>2, SwapEffect DEF wake
    <2>3. ASSUME cleaned(d) \/ leave(d) \/ end(d) \/ loop_body(d) PROVE PortEffect(s)
      BY <2>3, StillStep DEF cleaned, leave, end, loop_body
    <2>4. ASSUME NEW c \in Workers, cleanup_children(d, c) \/ join(d, c)
          PROVE  PortEffect(s)
      BY <2>4, StillStep DEF cleanup_children, join
    <2>5. ASSUME NEW c \in Workers, stop(d, c) PROVE PortEffect(s)
      BY <2>5, StopEffect DEF Services
    <2> QED
      BY <1>4, <2>1, <2>2, <2>3, <2>4, <2>5, CallbackEffect, UnnestEffect,
         ProcessedEffect DEF run
  <1>5. ASSUME NEW d \in Services, loop_ends(d) PROVE PortEffect(s)
    BY <1>5, StillStep DEF loop_ends
  <1>6. ASSUME NEW d \in Services, NEW c \in Workers, add_child_service(d, c)
        PROVE  PortEffect(s)
    BY <1>6, StillStep DEF add_child_service
  <1>7. ASSUME UNCHANGED vars PROVE PortEffect(s)
    BY <1>7, StillStep DEF vars
  <1>8. PortEffect(s)
    BY <1>1, <1>2, <1>3, <1>4, <1>5, <1>6, <1>7, ThrowEffect, NestEffect DEF Next
  <1>9. looping'[s] => looping[s]
    <2>1. \A d \in Services : looping' = [looping EXCEPT ![d] = FALSE] =>
              (looping'[s] => looping[s])
      BY DEF PortTypes
    <2>2. looping' = looping \/ \E d \in Services : looping' = [looping EXCEPT ![d] = FALSE]
      BY ZenonT(30) DEF Next, run, vars, send, send_and_wait, return, return_early, hang_up, process_for, wake, callback,
             unnest, processed, cleaned, leave, end, loop_body, cleanup_children, stop,
             join, callback_throws, nest, loop_ends, add_child_service, Services
    <2> QED
      BY <2>1, <2>2
  <1> QED
    BY <1>8, <1>9

\* What holds of a port h of service s: its size, its numbers, and its messages.
PortOK(s, l, h, r, n) ==
    /\ Len(h) <= Depth + 2 /\ (s # Main => Len(h) <= 2)
    /\ \A k \in 1..(Len(h) - 2) : h[k] # <<>>
    /\ \A k \in 1..Len(h) : \A i \in 1..Len(h[k]) : h[k][i].id <= n
    /\ l => Kept(h, r, n) /\ (s # Main => \A i \in 1..Len(r) : r[i] = i)

\* What is left of a port has no message that was not there.
LEMMA WithinBound ==
    ASSUME NEW g, NEW h, NEW up, NEW drop, Within(g, h, up, drop), NEW n,
           \A k \in 1..Len(h) : \A i \in 1..Len(h[k]) : h[k][i].id <= n
    PROVE  \A k \in 1..Len(g) : \A i \in 1..Len(g[k]) : g[k][i].id <= n
  <1> SUFFICES ASSUME NEW k \in 1..Len(g), NEW i \in 1..Len(g[k])
               PROVE  g[k][i].id <= n
    OBVIOUS
  <1>1. /\ up[k] \in 1..Len(h) /\ i + drop[k] \in 1..Len(h[up[k]])
        /\ g[k][i] = h[up[k]][i + drop[k]]
    BY DEF Within
  <1> QED
    BY <1>1

\* Every step of a port keeps what holds of it.
LEMMA KeptStep ==
    ASSUME PortTypes, NEW s \in Services, NEW h \in Ports, NEW g \in Ports,
           Len(h) > 0, looping'[s] => looping[s], PortStep(s, h, g),
           PortOK(s, looping[s], h, ran[s], sent[s])
    PROVE  PortOK(s, looping'[s], g, ran'[s], sent'[s])
  <1> DEFINE r == ran[s]
             n == sent[s]
  <1>1. r \in Seq(Nat) /\ n \in Nat
    BY DEF PortTypes
  <1>2. /\ Len(h) \in Nat \ {0} /\ Len(g) \in Nat /\ Depth \in Nat \ {0}
        /\ \A k \in 1..Len(h) : h[k] \in Seq(Msg) /\ Len(h[k]) \in Nat
        /\ \A k \in 1..Len(g) : g[k] \in Seq(Msg) /\ Len(g[k]) \in Nat
    BY PortElements, ServicesAssumption
  <1>3. CASE g = h /\ ran'[s] = r /\ sent'[s] = n
    BY <1>3 DEF PortOK
  <1>4. ASSUME NEW m \in Msg, Sent(h, g, m), ran'[s] = r,
               \/ m.id = n + 1 /\ sent'[s] = n + 1
               \/ m.id = 0 /\ sent'[s] = n /\ ~looping'[s]
        PROVE  PortOK(s, looping'[s], g, ran'[s], sent'[s])
    <2>1. Len(g) = Len(h) /\ \A k \in 1..(Len(g) - 2) : g[k] # <<>>
      <3>1. Len(g) = Len(h) /\ \A k \in 1..(Len(h) - 1) : g[k] = h[k]
        BY <1>4 DEF Sent
      <3>2. \A k \in 1..(Len(h) - 2) : h[k] # <<>>
        BY DEF PortOK
      <3>3. ASSUME NEW k \in 1..(Len(g) - 2) PROVE g[k] # <<>>
        <4>1. k \in 1..(Len(h) - 1) /\ k \in 1..(Len(h) - 2)
          BY <1>2, <3>1
        <4> QED BY <3>1, <3>2, <4>1
      <3> QED
        BY <3>1, <3>3
    <2>2. ASSUME NEW k \in 1..Len(g), NEW i \in 1..Len(g[k])
          PROVE  g[k][i].id <= sent'[s]
      <3>1. g[k][i] = m \/ (k \in 1..Len(h) /\ i \in 1..Len(h[k]) /\ g[k][i] = h[k][i])
        BY <1>2, <1>4, SentPlaces
      <3>2. CASE g[k][i] = m
        BY <1>1, <1>4, <3>2
      <3>3. CASE k \in 1..Len(h) /\ i \in 1..Len(h[k]) /\ g[k][i] = h[k][i]
        <4>1. h[k][i] \in Msg /\ h[k][i].id <= n
          BY <1>2, <3>3 DEF PortOK
        <4>2. h[k][i].id \in Nat
          BY <4>1 DEF Msg
        <4> QED
          BY <1>1, <1>4, <3>3, <4>1, <4>2
      <3> QED
        BY <3>1, <3>2, <3>3
    <2>3. ASSUME looping'[s]
          PROVE  Kept(g, r, n + 1) /\ sent'[s] = n + 1
                 /\ (s # Main => \A i \in 1..Len(r) : r[i] = i)
      <3>1. Kept(h, r, n) /\ (s # Main => \A i \in 1..Len(r) : r[i] = i)
        BY <2>3 DEF PortOK
      <3>2. m.id = n + 1 /\ sent'[s] = n + 1
        BY <1>4, <2>3
      <3>3. \A k \in 1..Len(h) : \A i \in 1..Len(h[k]) : h[k][i].id <= n
        BY DEF PortOK
      <3> QED
        BY <1>1, <1>2, <1>4, <3>1, <3>2, <3>3, KeptSent
    <2> QED
      BY <1>4, <2>1, <2>2, <2>3 DEF PortOK
  <1>5. ASSUME NEW up, NEW drop, Within(g, h, up, drop)
        PROVE  /\ \A k \in 1..Len(g) : \A i \in 1..Len(g[k]) : g[k][i].id <= n
               /\ ordered(h) => ordered(g)
    <2>1. \A k \in 1..Len(h) : \A i \in 1..Len(h[k]) : h[k][i].id <= n
      BY DEF PortOK
    <2> QED
      BY <1>5, <2>1, WithinBound, WithinKeeps
  \* a step that begins no message
  <1>6. ASSUME \A k \in 1..Len(g) : \A i \in 1..Len(g[k]) : g[k][i].id <= n,
               ordered(h) => ordered(g), toRun(g) = toRun(h),
               ran'[s] = r, sent'[s] = n,
               Len(g) <= Depth + 2, s # Main => Len(g) <= 2,
               \A k \in 1..(Len(g) - 2) : g[k] # <<>>
        PROVE  PortOK(s, looping'[s], g, ran'[s], sent'[s])
    <2>1. looping'[s] => Kept(g, r, n) /\ (s # Main => \A i \in 1..Len(r) : r[i] = i)
      BY <1>6 DEF PortOK, Kept
    <2> QED
      BY <1>6, <2>1 DEF PortOK
  \* a step that begins the front of the innermost batch
  <1>7. ASSUME \A k \in 1..Len(g) : \A i \in 1..Len(g[k]) : g[k][i].id <= n,
               Len(h) > 1, h[Len(h) - 1] # <<>>, ordered(h) => ordered(g),
               ordered(h) => /\ h[Len(h) - 1][1].id \in toRun(h)
                             /\ toRun(g) = toRun(h) \ {h[Len(h) - 1][1].id},
               ran'[s] = beginning(h, r), sent'[s] = n,
               Len(g) <= Depth + 2, s # Main => Len(g) <= 2 /\ Len(h) = 2,
               \A k \in 1..(Len(g) - 2) : g[k] # <<>>
        PROVE  PortOK(s, looping'[s], g, ran'[s], sent'[s])
    <2> DEFINE x == h[Len(h) - 1][1].id
    <2>1. ASSUME looping'[s]
          PROVE  /\ Kept(g, ran'[s], n)
                 /\ s # Main => \A i \in 1..Len(ran'[s]) : ran'[s][i] = i
      <3>1. Kept(h, r, n) /\ (s # Main => \A i \in 1..Len(r) : r[i] = i)
        BY <2>1 DEF PortOK
      <3>2. ordered(g) /\ x \in toRun(h) /\ toRun(g) = toRun(h) \ {x}
        BY <1>7, <3>1 DEF Kept
      <3>3. x \in 1..n
        BY <3>1, <3>2 DEF Kept
      <3>4. ran'[s] = Append(r, x) /\ x \in Nat
        BY <1>1, <1>7, <3>3 DEF beginning
      <3>5. Kept(g, Append(r, x), n)
        BY <1>1, <3>1, <3>2, <3>4, KeptBegun
      <3>6. ASSUME s # Main PROVE \A i \in 1..Len(Append(r, x)) : Append(r, x)[i] = i
        <4>3. \A i \in 1..Len(r) : r[i] = i
          BY <3>1, <3>6
        <4>4. Len(h) = 2 /\ Len(h) - 1 = 1
          BY <1>7, <3>6
        <4>5. h[1] # <<>> /\ x = h[1][1].id
          BY <1>7, <4>4
        <4>1. h[1][1].id = Len(r) + 1
          BY <1>1, <3>1, <4>3, <4>4, <4>5, InTurn
        <4>2. x = Len(r) + 1
          BY <4>1, <4>5
        <4> HIDE DEF x, r
        <4> QED
          BY <1>1, <3>4, <4>2, <4>3
      <3> QED
        BY <3>4, <3>5, <3>6
    <2> QED
      BY <1>7, <2>1 DEF PortOK
  <1>8. CASE Taken(h, g) /\ Len(h) = 1 /\ ran'[s] = r /\ sent'[s] = n
    <2>1. Len(g) = 2
      BY <1>8 DEF Taken
    <2>2. toRun(g) = toRun(h)
      BY <1>8, ToRunTaken
    <2>3. PICK up, drop : Within(g, h, up, drop)
      BY <1>8, TakenWithin
    <2> QED
      BY <1>2, <1>5, <1>6, <1>8, <2>1, <2>2, <2>3
  <1>9. CASE /\ Taken(h, g) /\ s = Main /\ Len(h) > 1 /\ Len(h) <= Depth + 1
             /\ h[Len(h) - 1] # <<>>
             /\ ran'[s] = beginning(h, r) /\ sent'[s] = n
    <2>1. Len(g) = Len(h) + 1 /\ Len(g) <= Depth + 2
      BY <1>2, <1>9 DEF Taken
    <2>2. ordered(h) => /\ h[Len(h) - 1][1].id \in toRun(h)
                        /\ toRun(g) = toRun(h) \ {h[Len(h) - 1][1].id}
      BY <1>9, ToRunNested
    <2>3. PICK up, drop : Within(g, h, up, drop)
      BY <1>9, TakenWithin
    <2>4. \A k \in 1..(Len(g) - 2) : g[k] # <<>>
      <3>1. \A k \in 1..Len(h) : g[k] = h[k]
        BY <1>9 DEF Taken
      <3>2. \A k \in 1..(Len(h) - 2) : h[k] # <<>>
        BY DEF PortOK
      <3> QED
        <4>1. Len(h) \in Nat /\ Len(g) = Len(h) + 1
          BY <1>2, <2>1
        <4>2. \A k \in 1..(Len(g) - 2) :
                 k \in 1..Len(h) /\ (k \in 1..(Len(h) - 2) \/ k = Len(h) - 1)
          BY <4>1
        <4> QED
          BY <1>9, <3>1, <3>2, <4>2
    <2> QED
      BY <1>5, <1>7, <1>9, <2>1, <2>2, <2>3, <2>4
  <1>10. CASE Advanced(h, g) /\ ran'[s] = beginning(h, r) /\ sent'[s] = n
    <2>1. Len(h) > 1 /\ Len(g) = Len(h) /\ h[Len(h) - 1] # <<>>
      BY <1>10 DEF Advanced
    <2>2. ordered(h) => /\ h[Len(h) - 1][1].id \in toRun(h)
                        /\ toRun(g) = toRun(h) \ {h[Len(h) - 1][1].id}
      BY <1>10, ToRunAdvanced
    <2>3. PICK up, drop : Within(g, h, up, drop)
      BY <1>10, AdvancedWithin
    <2>4. \A k \in 1..(Len(g) - 2) : g[k] # <<>>
      <3>1. \A k \in 1..Len(h) : k # Len(h) - 1 => g[k] = h[k]
        BY <1>10 DEF Advanced
      <3>2. \A k \in 1..(Len(h) - 2) : h[k] # <<>>
        BY DEF PortOK
      <3>3. Len(h) \in Nat /\ Len(g) = Len(h)
        BY <1>2, <2>1
      <3>4. \A k \in 1..(Len(g) - 2) :
               k \in 1..Len(h) /\ k # Len(h) - 1 /\ k \in 1..(Len(h) - 2)
        BY <3>3
      <3> QED
        BY <3>1, <3>2, <3>4
    <2>5. Len(g) <= Depth + 2 /\ (s # Main => Len(g) <= 2 /\ Len(h) = 2)
      BY <1>2, <2>1 DEF PortOK
    <2> QED
      BY <1>5, <1>7, <1>10, <2>1, <2>2, <2>3, <2>4, <2>5
  <1>11. CASE Unnested(h, g) /\ ran'[s] = r /\ sent'[s] = n
    <2>1. Len(h) > 2 /\ Len(g) = Len(h) - 1
      BY <1>11 DEF Unnested
    <2>2. toRun(g) = toRun(h)
      BY <1>11, ToRunUnnested
    <2>3. PICK up, drop : Within(g, h, up, drop)
      BY <1>11, UnnestedWithin
    <2>4. \A k \in 1..(Len(g) - 2) : g[k] # <<>>
      <3>1. \A k \in 1..(Len(h) - 3) : g[k] = h[k]
        BY <1>11 DEF Unnested
      <3>2. \A k \in 1..(Len(h) - 2) : h[k] # <<>>
        BY DEF PortOK
      <3> QED
        BY <1>2, <2>1, <3>1, <3>2
    <2>5. Len(g) <= Depth + 2 /\ (s # Main => Len(g) <= 2)
      BY <1>2, <2>1 DEF PortOK
    <2> QED
      BY <1>5, <1>6, <1>11, <2>1, <2>2, <2>3, <2>4, <2>5
  <1>12. CASE /\ Dropped(h, g) /\ Len(h) = 2 /\ h[1] = <<>>
              /\ ran'[s] = r /\ sent'[s] = n
    <2>1. Len(g) = 1
      BY <1>12 DEF Dropped
    <2>2. toRun(g) = toRun(h)
      BY <1>12, ToRunDone
    <2>3. PICK up, drop : Within(g, h, up, drop)
      BY <1>12, DroppedWithin
    <2> QED
      BY <1>2, <1>5, <1>6, <1>12, <2>1, <2>2, <2>3
  <1>13. CASE Dropped(h, g) /\ ~looping'[s] /\ ran'[s] \in Seq(Nat) /\ sent'[s] = n
    <2>1. Len(g) = 1
      BY <1>13 DEF Dropped
    <2>2. PICK up, drop : Within(g, h, up, drop)
      BY <1>13, DroppedWithin
    <2>3. \A k \in 1..Len(g) : \A i \in 1..Len(g[k]) : g[k][i].id <= n
      BY <1>5, <2>2
    <2> QED
      BY <1>2, <1>13, <2>1, <2>3 DEF PortOK
  <1> QED
    BY <1>3, <1>4, <1>8, <1>9, <1>10, <1>11, <1>12, <1>13 DEF PortStep
-----------------------------------------------------------------------------
(* Answers                                                                  *)

\* No message of the port h is waited for by t.
Unasked(h, t) == \A k \in 1..Len(h) : \A i \in 1..Len(h[k]) : h[k][i].from # t

\* The message that is answered is the only one its caller waits for.
LEMMA AdvancedUnasked ==
    ASSUME NEW h \in Ports, NEW g \in Ports, Advanced(h, g), NEW out,
           Apart(h, out), h[Len(h) - 1][1].from \notin out
    PROVE  Unasked(g, h[Len(h) - 1][1].from)
  <1> DEFINE n == Len(h) - 1
             q == Len(h[n])
             t == h[n][1].from
  <1>1. /\ n \in Nat \ {0} /\ Len(h) = n + 1 /\ n \in 1..Len(h) /\ Len(g) = n + 1
        /\ h[n] # <<>> /\ g[n] = Tail(h[n])
        /\ \A k \in 1..Len(h) : k # n => g[k] = h[k]
    BY PortElements DEF Advanced
  <1>2. h[n] \in Seq(Msg) /\ q \in Nat
    BY <1>1, PortElements
  <1>3. q > 0 /\ Len(g[n]) = q - 1 /\ \A i \in 1..(q - 1) : g[n][i] = h[n][i + 1]
    <2>1. h[n] # <<>> /\ g[n] = Tail(h[n])
      BY <1>1
    <2> QED
      BY <1>2, <2>1, TailElements
  <1>4. Len(h[n]) = q /\ t = h[n][1].from /\ Len(h) - 1 = n
    OBVIOUS
  <1> HIDE DEF n, q, t
  <1>5. 1 \in 1..Len(h[n]) /\ t \notin out
    BY <1>2, <1>3, <1>4
  <1>6. ASSUME NEW k \in 1..Len(g), NEW i \in 1..Len(g[k])
        PROVE  g[k][i].from # t
    <2>1. CASE k = n
      <3>1. i + 1 \in 1..Len(h[n]) /\ g[k][i] = h[n][i + 1] /\ i \in Nat /\ i > 0
        BY <1>2, <1>3, <1>4, <2>1
      <3>2. before(n, 1, n, i + 1)
        BY <1>1, <3>1 DEF before
      <3>3. h[n][1].from \in out \/ h[n][1].from # h[n][i + 1].from
        BY <1>1, <1>5, <3>1, <3>2 DEF Apart
      <3> QED
        BY <1>4, <1>5, <3>1, <3>3
    <2>2. CASE k # n
      <3>1. k \in 1..Len(h) /\ i \in 1..Len(h[k]) /\ g[k][i] = h[k][i]
        BY <1>1, <2>2
      <3>2. before(k, i, n, 1) \/ before(n, 1, k, i)
        BY <1>1, <2>2 DEF before
      <3>3. \/ h[k][i].from \in out \/ h[k][i].from # h[n][1].from
        <4>1. n \in 1..Len(h) /\ 1 \in 1..Len(h[n])
          BY <1>1, <1>5
        <4>2. before(k, i, n, 1) => h[k][i].from \in out \/ h[k][i].from # h[n][1].from
          BY <3>1, <4>1 DEF Apart
        <4>3. before(n, 1, k, i) => h[n][1].from \in out \/ h[n][1].from # h[k][i].from
          BY <3>1, <4>1 DEF Apart
        <4> QED
          BY <1>4, <1>5, <3>2, <4>2, <4>3
      <3> QED
        BY <1>4, <1>5, <3>1, <3>3
    <2> QED
      BY <2>1, <2>2
  <1> QED
    BY <1>4, <1>6 DEF Unasked

\* The same when an outer message is answered.
LEMMA UnnestedUnasked ==
    ASSUME NEW h \in Ports, NEW g \in Ports, Unnested(h, g), NEW out,
           Apart(h, out), h[Len(h) - 2][1].from \notin out
    PROVE  Unasked(g, h[Len(h) - 2][1].from)
  <1> DEFINE n == Len(h) - 2
             q == Len(h[n])
             t == h[n][1].from
  <1>1. /\ n \in Nat \ {0} /\ Len(h) = n + 2 /\ n \in 1..Len(h) /\ Len(g) = n + 1
        /\ h[n] # <<>> /\ g[n] = Tail(h[n]) /\ g[n + 1] = h[n + 2]
        /\ \A k \in 1..(n - 1) : g[k] = h[k]
    BY PortElements DEF Unnested
  <1>2. h[n] \in Seq(Msg) /\ q \in Nat
    BY <1>1, PortElements
  <1>3. q > 0 /\ Len(g[n]) = q - 1 /\ \A i \in 1..(q - 1) : g[n][i] = h[n][i + 1]
    BY <1>1, <1>2, TailElements
  <1>4. Len(h[n]) = q /\ t = h[n][1].from /\ Len(h) - 2 = n
    OBVIOUS
  <1> HIDE DEF n, q, t
  <1>5. 1 \in 1..Len(h[n]) /\ t \notin out
    BY <1>2, <1>3, <1>4
  <1>6. ASSUME NEW k \in 1..Len(g), NEW i \in 1..Len(g[k])
        PROVE  g[k][i].from # t
    <2>1. CASE k = n
      <3>1. i + 1 \in 1..Len(h[n]) /\ g[k][i] = h[n][i + 1] /\ i \in Nat /\ i > 0
        BY <1>2, <1>3, <1>4, <2>1
      <3>2. before(n, 1, n, i + 1)
        BY <1>1, <3>1 DEF before
      <3>3. h[n][1].from \in out \/ h[n][1].from # h[n][i + 1].from
        BY <1>1, <1>5, <3>1, <3>2 DEF Apart
      <3> QED
        BY <1>4, <1>5, <3>1, <3>3
    <2>2. ASSUME NEW l \in 1..Len(h), l # n, NEW j \in 1..Len(h[l])
          PROVE  h[l][j].from # t
      <3>1. before(l, j, n, 1) \/ before(n, 1, l, j)
        BY <1>1, <2>2 DEF before
      <3>2. \/ h[l][j].from \in out \/ h[l][j].from # h[n][1].from
        BY <1>1, <1>4, <1>5, <2>2, <3>1 DEF Apart
      <3> QED
        BY <1>4, <1>5, <3>2
    <2>3. CASE k = n + 1
      <3>1. n + 2 \in 1..Len(h) /\ n + 2 # n
        BY <1>1
      <3> QED
        BY <1>1, <2>2, <2>3, <3>1
    <2>4. CASE k # n /\ k # n + 1
      <3>1. k \in 1..(n - 1) /\ k \in 1..Len(h) /\ k # n
        BY <1>1, <2>4
      <3> QED
        BY <1>1, <2>2, <3>1
    <2> QED
      BY <2>1, <2>3, <2>4
  <1> QED
    BY <1>4, <1>6 DEF Unasked

\* Who waits stays waiting until it is answered, and it is answered once its message
\* is gone.
ReplyEffect(t) ==
    /\ \/ waiting'[t] = waiting[t] /\ asked'[t] = asked[t]
       \/ waiting[t] = NoOne \/ replied[t]
    /\ waiting'[t] = NoOne => waiting[t] = NoOne \/ ~replied'[t]
    /\ replied'[t] => replied[t] \/ \E s \in Services : waiting[t] = s /\ Unasked(held(s)', t)

\* Nobody begins or ends to wait and nobody is answered.
LEMMA StillReply ==
    ASSUME ReplyTypes, UNCHANGED reply, NEW t \in Threads
    PROVE  ReplyEffect(t)
  BY DEF ReplyEffect, reply

\* What a service holds is a port.
LEMMA HeldPort ==
    ASSUME PortTypes, NEW s \in Services
    PROVE  /\ held(s) \in Ports /\ Len(held(s)) = Len(batches[s]) + 1
           /\ Len(batches[s]) \in Nat /\ held(s)[Len(held(s))] = queue[s]
           /\ \A k \in 1..Len(batches[s]) : held(s)[k] = batches[s][k]
  <1>1. batches[s] \in Ports /\ queue[s] \in Seq(Msg)
    BY DEF PortTypes
  <1> QED
    BY <1>1, HeldParts DEF held

\* The caller of a message that a service holds.
LEMMA AliveAt ==
    ASSUME AnswerMeansRun, NEW s \in Services, NEW k \in 1..Len(held(s)),
           NEW i \in 1..Len(held(s)[k]), NEW t, held(s)[k][i].from = t, t \notin unheard
    PROVE  waiting[t] = s /\ asked[t] = held(s)[k][i].id /\ ~replied[t]
  <1>1. \A l \in 1..Len(held(s)) : \A j \in 1..Len(held(s)[l]) :
           held(s)[l][j].from \notin unheard => expects(s, held(s)[l][j])
    BY DEF AnswerMeansRun
  <1>2. expects(s, held(s)[k][i])
    BY <1>1
  <1> QED
    BY <1>2, Zenon DEF expects

\* The answer of a callback goes to its caller, whose message is gone.
LEMMA CallbackReply ==
    ASSUME PortTypes, ReplyTypes, PortShape, AnswerMeansRun, OneAnswer,
           NEW s \in Services, callback(s), NEW t \in Threads, t \notin gaveUp
    PROVE  ReplyEffect(t)
  <1> DEFINE m == Head(now(s))
  <1>1. batches[s] # <<>> /\ now(s) # <<>>
    BY DEF PortShape, callback
  <1>2. /\ m = held(s)[Len(held(s)) - 1][1] /\ m \in Msg /\ Len(batches[s]) > 0
        /\ held(s)[Len(held(s)) - 1] = now(s) /\ now(s) \in Seq(Msg)
        /\ Len(held(s)) = Len(batches[s]) + 1
    BY <1>1, BeginEffect
  <1>3. waiting' = waiting /\ asked' = asked /\ answer(s, m)
    BY DEF callback
  <1> HIDE DEF m
  <1>4. CASE m.from # t
    <2>1. replied'[t] = replied[t]
      BY <1>3, <1>4 DEF answer, ReplyTypes
    <2> QED
      BY <1>3, <2>1 DEF ReplyEffect
  <1>5. CASE m.from = t
    <2>0. t \notin unheard
      BY ServicesAssumption DEF unheard
    <2>1. held(s) \in Ports /\ Len(batches[s]) \in Nat
      BY HeldPort
    <2>2. Len(held(s)) - 1 \in 1..Len(held(s)) /\ Len(now(s)) \in Nat /\ 1 \in 1..Len(now(s))
      BY <1>1, <1>2, <2>1
    <2>3. waiting[t] = s
      <3> DEFINE k == Len(held(s)) - 1
      <3>1. k \in 1..Len(held(s)) /\ 1 \in 1..Len(held(s)[k]) /\ m = held(s)[k][1]
        BY <1>2, <2>2
      <3> HIDE DEF k
      <3> QED
        BY <1>5, <2>0, <3>1, AliveAt
    <2>4. batches'[s] \in Ports /\ queue'[s] \in Seq(Msg)
      BY CallbackEffect DEF PortEffect
    <2>5. held(s)' \in Ports
      BY <2>4, HeldParts DEF held
    <2>6. Advanced(held(s), held(s)')
      <3> DEFINE c == Append(Front(batches[s]), Tail(Last(batches[s])))
      <3>1. batches[s] \in Ports /\ queue[s] \in Seq(Msg)
        BY DEF PortTypes
      <3>2. Advanced(Append(batches[s], queue[s]), Append(c, queue[s]))
        BY <1>1, <1>2, <3>1, AdvancedStep DEF now
      <3>3. batches'[s] = c /\ queue'[s] = queue[s]
        BY DEF PortTypes, callback, ports, now
      <3> HIDE DEF c
      <3> QED
        BY <3>2, <3>3 DEF held
    <2>7. Apart(held(s), unheard)
      BY DEF OneAnswer
    <2>8. Unasked(held(s)', t)
      BY <1>2, <1>5, <2>0, <2>1, <2>5, <2>6, <2>7, AdvancedUnasked
    <2>9. waiting[t] # NoOne
      BY <2>3, ServicesAssumption DEF Threads
    <2> QED
      BY <1>3, <2>3, <2>8, <2>9, Zenon DEF ReplyEffect
  <1> QED
    BY <1>4, <1>5

\* The answer of an outer callback as well.
LEMMA UnnestReply ==
    ASSUME PortTypes, ReplyTypes, PortShape, AnswerMeansRun, OneAnswer,
           NEW s \in Services, unnest(s), NEW t \in Threads, t \notin gaveUp
    PROVE  ReplyEffect(t)
  <1> DEFINE b == batches[s]
             o == Front(b)
             m == Head(Last(o))
             c == Append(Front(o), Tail(Last(o)))
             n == Len(b)
  <1>1. /\ b \in Ports /\ queue[s] \in Seq(Msg) /\ n \in Nat /\ n > 1 /\ Last(b) = <<>>
        /\ held(s) \in Ports /\ Len(held(s)) = n + 1
        /\ \A k \in 1..n : held(s)[k] = b[k]
    BY HeldPort DEF PortTypes, unnest, now
  <1>2. n - 1 \in 1..n /\ b[n - 1] \in Seq(Msg) /\ b[n - 1] # <<>>
    <2>1. n - 1 \in 1..n /\ n - 1 \in 1..(n - 1)
      BY <1>1
    <2>2. b[n - 1] \in Seq(Msg)
      BY <1>1, <2>1, PortElements
    <2>3. \A k \in 1..(Len(batches[s]) - 1) : batches[s][k] # <<>>
      BY DEF PortShape
    <2> QED
      BY <2>1, <2>2, <2>3
  <1>3. /\ c \in Ports /\ Unnested(Append(b, queue[s]), Append(c, queue[s]))
        /\ Last(o) = b[n - 1]
    BY <1>1, <1>2, UnnestedStep
  <1>4. /\ batches'[s] = c /\ queue'[s] = queue[s] /\ waiting' = waiting
        /\ asked' = asked /\ answer(s, m)
    BY DEF PortTypes, unnest, ports
  <1>5. m = b[n - 1][1] /\ m \in Msg /\ 1 \in 1..Len(b[n - 1])
    BY <1>2, <1>3, TailElements
  <1> HIDE DEF b, o, m, c, n
  <1>6. Unnested(held(s), held(s)')
    BY <1>3, <1>4 DEF held, b
  <1>7. held(s)' \in Ports
    BY <1>1, <1>3, <1>4, HeldParts DEF held
  <1>8. n - 1 \in 1..Len(held(s)) /\ held(s)[n - 1] = b[n - 1] /\ Len(held(s)) - 2 = n - 1
    BY <1>1, <1>2
  <1>9. CASE m.from # t
    <2>1. replied'[t] = replied[t]
      BY <1>4, <1>9 DEF answer, ReplyTypes
    <2> QED
      BY <1>4, <2>1 DEF ReplyEffect
  <1>10. CASE m.from = t
    <2>0. t \notin unheard
      BY ServicesAssumption DEF unheard
    <2> DEFINE k == n - 1
    <2>1. k \in 1..Len(held(s)) /\ 1 \in 1..Len(held(s)[k]) /\ m = held(s)[k][1]
      BY <1>5, <1>8
    <2> HIDE DEF k
    <2>2. waiting[t] = s
      BY <1>10, <2>0, <2>1, AliveAt
    <2>3. Apart(held(s), unheard)
      BY DEF OneAnswer
    <2>4. m = held(s)[Len(held(s)) - 2][1]
      BY <1>8, <2>1 DEF k
    <2>5. Unasked(held(s)', t)
      BY <1>1, <1>6, <1>7, <1>10, <2>0, <2>3, <2>4, UnnestedUnasked
    <2>6. waiting[t] # NoOne
      BY <2>2, ServicesAssumption DEF Threads
    <2> QED
      BY <1>4, <2>2, <2>5, <2>6, Zenon DEF ReplyEffect
  <1> QED
    BY <1>9, <1>10

\* Every step is such a step for every thread.
LEMMA NextReply ==
    ASSUME PortTypes, ReplyTypes, PortShape, AnswerMeansRun, OneAnswer,
           [Next]_vars, NEW t \in Threads, t \notin gaveUp'
    PROVE  ReplyEffect(t) /\ t \notin gaveUp
  <1> USE DEF tree
  <1>1. ASSUME NEW u \in Threads, NEW d \in Services, send_and_wait(u, d)
        PROVE  ReplyEffect(t)
    <2>1. /\ waiting[u] = NoOne /\ waiting' = [waiting EXCEPT ![u] = d]
          /\ asked' = [asked EXCEPT ![u] = sent'[d]] /\ replied' = replied
      BY <1>1 DEF send_and_wait, free
    <2>2. d # NoOne
      BY ServicesAssumption DEF Threads
    <2> QED
      BY <2>1, <2>2 DEF ReplyEffect, ReplyTypes
  <1>2. ASSUME NEW u \in Threads, return(u) PROVE ReplyEffect(t)
    BY <1>2 DEF return, hang_up, ReplyEffect, ReplyTypes
  <1>a. ASSUME NEW u \in Threads, return_early(u) PROVE ReplyEffect(t)
    <2>1. u # t
      BY <1>a DEF return_early
    <2> QED
      BY <1>a, <2>1 DEF return_early, hang_up, ReplyEffect, ReplyTypes
  <1>3. ASSUME NEW d \in Services, callback(d) PROVE ReplyEffect(t)
    BY <1>3, CallbackReply DEF callback
  <1>4. ASSUME NEW d \in Services, unnest(d) PROVE ReplyEffect(t)
    BY <1>4, UnnestReply DEF unnest
  <1>5. ASSUME UNCHANGED reply PROVE ReplyEffect(t)
    BY <1>5, StillReply
  <1>6. \/ UNCHANGED reply
        \/ \E u \in Threads : return(u) \/ return_early(u) \/ \E d \in Services : send_and_wait(u, d)
        \/ \E d \in Services : callback(d) \/ unnest(d)
    BY ZenonT(30) DEF Next, run, vars, send, process_for, wake, processed, cleaned, leave, end,
           loop_body, cleanup_children, stop, join, callback_throws, nest, loop_ends,
           add_child_service
  <1>7. t \notin gaveUp
    BY <1>6 DEF return, return_early, callback, unnest, send_and_wait, reply
  <1> QED
    BY <1>1, <1>2, <1>a, <1>3, <1>4, <1>5, <1>6, <1>7

\* A step of a port gets a message or leaves a part of what was there.
LEMMA StepWithin ==
    ASSUME NEW s \in Services, NEW h \in Ports, NEW g \in Ports, Len(h) > 0,
           PortStep(s, h, g)
    PROVE  \/ \E m \in Msg :
                /\ Sent(h, g, m)
                /\ m.from # NoOne => BeginsToWait(s, m)
           \/ \E up, drop : Within(g, h, up, drop)
  <1>1. CASE g = h
    <2> DEFINE up == [k \in 1..Len(h) |-> k]
               drop == [k \in 1..Len(h) |-> 0]
    <2>1. \A k \in 1..Len(h) : up[k] = k /\ drop[k] = 0 /\ k \in Nat
      OBVIOUS
    <2>2. \A k \in 1..Len(h) : Len(h[k]) \in Nat
      BY PortElements
    <2> HIDE DEF up, drop
    <2>3. Within(g, h, up, drop)
      BY <1>1, <2>1, <2>2 DEF Within
    <2> QED
      BY <2>3
  <1>2. CASE Taken(h, g)
    BY <1>2, TakenWithin
  <1>3. CASE Advanced(h, g)
    BY <1>3, AdvancedWithin
  <1>4. CASE Unnested(h, g)
    BY <1>4, UnnestedWithin
  <1>5. CASE Dropped(h, g)
    BY <1>5, DroppedWithin
  <1> QED
    BY <1>1, <1>2, <1>3, <1>4, <1>5, Zenon DEF PortStep

\* A message of a port was there, or its caller has just begun to wait.
LEMMA StepPlaces ==
    ASSUME NEW s \in Services, NEW h \in Ports, NEW g \in Ports, Len(h) > 0,
           PortStep(s, h, g), NEW k \in 1..Len(g), NEW i \in 1..Len(g[k])
    PROVE  \/ \E k2 \in 1..Len(h) : \E i2 \in 1..Len(h[k2]) : g[k][i] = h[k2][i2]
           \/ g[k][i].from # NoOne => BeginsToWait(s, g[k][i])
  <1>1. ASSUME NEW m \in Msg, Sent(h, g, m),
               m.from # NoOne => BeginsToWait(s, m),
               ~(g[k][i].from # NoOne => BeginsToWait(s, g[k][i]))
        PROVE  \E k2 \in 1..Len(h) : \E i2 \in 1..Len(h[k2]) : g[k][i] = h[k2][i2]
    <2>1. g[k][i] = m \/ (k \in 1..Len(h) /\ i \in 1..Len(h[k]) /\ g[k][i] = h[k][i])
      BY <1>1, SentPlaces
    <2>2. g[k][i] # m
      BY <1>1
    <2> QED
      BY <2>1, <2>2
  <1>2. ASSUME NEW up, NEW drop, Within(g, h, up, drop)
        PROVE  \E k2 \in 1..Len(h) : \E i2 \in 1..Len(h[k2]) : g[k][i] = h[k2][i2]
    <2>1. /\ up[k] \in 1..Len(h) /\ i + drop[k] \in 1..Len(h[up[k]])
          /\ g[k][i] = h[up[k]][i + drop[k]]
      BY <1>2 DEF Within
    <2> QED
      BY <2>1, Zenon
  <1> QED
    BY <1>1, <1>2, StepWithin, Zenon

\* No thread has two messages in a port.
LEMMA StepApart ==
    ASSUME NEW s \in Services, NEW h \in Ports, NEW g \in Ports, Len(h) > 0,
           PortStep(s, h, g), NEW out, NoOne \in out, Apart(h, out),
           \A k \in 1..Len(h) : \A i \in 1..Len(h[k]) :
               h[k][i].from \notin out => waiting[h[k][i].from] = s
    PROVE  Apart(g, out)
  <1>1. ASSUME NEW m \in Msg, Sent(h, g, m), m.from # NoOne => BeginsToWait(s, m)
        PROVE  Apart(g, out)
    <2>1. s # NoOne
      BY ServicesAssumption DEF Threads
    <2>2. m.from \notin out =>
              \A k \in 1..Len(h) : \A i \in 1..Len(h[k]) : h[k][i].from # m.from
      BY <1>1, <2>1 DEF BeginsToWait
    <2> QED
      BY <1>1, <2>2, SentApart
  <1>2. ASSUME NEW up, NEW drop, Within(g, h, up, drop) PROVE Apart(g, out)
    BY <1>2, WithinKeeps
  <1> QED
    BY <1>1, <1>2, StepWithin, Zenon

\* Who is heard after a step was heard before it.
LEMMA HeardBefore ==
    ASSUME PortTypes, ReplyTypes, PortShape, AnswerMeansRun, OneAnswer, [Next]_vars
    PROVE  unheard \subseteq unheard'
  <1>1. ASSUME NEW t \in gaveUp PROVE t \in gaveUp'
    BY <1>1, NextReply DEF ReplyTypes
  <1> QED
    BY <1>1 DEF unheard

\* Answers go on to mean that the message was run.
LEMMA ReplyStep ==
    ASSUME PortTypes, ReplyTypes, PortShape, AnswerMeansRun, OneAnswer, [Next]_vars
    PROVE  AnswerMeansRun' /\ OneAnswer'
  <1>1. ASSUME NEW s \in Services
        PROVE  /\ held(s) \in Ports /\ held(s)' \in Ports /\ Len(held(s)) > 0
               /\ PortStep(s, held(s), held(s)')
    <2>1. PortEffect(s)
      BY NextEffect
    <2>2. queue'[s] \in Seq(Msg) /\ batches'[s] \in Ports
      BY <2>1 DEF PortEffect
    <2>3. held(s)' \in Ports
      BY <2>2, HeldParts DEF held
    <2>4. held(s) \in Ports /\ Len(held(s)) > 0
      BY HeldPort
    <2> QED
      BY <2>1, <2>3, <2>4 DEF PortEffect
  <1>2. ASSUME NEW s \in Services PROVE Apart(held(s)', unheard')
    <2>1. NoOne \in unheard /\ unheard \subseteq unheard'
      BY HeardBefore DEF unheard
    <2>2. Apart(held(s), unheard)
      BY DEF OneAnswer
    <2>3. \A k \in 1..Len(held(s)) : \A i \in 1..Len(held(s)[k]) :
              held(s)[k][i].from \notin unheard => waiting[held(s)[k][i].from] = s
      BY DEF AnswerMeansRun, expects
    <2>4. Apart(held(s)', unheard)
      BY <1>1, <2>1, <2>2, <2>3, StepApart
    <2> QED
      BY <2>1, <2>4, Zenon DEF Apart
  <1>3. ASSUME NEW t \in Threads, t \notin gaveUp', waiting'[t] = NoOne PROVE ~replied'[t]
    <2>1. ReplyEffect(t) /\ (waiting[t] = NoOne => ~replied[t])
      BY <1>3, NextReply DEF OneAnswer
    <2>2. NoOne \notin Services
      BY ServicesAssumption DEF Threads
    <2> QED
      BY <1>3, <2>1, <2>2 DEF ReplyEffect
  <1>4. ASSUME NEW s \in Services, NEW k \in 1..Len(held(s)'),
               NEW i \in 1..Len(held(s)'[k]), held(s)'[k][i].from \notin unheard'
        PROVE  expects(s, held(s)[k][i])'
    <2> DEFINE h == held(s)
               g == held(s)'
               t == g[k][i].from
    <2>1. h \in Ports /\ g \in Ports /\ Len(h) > 0 /\ PortStep(s, h, g)
      BY <1>1
    <2>2. NoOne \notin Services
      BY ServicesAssumption DEF Threads
    <2>3. t \in Threads /\ t \notin gaveUp' /\ t # NoOne
      <3>1. g[k] \in Seq(Msg)
        BY <2>1, PortElements
      <3>2. g[k][i] \in Msg
        BY <3>1
      <3> QED
        BY <1>4, <3>2 DEF Msg, unheard
    <2>4. ReplyEffect(t) /\ t \notin unheard /\ (waiting[t] = NoOne => ~replied[t])
      BY <2>3, NextReply DEF OneAnswer, unheard
    <2>5. ~Unasked(g, t)
      BY <1>4 DEF Unasked
    <2>6. \/ \E k2 \in 1..Len(h) : \E i2 \in 1..Len(h[k2]) : g[k][i] = h[k2][i2]
          \/ BeginsToWait(s, g[k][i])
      BY <2>1, <2>3, StepPlaces
    <2>7. ASSUME BeginsToWait(s, g[k][i])
          PROVE  waiting'[t] = s /\ asked'[t] = g[k][i].id /\ ~replied'[t]
      BY <2>2, <2>4, <2>7 DEF ReplyEffect, BeginsToWait
    <2>8. ASSUME NEW k2 \in 1..Len(h), NEW i2 \in 1..Len(h[k2]), g[k][i] = h[k2][i2]
          PROVE  /\ waiting'[t] = s /\ asked'[t] = g[k][i].id /\ ~replied'[t]
      <3>1. waiting[t] = s /\ asked[t] = h[k2][i2].id /\ ~replied[t]
        <4>1. h[k2][i2].from = t
          BY <2>8
        <4>2. expects(s, h[k2][i2])
          BY <2>4, <4>1 DEF AnswerMeansRun
        <4> QED
          BY <4>1, <4>2 DEF expects
      <3>2. waiting'[t] = s /\ asked'[t] = asked[t]
        BY <2>2, <2>4, <3>1 DEF ReplyEffect
      <3>3. replied'[t] => \E r \in Services : waiting[t] = r /\ Unasked(held(r)', t)
        BY <2>4, <3>1 DEF ReplyEffect
      <3>4. ~replied'[t]
        BY <2>5, <3>1, <3>3
      <3> QED
        BY <2>8, <3>1, <3>2, <3>4
    <2> QED
      BY <2>6, <2>7, <2>8 DEF expects
  <1>5. AnswerMeansRun'
    BY <1>4 DEF AnswerMeansRun
  <1> QED
    BY <1>2, <1>3, <1>5 DEF OneAnswer
-----------------------------------------------------------------------------
(* Supervisors                                                              *)

TreeTypes ==
    /\ looping \in [Services -> BOOLEAN]
    /\ pc \in [Services -> {"new", "top", "wait", "run", "clean", "body",
                            "stopping", "ended"}]
    /\ kids \in [Services -> SUBSET Workers] /\ todo \in [Services -> SUBSET Workers]
    /\ joining \in [Services -> Workers \union {NoOne}]
    /\ finished \in [Services -> 0..1]

TreeInv == TreeTypes /\ Tree /\ NoOrphans

\* No worker is its own parent.
LEMMA ParentOther ==
    \A c \in Workers : c \in Services /\ Parent[c] \in Services /\ Parent[c] # c
  BY ServicesAssumption DEF Parent, Services, Workers

\* A service goes on within its loop: its children stay as they are.
LEMMA GoStep ==
    ASSUME TreeInv, NEW s \in Services, NEW step, pc[s] # "new", pc[s] # "ended",
           step \in {"top", "wait", "run", "body"}, go(s, step),
           \/ looping' = looping \/ looping' = [looping EXCEPT ![s] = FALSE],
           UNCHANGED tree
    PROVE  TreeInv'
  <1> USE DEF TreeInv, tree
  <1>1. TreeTypes'
    BY DEF TreeTypes, go
  <1>2. Tree'
    BY DEF Tree, TreeTypes, go, Services
  <1>3. NoOrphans'
    BY ParentOther DEF NoOrphans, TreeTypes, go
  <1> QED
    BY <1>1, <1>2, <1>3

\* Steps that concern messages only.
LEMMA TreeStill ==
    ASSUME TreeInv, UNCHANGED <<looping, pc, tree>>
    PROVE  TreeInv'
  BY DEF TreeInv, TreeTypes, Tree, NoOrphans, tree

\* The children are visited after the messages.
LEMMA ProcessedTree ==
    ASSUME TreeInv, NEW s \in Services, processed(s)
    PROVE  TreeInv'
  <1> USE DEF TreeInv, tree
  <1>1. TreeTypes'
    BY DEF TreeTypes, processed, go
  <1>2. Tree'
    BY DEF Tree, TreeTypes, processed, go
  <1>3. NoOrphans'
    BY ParentOther DEF NoOrphans, TreeTypes, processed, go
  <1> QED
    BY <1>1, <1>2, <1>3

\* A service that leaves its loop begins to stop its children.
LEMMA LeaveTree ==
    ASSUME TreeInv, NEW s \in Services, leave(s)
    PROVE  TreeInv'
  <1> USE DEF TreeInv, tree
  <1>1. TreeTypes'
    BY DEF TreeTypes, leave, go
  <1>2. Tree'
    BY DEF Tree, TreeTypes, leave, go
  <1>3. NoOrphans'
    BY ParentOther DEF NoOrphans, TreeTypes, leave, go
  <1> QED
    BY <1>1, <1>2, <1>3

\* A child is erased after its thread was joined.
LEMMA CleanupTree ==
    ASSUME TreeInv, NEW s \in Services, NEW c \in Workers, cleanup_children(s, c)
    PROVE  TreeInv'
  <1> USE DEF TreeInv
  <1>1. /\ pc[s] = "clean" /\ c \in todo[s] /\ pc' = pc /\ looping' = looping
        /\ joining' = joining /\ todo' = [todo EXCEPT ![s] = @ \ {c}]
    BY DEF cleanup_children, visited
  <1>2. CASE UNCHANGED <<kids, finished>>
    <2>1. TreeTypes'
      BY <1>1, <1>2 DEF TreeTypes
    <2>2. Tree'
      BY <1>1, <1>2 DEF Tree, TreeTypes
    <2>3. NoOrphans'
      BY <1>1, <1>2 DEF NoOrphans
    <2> QED
      BY <2>1, <2>2, <2>3
  <1>3. CASE pc[c] = "ended" /\ erase(s, {c})
    <2>1. c \in kids[s] /\ s = Parent[c] /\ finished[c] = 0
      BY <1>1 DEF Tree
    <2>2. kids' = [kids EXCEPT ![s] = @ \ {c}]
      BY <1>3 DEF erase
    <2>3. \A d \in Services : finished'[d] = finished[d] + IF d = c /\ s # Main THEN 1 ELSE 0
      BY <1>3 DEF erase
    <2>4. finished' \in [Services -> 0..1]
      <3>1. finished' = [d \in Services |-> finished'[d]]
        BY <1>3 DEF erase
      <3>2. \A d \in Services : finished'[d] \in 0..1
        BY <2>1, <2>3 DEF TreeTypes
      <3> QED
        BY <3>1, <3>2
    <2>5. c \in Services /\ \A d \in Services : d # c => finished'[d] = finished[d]
      BY <2>3, ParentOther DEF TreeTypes
    <2>6. TreeTypes'
      BY <1>1, <2>2, <2>4 DEF TreeTypes
    <2>7. Tree'
      <3>1. ASSUME NEW r \in Services, NEW d \in kids'[r]
            PROVE  r = Parent[d] /\ pc'[d] # "new" /\ finished'[d] = 0
        <4>1. d \in kids[r] /\ d \in Services /\ r = Parent[d] /\ pc[d] # "new"
              /\ finished[d] = 0
          BY <2>2, <3>1, ParentOther DEF Tree, TreeTypes
        <4>2. d # c
          BY <2>1, <2>2, <4>1, <3>1 DEF TreeTypes
        <4> QED
          BY <1>1, <2>5, <4>1, <4>2
      <3>2. ASSUME NEW d \in Services, pc'[d] = "new" PROVE finished'[d] = 0
        BY <1>1, <1>3, <2>5, <3>2 DEF Tree
      <3>3. ASSUME NEW r \in Services
            PROVE  /\ pc'[r] \in {"clean", "stopping"} => todo'[r] \subseteq kids'[r]
                   /\ pc'[r] = "stopping" => \A d \in kids'[r] \ todo'[r] : pc'[d] = "ended"
                   /\ pc'[r] = "ended" => kids'[r] = {}
        BY <1>1, <2>2 DEF Tree, TreeTypes
      <3> QED
        BY <3>1, <3>2, <3>3 DEF Tree
    <2>8. NoOrphans'
      <3> SUFFICES ASSUME NEW d \in Workers, pc'[d] # "new", d \notin kids'[Parent[d]]
                   PROVE  pc'[d] = "ended" /\ (Parent[d] # Main => finished'[d] = 1)
        BY DEF NoOrphans
      <3>1. CASE d = c
        BY <1>1, <1>3, <2>1, <2>3, <2>5, <3>1
      <3>2. CASE d # c
        <4>1. d \in Services /\ d \notin kids[Parent[d]]
          BY <2>2, <3>2, ParentOther DEF TreeTypes
        <4> QED
          BY <1>1, <2>5, <3>2, <4>1 DEF NoOrphans
      <3> QED
        BY <3>1, <3>2
    <2> QED
      BY <2>6, <2>7, <2>8
  <1> QED
    BY <1>2, <1>3 DEF cleanup_children

\* A child is told to stop.
LEMMA StopTree ==
    ASSUME TreeInv, NEW s \in Services, NEW c \in Workers, stop(s, c)
    PROVE  TreeInv'
  <1> USE DEF TreeInv
  <1>1. /\ pc' = pc /\ kids' = kids /\ todo' = todo /\ finished' = finished
        /\ joining' = [joining EXCEPT ![s] = c]
        /\ looping' = [looping EXCEPT ![c] = FALSE]
    BY DEF stop
  <1>2. TreeTypes'
    BY <1>1 DEF TreeTypes
  <1>3. Tree' /\ NoOrphans'
    BY <1>1 DEF Tree, NoOrphans
  <1> QED
    BY <1>2, <1>3

\* A child was joined.
LEMMA JoinTree ==
    ASSUME TreeInv, NEW s \in Services, NEW c \in Workers, join(s, c)
    PROVE  TreeInv'
  <1> USE DEF TreeInv
  <1>1. /\ pc' = pc /\ kids' = kids /\ finished' = finished /\ looping' = looping
        /\ joining' = [joining EXCEPT ![s] = NoOne] /\ pc[c] = "ended"
        /\ todo' = [todo EXCEPT ![s] = @ \ {c}]
    BY DEF join, visited
  <1>2. TreeTypes'
    BY <1>1 DEF TreeTypes
  <1>3. Tree'
    BY <1>1 DEF Tree, TreeTypes
  <1>4. NoOrphans'
    BY <1>1 DEF NoOrphans
  <1> QED
    BY <1>2, <1>3, <1>4

\* All children were joined, and the thread ends.
LEMMA EndTree ==
    ASSUME TreeInv, NEW s \in Services, end(s)
    PROVE  TreeInv'
  <1> USE DEF TreeInv
  <1>1. /\ pc[s] = "stopping" /\ todo[s] = {} /\ looping' = looping /\ todo' = todo
        /\ joining' = joining /\ pc' = [pc EXCEPT ![s] = "ended"]
        /\ erase(s, kids[s])
    BY DEF end, go
  <1>2. \A c \in kids[s] : pc[c] = "ended" /\ s = Parent[c] /\ finished[c] = 0
    BY <1>1 DEF Tree
  <1>3. kids' = [kids EXCEPT ![s] = {}]
    BY <1>1 DEF erase
  <1>4. \A d \in Services :
           finished'[d] = finished[d] + IF d \in kids[s] /\ s # Main THEN 1 ELSE 0
    BY <1>1 DEF erase
  <1>5. finished' \in [Services -> 0..1]
    <2>1. finished' = [d \in Services |-> finished'[d]]
      BY <1>1 DEF erase
    <2>2. \A d \in Services : finished'[d] \in 0..1
      BY <1>2, <1>4 DEF TreeTypes
    <2> QED
      BY <2>1, <2>2
  <1>6. \A d \in Services : d \notin kids[s] => finished'[d] = finished[d]
    BY <1>4 DEF TreeTypes
  <1>7. TreeTypes'
    BY <1>1, <1>3, <1>5 DEF TreeTypes
  <1>8. Tree'
    <2>1. ASSUME NEW r \in Services, NEW d \in kids'[r]
          PROVE  r = Parent[d] /\ pc'[d] # "new" /\ finished'[d] = 0
      <3>1. r # s /\ d \in kids[r]
        BY <1>3, <2>1 DEF TreeTypes
      <3>2. d \in Services /\ r = Parent[d] /\ pc[d] # "new" /\ finished[d] = 0
        BY <3>1, ParentOther DEF Tree, TreeTypes
      <3>3. d \notin kids[s]
        BY <1>2, <3>1, <3>2
      <3> QED
        BY <1>1, <1>6, <3>2, <3>3 DEF TreeTypes
    <2>2. ASSUME NEW d \in Services, pc'[d] = "new" PROVE finished'[d] = 0
      <3>1. pc[d] = "new" /\ d \notin kids[s]
        BY <1>1, <1>2, <2>2 DEF TreeTypes
      <3> QED
        BY <1>6, <3>1 DEF Tree
    <2>3. ASSUME NEW r \in Services
          PROVE  /\ pc'[r] \in {"clean", "stopping"} => todo'[r] \subseteq kids'[r]
                 /\ pc'[r] = "stopping" => \A d \in kids'[r] \ todo'[r] : pc'[d] = "ended"
                 /\ pc'[r] = "ended" => kids'[r] = {}
      BY <1>1, <1>3 DEF Tree, TreeTypes, Services
    <2> QED
      BY <2>1, <2>2, <2>3 DEF Tree
  <1>9. NoOrphans'
    <2> SUFFICES ASSUME NEW d \in Workers, pc'[d] # "new", d \notin kids'[Parent[d]]
                 PROVE  pc'[d] = "ended" /\ (Parent[d] # Main => finished'[d] = 1)
      BY DEF NoOrphans
    <2>1. d \in Services
      BY ParentOther
    <2>2. CASE d \in kids[s]
      BY <1>1, <1>2, <1>4, <2>1, <2>2 DEF TreeTypes
    <2>3. CASE d \notin kids[s]
      <3>1. d \notin kids[Parent[d]] /\ pc[d] # "new"
        BY <1>1, <1>3, <2>1, <2>3, ParentOther DEF TreeTypes
      <3> QED
        BY <1>1, <1>6, <2>1, <2>3, <3>1 DEF NoOrphans, TreeTypes
    <2> QED
      BY <2>2, <2>3
  <1> QED
    BY <1>7, <1>8, <1>9

\* A child is started.
LEMMA AddTree ==
    ASSUME TreeInv, NEW s \in Services, NEW c \in Workers, add_child_service(s, c)
    PROVE  TreeInv'
  <1> USE DEF TreeInv
  <1>1. /\ pc[s] = "body" /\ Parent[c] = s /\ pc[c] = "new" /\ looping' = looping
        /\ kids' = [kids EXCEPT ![s] = @ \union {c}]
        /\ pc' = [pc EXCEPT ![c] = "top"]
        /\ todo' = todo /\ joining' = joining /\ finished' = finished
    BY DEF add_child_service
  <1>2. TreeTypes'
    BY <1>1, ParentOther DEF TreeTypes
  <1>3. Tree'
    <2>1. ASSUME NEW r \in Services, NEW d \in kids'[r]
          PROVE  r = Parent[d] /\ pc'[d] # "new" /\ finished'[d] = 0
      BY <1>1, <2>1, ParentOther DEF Tree, TreeTypes
    <2>2. ASSUME NEW d \in Services, pc'[d] = "new" PROVE finished'[d] = 0
      BY <1>1, <2>2, ParentOther DEF Tree, TreeTypes
    <2>3. ASSUME NEW r \in Services
          PROVE  /\ pc'[r] \in {"clean", "stopping"} => todo'[r] \subseteq kids'[r]
                 /\ pc'[r] = "stopping" => \A d \in kids'[r] \ todo'[r] : pc'[d] = "ended"
                 /\ pc'[r] = "ended" => kids'[r] = {}
      BY <1>1, ParentOther DEF Tree, TreeTypes
    <2> QED
      BY <2>1, <2>2, <2>3 DEF Tree
  <1>4. NoOrphans'
    BY <1>1, ParentOther DEF NoOrphans, TreeTypes
  <1> QED
    BY <1>2, <1>3, <1>4

\* Every step keeps what holds of the supervisors.
LEMMA TreeStep ==
    ASSUME TreeInv, [Next]_vars
    PROVE  TreeInv'
  <1> USE DEF tree
  <1>1. ASSUME NEW t \in Threads, NEW d \in Services, send(t, d) \/ send_and_wait(t, d)
        PROVE  TreeInv'
    BY <1>1, TreeStill DEF send, send_and_wait
  <1>2. ASSUME NEW t \in Threads, return(t) \/ return_early(t) PROVE TreeInv'
    BY <1>2, TreeStill DEF return, return_early, hang_up
  <1>3. ASSUME NEW s \in Services, process_for(s) PROVE TreeInv'
    BY <1>3, GoStep DEF process_for, swap
  <1>4. ASSUME NEW s \in Services, wake(s) PROVE TreeInv'
    BY <1>4, GoStep DEF wake, swap
  <1>5. ASSUME NEW s \in Services, callback(s) \/ unnest(s) \/ nest(s) PROVE TreeInv'
    BY <1>5, TreeStill DEF callback, unnest, nest
  <1>6. ASSUME NEW s \in Services, callback_throws(s) PROVE TreeInv'
    BY <1>6, GoStep DEF callback_throws
  <1>7. ASSUME NEW s \in Services, cleaned(s) PROVE TreeInv'
    BY <1>7, GoStep DEF cleaned
  <1>8. ASSUME NEW s \in Services, loop_body(s) PROVE TreeInv'
    BY <1>8, GoStep DEF loop_body
  <1>9. ASSUME NEW s \in Services, loop_ends(s) PROVE TreeInv'
    BY <1>9, GoStep DEF loop_ends
  <1>10. ASSUME UNCHANGED vars PROVE TreeInv'
    BY <1>10, TreeStill DEF vars
  <1> QED
    BY <1>1, <1>2, <1>3, <1>4, <1>5, <1>6, <1>7, <1>8, <1>9, <1>10, ProcessedTree,
       LeaveTree, CleanupTree, StopTree, JoinTree, EndTree, AddTree DEF Next, run
-----------------------------------------------------------------------------
(* The invariant                                                            *)

\* Where a service is in its loop tells whether it has batches.
LEMMA ShapeStep ==
    ASSUME PortTypes, TreeTypes, PortShape, [Next]_vars, NEW s \in Services
    PROVE  pc'[s] = "run" <=> batches'[s] # <<>>
  <1> USE DEF ports, tree, go
  <1>0. /\ pc[s] = "run" <=> batches[s] # <<>>
        /\ batches \in [Services -> Ports] /\ pc \in [Services -> {"new", "top", "wait",
               "run", "clean", "body", "stopping", "ended"}]
    BY DEF PortTypes, TreeTypes, PortShape
  <1>1. ASSUME batches' = batches, pc' = pc PROVE pc'[s] = "run" <=> batches'[s] # <<>>
    BY <1>0, <1>1
  <1>2. ASSUME NEW d \in Services, NEW step, pc[d] # "run", step # "run",
               batches' = batches, pc' = [pc EXCEPT ![d] = step]
        PROVE  pc'[s] = "run" <=> batches'[s] # <<>>
    BY <1>0, <1>2
  <1>3. ASSUME NEW d \in Services, swap(d) PROVE pc'[s] = "run" <=> batches'[s] # <<>>
    BY <1>0, <1>3 DEF swap
  <1>4. ASSUME NEW d \in Services, NEW step, step # "run",
               batches' = [batches EXCEPT ![d] = <<>>], pc' = [pc EXCEPT ![d] = step]
        PROVE  pc'[s] = "run" <=> batches'[s] # <<>>
    BY <1>0, <1>4
  <1>5. ASSUME NEW d \in Services, pc[d] = "run", pc' = pc, NEW b, NEW q,
               batches' = [batches EXCEPT ![d] = Append(b, q)], b \in Ports, q \in Seq(Msg)
        PROVE  pc'[s] = "run" <=> batches'[s] # <<>>
    <2>1. Append(b, q) # <<>>
      <3>1. Len(b) \in Nat /\ Len(Append(b, q)) = Len(b) + 1
        BY <1>5, HeldParts
      <3>2. Len(<<>>) = 0
        OBVIOUS
      <3> QED
        BY <3>1, <3>2
    <2> QED
      BY <1>0, <1>5, <2>1
  <1>6. ASSUME NEW t \in Threads, NEW d \in Services, send(t, d) \/ send_and_wait(t, d)
        PROVE  pc'[s] = "run" <=> batches'[s] # <<>>
    BY <1>1, <1>6 DEF send, send_and_wait
  <1>7. ASSUME NEW t \in Threads, return(t) \/ return_early(t)
        PROVE  pc'[s] = "run" <=> batches'[s] # <<>>
    BY <1>1, <1>7 DEF return, return_early, hang_up
  <1>8. ASSUME NEW d \in Services, process_for(d) \/ wake(d)
        PROVE  pc'[s] = "run" <=> batches'[s] # <<>>
    <2>1. CASE swap(d)
      BY <1>3, <2>1
    <2>2. CASE process_for(d) /\ ~swap(d)
      BY <1>2, <2>2 DEF process_for
    <2> QED
      BY <1>8, <2>1, <2>2 DEF wake
  <1>9. ASSUME NEW d \in Services, callback(d)
        PROVE  pc'[s] = "run" <=> batches'[s] # <<>>
    <2>1. batches[d] \in Ports /\ batches[d] # <<>> /\ now(d) # <<>>
      BY <1>9 DEF PortTypes, PortShape, callback
    <2>2. Len(batches[d]) > 0 /\ now(d) \in Seq(Msg)
      BY <2>1, BeginEffect
    <2>3. Front(batches[d]) \in Ports /\ Tail(now(d)) \in Seq(Msg)
      BY <2>1, <2>2, PortFront, TailElements
    <2> QED
      BY <1>5, <1>9, <2>3 DEF callback
  <1>10. ASSUME NEW d \in Services, nest(d)
         PROVE  pc'[s] = "run" <=> batches'[s] # <<>>
    BY <1>5, <1>10 DEF nest, PortTypes
  <1>11. ASSUME NEW d \in Services, unnest(d)
         PROVE  pc'[s] = "run" <=> batches'[s] # <<>>
    <2> DEFINE b == batches[d]
               o == Front(b)
    <2>1. b \in Ports /\ Len(b) \in Nat /\ Len(b) > 1
      BY <1>11, PortElements DEF PortTypes, unnest
    <2>2. b[Len(b) - 1] # <<>>
      BY <2>1 DEF PortShape
    <2>3. o \in Ports /\ Len(o) = Len(b) - 1 /\ \A k \in 1..(Len(b) - 1) : o[k] = b[k]
      BY <2>1, PortFront
    <2>4. Len(o) > 0 /\ Len(b) - 1 \in 1..(Len(b) - 1)
      BY <2>1, <2>3
    <2>5. Front(o) \in Ports /\ Last(o) = b[Len(b) - 1]
      BY <2>3, <2>4, PortFront
    <2>6. Last(o) \in Seq(Msg) /\ Last(o) # <<>>
      BY <2>1, <2>2, <2>5, PortElements
    <2>7. Tail(Last(o)) \in Seq(Msg)
      BY <2>6, TailElements
    <2>8. pc[d] = "run" /\ pc' = pc
          /\ batches' = [batches EXCEPT ![d] = Append(Front(o), Tail(Last(o)))]
      BY <1>11 DEF unnest
    <2> HIDE DEF b, o
    <2> QED
      BY <1>5, <2>5, <2>7, <2>8
  <1>12. ASSUME NEW d \in Services, processed(d) \/ callback_throws(d)
         PROVE  pc'[s] = "run" <=> batches'[s] # <<>>
    BY <1>4, <1>12 DEF processed, callback_throws
  <1>13. ASSUME NEW d \in Services, cleaned(d) \/ leave(d) \/ end(d) \/ loop_body(d)
                \/ loop_ends(d)
         PROVE  pc'[s] = "run" <=> batches'[s] # <<>>
    BY <1>2, <1>13 DEF cleaned, leave, end, loop_body, loop_ends
  <1>14. ASSUME NEW d \in Services, NEW c \in Workers,
                cleanup_children(d, c) \/ stop(d, c) \/ join(d, c)
         PROVE  pc'[s] = "run" <=> batches'[s] # <<>>
    BY <1>1, <1>14 DEF cleanup_children, stop, join
  <1>15. ASSUME NEW d \in Services, NEW c \in Workers, add_child_service(d, c)
         PROVE  pc'[s] = "run" <=> batches'[s] # <<>>
    BY <1>2, <1>15, ParentOther DEF add_child_service
  <1>16. ASSUME UNCHANGED vars PROVE pc'[s] = "run" <=> batches'[s] # <<>>
    BY <1>1, <1>16 DEF vars
  <1> QED
    BY <1>6, <1>7, <1>8, <1>9, <1>10, <1>11, <1>12, <1>13, <1>14, <1>15, <1>16
       DEF Next, run

\* The inductive invariant: of every port, of the answers and of the supervisors.
Inv ==
    /\ PortTypes /\ ReplyTypes
    /\ \A s \in Services :
          /\ PortOK(s, looping[s], held(s), ran[s], sent[s])
          /\ pc[s] = "run" <=> batches[s] # <<>>
    /\ AnswerMeansRun /\ OneAnswer
    /\ TreeInv

\* The shape of the batches follows from the ports.
LEMMA InvShape == Inv => PortShape
  <1> SUFFICES ASSUME Inv, NEW s \in Services
               PROVE  /\ pc[s] = "run" <=> batches[s] # <<>>
                      /\ s # Main => Len(batches[s]) <= 1
                      /\ \A k \in 1..(Len(batches[s]) - 1) : batches[s][k] # <<>>
    BY DEF PortShape
  <1>1. /\ Len(held(s)) = Len(batches[s]) + 1 /\ Len(batches[s]) \in Nat
        /\ \A k \in 1..Len(batches[s]) : held(s)[k] = batches[s][k]
    BY HeldPort DEF Inv
  <1>2. /\ s # Main => Len(held(s)) <= 2
        /\ \A k \in 1..(Len(held(s)) - 2) : held(s)[k] # <<>>
    BY DEF Inv, PortOK
  <1>3. pc[s] = "run" <=> batches[s] # <<>>
    BY DEF Inv
  <1>4. s # Main => Len(batches[s]) <= 1
    BY <1>1, <1>2
  <1>5. ASSUME NEW k \in 1..(Len(batches[s]) - 1) PROVE batches[s][k] # <<>>
    <2>1. k \in 1..(Len(held(s)) - 2) /\ k \in 1..Len(batches[s])
      BY <1>1
    <2> QED
      BY <1>1, <1>2, <2>1
  <1> QED
    BY <1>3, <1>4, <1>5

\* The invariant holds when the program starts, ...
LEMMA InvInit == Init => Inv
  <1> SUFFICES ASSUME Init PROVE Inv
    OBVIOUS
  <1> USE DEF Init
  <1>1. <<>> \in Seq(Msg) /\ <<>> \in Ports /\ <<>> \in Seq(Nat)
    BY DEF Ports
  <1>2. PortTypes /\ ReplyTypes
    BY <1>1 DEF PortTypes, ReplyTypes
  <1>3. ASSUME NEW s \in Services
        PROVE  /\ PortOK(s, looping[s], held(s), ran[s], sent[s])
               /\ pc[s] = "run" <=> batches[s] # <<>>
               /\ \A k \in 1..Len(held(s)) : 1..Len(held(s)[k]) = {}
    <2>1. /\ batches[s] = <<>> /\ queue[s] = <<>> /\ ran[s] = <<>> /\ sent[s] = 0
          /\ pc[s] # "run"
      OBVIOUS
    <2>2. held(s) = <<<<>>>>
      BY <2>1 DEF held
    <2>3. Len(held(s)) = 1 /\ Len(held(s)[1]) = 0
      BY <2>2
    <2>4. toRun(held(s)) = {}
      BY <2>3 DEF toRun
    <2>5. Range(ran[s]) = {} /\ IsInjective(ran[s]) /\ Len(ran[s]) = 0
      BY <2>1 DEF Range, IsInjective
    <2>6. ordered(held(s))
      BY <2>3 DEF ordered
    <2>7. 1..sent[s] = {}
      BY <2>1
    <2>8. Kept(held(s), ran[s], sent[s])
      BY <2>4, <2>5, <2>6, <2>7 DEF Kept
    <2>9. PortOK(s, looping[s], held(s), ran[s], sent[s])
      BY <2>3, <2>5, <2>8, ServicesAssumption DEF PortOK
    <2>10. \A k \in 1..Len(held(s)) : 1..Len(held(s)[k]) = {}
      BY <2>3
    <2> QED
      BY <2>1, <2>9, <2>10
  <1>4. AnswerMeansRun
    BY <1>3 DEF AnswerMeansRun
  <1>5. OneAnswer
    <2>1. ASSUME NEW s \in Services PROVE Apart(held(s), unheard)
      BY <1>3 DEF Apart
    <2> QED
      BY <2>1 DEF OneAnswer
  <1>6. TreeInv
    <2>1. TreeTypes
      BY ParentOther DEF TreeTypes
    <2>2. Tree
      BY ServicesAssumption DEF Tree, Services
    <2>3. NoOrphans
      BY ServicesAssumption DEF NoOrphans, Parent, Services, Workers
    <2> QED
      BY <2>1, <2>2, <2>3 DEF TreeInv
  <1> QED
    BY <1>2, <1>3, <1>4, <1>5, <1>6 DEF Inv

\* The variables of the ports stay functions on the services.
LEMMA FunctionStep ==
    ASSUME PortTypes, [Next]_vars
    PROVE  /\ queue' = [s \in Services |-> queue'[s]]
           /\ batches' = [s \in Services |-> batches'[s]]
           /\ ran' = [s \in Services |-> ran'[s]]
           /\ sent' = [s \in Services |-> sent'[s]]
           /\ looping' \in [Services -> BOOLEAN]
  <1> USE DEF ports, tree, reply
  <1>1. /\ queue = [s \in Services |-> queue[s]]
        /\ batches = [s \in Services |-> batches[s]]
        /\ ran = [s \in Services |-> ran[s]]
        /\ sent = [s \in Services |-> sent[s]]
        /\ looping \in [Services -> BOOLEAN]
    BY DEF PortTypes
  <1>2. queue' = queue \/ \E d \in Services : \E q : queue' = [queue EXCEPT ![d] = q]
    <2>1. \A d \in Services : \A t : enqueue(d, t) => \E q : queue' = [queue EXCEPT ![d] = q]
      BY DEF enqueue
    <2>2. \A d \in Services : swap(d) => \E q : queue' = [queue EXCEPT ![d] = q]
      BY DEF swap
    <2>3. \A d \in Services : nest(d) => \E q : queue' = [queue EXCEPT ![d] = q]
      BY DEF nest
    <2>4. \A d \in Services, c \in Workers :
             stop(d, c) => c \in Services /\ \E q : queue' = [queue EXCEPT ![c] = q]
      BY DEF stop, Services
    <2>5. ASSUME NEW d \in Services, run(d)
          PROVE  queue' = queue \/ \E e \in Services : \E q : queue' = [queue EXCEPT ![e] = q]
      BY <2>2, <2>4, <2>5 DEF run, process_for, wake, callback, unnest, processed, cleaned,
            leave, end, loop_body, cleanup_children, join
    <2> QED
      BY <2>1, <2>3, <2>5 DEF Next, vars, send, send_and_wait, return, return_early, hang_up, callback_throws,
            loop_ends, add_child_service
  <1>3. batches' = batches \/ \E d \in Services : \E q : batches' = [batches EXCEPT ![d] = q]
    BY ZenonT(30) DEF Next, run, vars, send, send_and_wait, return, return_early, hang_up, process_for, wake,
           swap, callback, unnest, processed, cleaned, leave, end, loop_body, cleanup_children, stop, join,
           callback_throws, nest, loop_ends, add_child_service
  <1>4. ran' = ran \/ \E d \in Services : \E q : ran' = [ran EXCEPT ![d] = q]
    <2>1. \A d \in Services : begin(d) => \E q : ran' = [ran EXCEPT ![d] = q]
      BY DEF begin
    <2> QED
      BY <2>1, ZenonT(30) DEF Next, run, vars, send, send_and_wait, return, return_early, hang_up, process_for,
            wake, callback, unnest, processed, cleaned, leave, end, loop_body, cleanup_children, stop, join,
            callback_throws, nest, loop_ends, add_child_service
  <1>5. sent' = sent \/ \E d \in Services : \E q : sent' = [sent EXCEPT ![d] = q]
    BY ZenonT(30) DEF Next, run, vars, send, send_and_wait, enqueue, return, return_early, hang_up, process_for,
           wake, callback, unnest, processed, cleaned, leave, end, loop_body, cleanup_children, stop, join,
           callback_throws, nest, loop_ends, add_child_service
  <1>6. looping' = looping \/ \E d \in Services : looping' = [looping EXCEPT ![d] = FALSE]
    BY ZenonT(30) DEF Next, run, vars, send, send_and_wait, return, return_early, hang_up, process_for, wake, callback,
           unnest, processed, cleaned, leave, end, loop_body, cleanup_children, stop, join,
           callback_throws, nest, loop_ends, add_child_service, Services
  <1>7. queue' = [s \in Services |-> queue'[s]]
    BY <1>1, <1>2
  <1>8. batches' = [s \in Services |-> batches'[s]]
    BY <1>1, <1>3
  <1>9. ran' = [s \in Services |-> ran'[s]]
    BY <1>1, <1>4
  <1>10. sent' = [s \in Services |-> sent'[s]]
    BY <1>1, <1>5
  <1>11. looping' \in [Services -> BOOLEAN]
    BY <1>1, <1>6
  <1> QED
    BY <1>7, <1>8, <1>9, <1>10, <1>11

\* The variables of send_and_wait() keep their types.
LEMMA ReplyTypeStep ==
    ASSUME PortTypes, PortShape, ReplyTypes, [Next]_vars
    PROVE  ReplyTypes'
  <1>1. ASSUME NEW s \in Services, NEW m \in Msg, answer(s, m)
        PROVE  replied' \in [Threads -> BOOLEAN]
    BY <1>1 DEF answer, Msg, ReplyTypes
  <1>2. ASSUME NEW s \in Services, callback(s) PROVE ReplyTypes'
    <2>1. batches[s] # <<>> /\ now(s) # <<>> /\ waiting' = waiting /\ asked' = asked /\ gaveUp' = gaveUp
      BY <1>2 DEF PortShape, callback
    <2>2. Head(now(s)) \in Msg
      BY <2>1, BeginEffect
    <2> QED
      BY <1>1, <1>2, <2>1, <2>2 DEF callback, ReplyTypes
  <1>3. ASSUME NEW s \in Services, unnest(s) PROVE ReplyTypes'
    <2> DEFINE b == batches[s]
               o == Front(b)
    <2>1. b \in Ports /\ Len(b) \in Nat /\ Len(b) > 1
      BY <1>3, PortElements DEF PortTypes, unnest
    <2>2. Len(b) - 1 \in 1..(Len(b) - 1) /\ Len(b) - 1 \in 1..Len(b)
      BY <2>1
    <2>3. b[Len(b) - 1] # <<>> /\ b[Len(b) - 1] \in Seq(Msg)
      BY <2>1, <2>2, PortElements DEF PortShape
    <2>a. /\ o \in Ports /\ Len(o) = Len(b) - 1
          /\ \A k \in 1..(Len(b) - 1) : o[k] = b[k]
      BY <2>1, PortFront
    <2>4. o \in Ports /\ Len(o) = Len(b) - 1 /\ o[Len(b) - 1] = b[Len(b) - 1]
      BY <2>2, <2>a
    <2>5. Last(o) = b[Len(b) - 1]
      BY <2>1, <2>4, PortFront
    <2>6. Head(Last(o)) \in Msg
      BY <2>3, <2>5, TailElements
    <2>7. answer(s, Head(Last(o))) /\ waiting' = waiting /\ asked' = asked /\ gaveUp' = gaveUp
      BY <1>3 DEF unnest
    <2> HIDE DEF b, o
    <2> QED
      BY <1>1, <2>6, <2>7 DEF ReplyTypes
  <1>4. ASSUME NEW t \in Threads, NEW s \in Services, send_and_wait(t, s) PROVE ReplyTypes'
    BY <1>4 DEF send_and_wait, enqueue, PortTypes, ReplyTypes
  <1>5. ASSUME NEW t \in Threads, return(t) \/ return_early(t) PROVE ReplyTypes'
    <2>1. hang_up(t) /\ gaveUp' \subseteq Threads
      BY <1>5 DEF return, return_early, ReplyTypes
    <2> QED
      BY <2>1 DEF hang_up, ReplyTypes
  <1>6. ASSUME UNCHANGED reply PROVE ReplyTypes'
    BY <1>6 DEF reply, ReplyTypes
  <1>7. \/ UNCHANGED reply
        \/ \E u \in Threads : return(u) \/ return_early(u) \/ \E d \in Services : send_and_wait(u, d)
        \/ \E d \in Services : callback(d) \/ unnest(d)
    BY ZenonT(30) DEF Next, run, vars, send, process_for, wake, processed, cleaned, leave, end,
           loop_body, cleanup_children, stop, join, callback_throws, nest, loop_ends,
           add_child_service
  <1> QED
    BY <1>2, <1>3, <1>4, <1>5, <1>6, <1>7

\* ... and every step keeps it.
LEMMA InvStep == Inv /\ [Next]_vars => Inv'
  <1> SUFFICES ASSUME Inv, [Next]_vars PROVE Inv'
    OBVIOUS
  <1>1. PortShape /\ PortTypes /\ ReplyTypes /\ AnswerMeansRun /\ OneAnswer /\ TreeInv
    BY InvShape DEF Inv
  <1>2. TreeInv' /\ AnswerMeansRun' /\ OneAnswer'
    BY <1>1, TreeStep, ReplyStep
  <1>3. ASSUME NEW s \in Services
        PROVE  /\ PortEffect(s) /\ (looping'[s] => looping[s])
               /\ held(s) \in Ports /\ Len(held(s)) > 0 /\ held(s)' \in Ports
               /\ queue'[s] \in Seq(Msg) /\ batches'[s] \in Ports
    <2>1. PortEffect(s) /\ (looping'[s] => looping[s])
      BY <1>1, NextEffect
    <2>2. queue'[s] \in Seq(Msg) /\ batches'[s] \in Ports
      BY <2>1 DEF PortEffect
    <2>3. held(s)' \in Ports
      BY <2>2, HeldParts DEF held
    <2>4. held(s) \in Ports /\ Len(held(s)) > 0
      BY <1>1, HeldPort
    <2> QED
      BY <2>1, <2>2, <2>3, <2>4
  <1>4. ASSUME NEW s \in Services
        PROVE  PortOK(s, looping'[s], held(s)', ran'[s], sent'[s])
    <2>1. PortOK(s, looping[s], held(s), ran[s], sent[s])
      BY DEF Inv
    <2>2. PortStep(s, held(s), held(s)')
      BY <1>3 DEF PortEffect
    <2> QED
      BY <1>1, <1>3, <2>1, <2>2, KeptStep
  <1>5. ASSUME NEW s \in Services PROVE pc'[s] = "run" <=> batches'[s] # <<>>
    BY <1>1, ShapeStep DEF TreeInv
  <1>6. PortTypes'
    <2>1. ASSUME NEW s \in Services PROVE sent'[s] \in Nat /\ ran'[s] \in Seq(Nat)
      <3>1. PortStep(s, held(s), held(s)')
        BY <1>3 DEF PortEffect
      <3>2. ran[s] \in Seq(Nat) /\ sent[s] \in Nat
        BY <1>1 DEF PortTypes
      <3>3. ASSUME Len(held(s)) > 1, held(s)[Len(held(s)) - 1] # <<>>
            PROVE  beginning(held(s), ran[s]) \in Seq(Nat)
        <4> DEFINE k == Len(held(s)) - 1
        <4>1. k \in 1..Len(held(s))
          BY <1>3, <3>3, PortElements
        <4>2. held(s)[k][1] \in Msg
          BY <1>3, <3>3, <4>1, PortElements, TailElements
        <4>3. held(s)[k][1].id \in Nat
          BY <4>2 DEF Msg
        <4> HIDE DEF k
        <4>4. Append(ran[s], held(s)[k][1].id) \in Seq(Nat)
          BY <3>2, <4>3
        <4> QED
          BY <3>2, <4>4 DEF beginning, k
      <3>4. Advanced(held(s), held(s)') => Len(held(s)) > 1 /\ held(s)[Len(held(s)) - 1] # <<>>
        BY DEF Advanced
      <3> QED
        BY <3>1, <3>2, <3>3, <3>4 DEF PortStep
    <2> QED
      BY <1>1, <1>3, <2>1, FunctionStep DEF PortTypes
  <1>7. ReplyTypes'
    BY <1>1, ReplyTypeStep
  <1> QED
    BY <1>2, <1>4, <1>5, <1>6, <1>7 DEF Inv

\* The invariant implies the types ...
LEMMA InvTypeOK == Inv => TypeOK
  <1> SUFFICES ASSUME Inv PROVE TypeOK
    OBVIOUS
  <1>1. ASSUME NEW s \in Services
        PROVE  /\ Len(batches[s]) <= Depth + 1
               /\ \A k \in 1..Len(held(s)) : \A i \in 1..Len(held(s)[k]) :
                     held(s)[k][i].id <= sent[s]
    <2>1. Len(held(s)) = Len(batches[s]) + 1 /\ Len(batches[s]) \in Nat
      BY HeldPort DEF Inv
    <2>2. /\ Len(held(s)) <= Depth + 2
          /\ \A k \in 1..Len(held(s)) : \A i \in 1..Len(held(s)[k]) :
                held(s)[k][i].id <= sent[s]
      BY DEF Inv, PortOK
    <2> QED
      BY <2>1, <2>2, ServicesAssumption
  <1> QED
    BY <1>1 DEF Inv, TypeOK, PortTypes, ReplyTypes, TreeInv, TreeTypes, Ports

\* ... and the delivery of the messages.
LEMMA InvDelivered == Inv => Delivered
  BY DEF Inv, PortOK, Kept, Delivered
-----------------------------------------------------------------------------
(* Theorems                                                                 *)

\* The inductive invariant holds in every reachable state of isc.
THEOREM Invariance == Spec => []Inv
  BY InvInit, InvStep, PTL DEF Spec

\* Types: every port holds messages with numbers of messages that were sent to it, the
\* main thread nests at most Depth times, and child_finished() is called at most once
\* for a service (isc.cc, cleanup_children()).
THEOREM TypeCorrect == Spec => []TypeOK
  BY Invariance, InvTypeOK, PTL

\* process_for() loses, repeats and, on a service thread, reorders no message of a
\* service that loops, whoever sends meanwhile.
THEOREM MessagesDelivered == Spec => []Delivered
  BY Invariance, InvDelivered, PTL

\* The caller of send_and_wait() is answered when its message has been run to the end,
\* and waits until then, for as long as none of its waits came back early; what
\* happens to the threads whose waits did leaves it alone.
THEOREM AnswersMeanRun == Spec => []AnswerMeansRun
  <1>1. Inv => AnswerMeansRun
    BY DEF Inv
  <1> QED
    BY <1>1, Invariance, PTL

\* cleanup_children() and stop_children() drop a child only when its thread has ended,
\* and tell the parent exactly once.
THEOREM ChildrenKnown == Spec => []NoOrphans
  <1>1. Inv => NoOrphans
    BY DEF Inv, TreeInv
  <1> QED
    BY <1>1, Invariance, PTL

\* No service thread runs after the one that started it has ended: run() stops its
\* children before it returns.
THEOREM ChildrenStopped == Spec => []ChildrenEndFirst
  <1>1. Inv => ChildrenEndFirst
    BY ParentOther DEF Inv, TreeInv, Tree, NoOrphans, ChildrenEndFirst
  <1> QED
    BY <1>1, Invariance, PTL
=============================================================================
