---------------------------- MODULE TailerProofs ----------------------------
(***************************************************************************)
(* Proofs about Tailer, for any set of paths, lengths of files, sizes of   *)
(* offers and buffers, and any number of connections.                      *)
(***************************************************************************)
EXTENDS Tailer, FiniteSetTheorems, SequenceTheorems, TLAPS

\* Files that are only appended to.
Sturdy == Paths \ Fragile

\* Packet i of h is a tail block of p; an offer for p.  Packet i of t is the answer
\* to an offer for p.
TailAt(h, i, p)   == h[i].type = "TAIL" /\ h[i].path = p
OfferAt(h, i, p)  == h[i].type = "OFFER" /\ h[i].path = p
AnswerAt(t, i, p) == t[i].type \in {"NEED", "ACK"} /\ t[i].path = p

EndOf(m) == m.offset + Len(m.bits)

\* A block has what the file has there.
Genuine(m, src) ==
    /\ EndOf(m) <= Len(src)
    /\ \A i \in 1..Len(m.bits) : m.bits[i] = src[m.offset + i]

\* The copy is there and is right up to x.
Agree(src, copy, x) ==
    /\ copy # NoFile /\ x <= Len(copy) /\ x <= Len(src)
    /\ \A i \in 1..x : copy[i] = src[i]

\* There is no tail block of p among the first n packets of h; the last one ends at x.
NoTail(h, n, p) == \A k \in 1..n : ~TailAt(h, k, p)
LastTail(h, n, p, x) ==
    \E j \in 1..n : TailAt(h, j, p) /\ EndOf(h[j]) = x
                    /\ \A k \in (j + 1)..n : ~TailAt(h, k, p)

\* When the first n packets of h have been read, the copy is right up to x.
Reached(h, n, p, src, copy, x) ==
    \/ NoTail(h, n, p) /\ Agree(src, copy, x)
    \/ LastTail(h, n, p, x)

TailsRight(h, p, src, copy) ==
    \A i \in 1..Len(h) : TailAt(h, i, p) =>
        /\ Genuine(h[i], src)
        /\ \/ h[i].offset = 0 /\ NoTail(h, i - 1, p)
           \/ Reached(h, i - 1, p, src, copy, h[i].offset)

OffsetRight(h, p, src, copy, c) ==
    /\ c.offset <= Len(src) /\ c.last <= Len(src)
    /\ IF c.offset >= 0 THEN Reached(h, Len(h), p, src, copy, c.offset)
                        ELSE NoTail(h, Len(h), p)

\* At most one offer for p, or the answer to it, is on its way.
OneOffer(h, t, p) ==
    /\ \A i, j \in 1..Len(h) : OfferAt(h, i, p) /\ OfferAt(h, j, p) => i = j
    /\ \A i, j \in 1..Len(t) : AnswerAt(t, i, p) /\ AnswerAt(t, j, p) => i = j
    /\ \A i \in 1..Len(h), j \in 1..Len(t) : ~(OfferAt(h, i, p) /\ AnswerAt(t, j, p))

StartOf(c) == IF c.offset < 0 THEN 0 ELSE c.offset

OfferRight(h, p, src, c) ==
    \A i \in 1..Len(h) : OfferAt(h, i, p) =>
        /\ c.state = "OFFERED"
        /\ Genuine(h[i], src) /\ h[i].offset = StartOf(c)

AnswerRight(t, p, src, copy, c) ==
    \A i \in 1..Len(t) : AnswerAt(t, i, p) =>
        /\ c.state = "OFFERED"
        /\ t[i].type = "ACK" /\ t[i].len # 0 =>
              Agree(src, copy, t[i].offset + t[i].len)

Silent(h, t, p) ==
    /\ \A i \in 1..Len(h) : ~TailAt(h, i, p) /\ ~OfferAt(h, i, p)
    /\ \A i \in 1..Len(t) : ~AnswerAt(t, i, p)

PathOK(h, t, p, src, copy, c) ==
    IF c = NoPath THEN Silent(h, t, p)
    ELSE /\ TailsRight(h, p, src, copy)
         /\ OffsetRight(h, p, src, copy, c)
         /\ OneOffer(h, t, p)
         /\ OfferRight(h, p, src, c)
         /\ AnswerRight(t, p, src, copy, c)
         /\ c.state \in {"INIT", "OFFERED"} => NoTail(h, Len(h), p)

\* A file that is only appended to gives no errors.
NoError(h, p) == \A i \in 1..Len(h) : h[i].path = p => h[i].type # "ERROR"

PathInv ==
    \A p \in Sturdy :
        /\ remote[p] # NoFile
        /\ NoError(toHost, p)
        /\ up => PathOK(toHost, toTailer, p, remote[p], local[p], cps[p])

\* Paths that are new to the looper while there is a host_tailer were asked for late.
NewLate == ht # "none" => newPaths \subseteq late

\* Of the paths queued for a connected host_tailer the ones that are not late are taken
\* before anything is sent.
Fresh == toTailer = <<>> /\ toHost = <<>> /\ \A p \in Paths : cps[p] = NoPath
OpenFresh == ht = "connected" => htOpen \subseteq late \/ Fresh

\* When the first n packets of h have been read the copy has d blocks, and no tail block
\* behind them cuts it below that.
SyncedAt(h, i, p) == h[i].type = "SYNCED" /\ h[i].path = p
Holds(h, n, p, src, copy, d) ==
    /\ \E x \in Int : x >= d /\ Reached(h, n, p, src, copy, x)
    /\ \A k \in (n + 1)..Len(h) : TailAt(h, k, p) => EndOf(h[k]) >= d
ReportsRight(h, p, src, copy, d) ==
    \A i \in 1..Len(h) : SyncedAt(h, i, p) => Holds(h, i - 1, p, src, copy, d)

\* The tailer is past the first d blocks and compares no more.
Ahead(c, d) == c # NoPath /\ c.offset >= d /\ c.state \in {"TAILING", "SYNCED"}

\* A report of p says that its copy has all that is due, also when the connection is lost
\* while it is on its way; and so it stays once p is finished.
DuePath(p) ==
    /\ due[p] <= Len(remote[p])
    /\ TailsRight(toHost, p, remote[p], local[p])
    /\ ReportsRight(toHost, p, remote[p], local[p], due[p])
    /\ up /\ (\E i \in 1..Len(toHost) : SyncedAt(toHost, i, p)) => Ahead(cps[p], due[p])
DueInv == \A p \in Sturdy : DuePath(p)
Finished(p) ==
    /\ Holds(toHost, 0, p, remote[p], local[p], due[p])
    /\ up => Ahead(cps[p], due[p])

\* A path sent to the host is still desired until it is finished.
OldKept ==
    ~follow => \A p \in oldPaths \ (Fragile \union late) :
        /\ ht = "connected" => p \in htOpen \union desired \/ Finished(p)
        /\ ht = "synced" => Finished(p)

HostInv == NewLate /\ OpenFresh /\ (~follow => syncedSet = {}) /\ OldKept

\* Only paths that were sent to the host are talked about, and only while it is connected.
NoneFor(q, p) == \A i \in 1..Len(q) : q[i].path # p
Unknown(p) ==
    p \notin htOpen /\ cps[p] = NoPath /\ NoneFor(toHost, p) /\ NoneFor(toTailer, p)
TalkInv ==
    /\ ht # "connected" => Fresh
    /\ ht = "none" => htOpen = {}
    /\ \A p \in Paths : p \notin oldPaths => Unknown(p)

\* A path that was reported is not asked for again.
AskedOnce ==
    /\ newPaths \union oldPaths \subseteq asked
    /\ ~follow => told \subseteq asked /\ told \intersect (newPaths \union oldPaths) = {}

\* A path is reported when it is copied, or when the host was given up.
GivenUp ==
    /\ hostStub /\ ht = "none" /\ newPaths \union oldPaths = {}
    /\ conns > 0 /\ "late_add" \notin Env
ToldInv ==
    ~follow => \A p \in told \ (Fragile \union late) :
                   Agree(remote[p], local[p], due[p]) \/ GivenUp

IInv == TypeOK /\ PathInv
-----------------------------------------------------------------------------
(* Files and packets.                                                      *)

\* What a bounded file is.
LEMMA ContentsSeq ==
    \A s : s \in Contents(MaxLen) <=> s \in Seq(Blocks) /\ Len(s) <= MaxLen
  <1>1. MaxLen \in Nat
    BY TailerAssumption
  <1>2. ASSUME NEW s \in Contents(MaxLen) PROVE s \in Seq(Blocks) /\ Len(s) <= MaxLen
    <2>1. PICK k \in 0..MaxLen : s \in [1..k -> Blocks]
      BY DEF Contents
    <2>2. k \in Nat /\ k <= MaxLen
      BY <1>1
    <2> QED BY <2>1, <2>2
  <1>3. ASSUME NEW s \in Seq(Blocks), Len(s) <= MaxLen PROVE s \in Contents(MaxLen)
    <2>1. Len(s) \in 0..MaxLen /\ s \in [1..Len(s) -> Blocks]
      BY <1>1, <1>3
    <2> QED BY <2>1 DEF Contents
  <1> QED BY <1>2, <1>3

\* What a local copy is.
LEMMA CopiesSeq ==
    \A s : s \in Copies <=> s \in Seq(Blocks \union {Hole}) /\ Len(s) <= MaxLen
  <1>1. MaxLen \in Nat
    BY TailerAssumption
  <1> DEFINE B == Blocks \union {Hole}
  <1>2. Copies = UNION {[1..k -> B] : k \in 0..MaxLen}
    BY DEF Copies
  <1> HIDE DEF B
  <1>3. ASSUME NEW s \in Copies PROVE s \in Seq(B) /\ Len(s) <= MaxLen
    <2>1. PICK k \in 0..MaxLen : s \in [1..k -> B]
      BY <1>2
    <2>2. k \in Nat /\ k <= MaxLen
      BY <1>1
    <2> QED BY <2>1, <2>2
  <1>4. ASSUME NEW s \in Seq(B), Len(s) <= MaxLen PROVE s \in Copies
    <2>1. Len(s) \in 0..MaxLen /\ s \in [1..Len(s) -> B]
      BY <1>1, <1>4
    <2> QED BY <1>2, <2>1
  <1> QED BY <1>3, <1>4 DEF B

\* A copy, if it is there, is a sequence, and NoFile is not one.
LEMMA CopyType ==
    /\ \A s \in Copies : s \in Seq(Blocks \union {Hole}) /\ s # NoFile /\ Len(s) \in Nat
    /\ \A s \in Contents(MaxLen) : s \in Seq(Blocks) /\ s # NoFile /\ Len(s) \in Nat
  <1>1. NoFile \notin Seq(Blocks \union {Hole})
    BY TailerAssumption
  <1>2. \A s \in Seq(Blocks) : s \in Seq(Blocks \union {Hole})
    OBVIOUS
  <1>3. /\ \A s \in Seq(Blocks \union {Hole}) : Len(s) \in Nat
        /\ \A s \in Seq(Blocks) : Len(s) \in Nat
    OBVIOUS
  <1> QED BY <1>1, <1>2, <1>3, ContentsSeq, CopiesSeq

\* The fields of a block.
LEMMA BlockType ==
    ASSUME NEW m \in ToHost
    PROVE  /\ m.path \in Paths
           /\ m.type \in {"OFFER", "TAIL", "SYNCED", "ERROR"}
           /\ m.type \in {"OFFER", "TAIL"} =>
                 /\ m.offset \in Nat /\ m.bits \in Seq(Blocks) /\ Len(m.bits) \in Nat
                 /\ EndOf(m) \in Nat /\ EndOf(m) <= MaxLen
  <1>1. MaxLen \in Nat
    BY TailerAssumption
  <1>2. CASE m \in [type : {"SYNCED", "ERROR"}, path : Paths]
    BY <1>2
  <1>3. CASE m \in {b \in [type : {"OFFER", "TAIL"}, path : Paths, offset : 0..MaxLen,
                           bits : Contents(MaxLen)] : b.offset + Len(b.bits) <= MaxLen}
    <2>1. /\ m.type \in {"OFFER", "TAIL"} /\ m.path \in Paths /\ m.offset \in 0..MaxLen
          /\ m.bits \in Contents(MaxLen) /\ m.offset + Len(m.bits) <= MaxLen
      BY <1>3
    <2>2. m.bits \in Seq(Blocks) /\ Len(m.bits) \in Nat
      BY <2>1, CopyType
    <2> QED BY <1>1, <2>1, <2>2 DEF EndOf
  <1> QED BY <1>2, <1>3 DEF ToHost

\* The fields of an answer.
LEMMA AnswerType ==
    ASSUME NEW m \in ToTailer
    PROVE  /\ m.path \in Paths
           /\ m.type \in {"OPEN", "NEED", "ACK"}
           /\ m.type = "ACK" =>
                 /\ m.offset \in Nat /\ m.len \in Nat /\ m.size \in 0..MaxLen
                 /\ m.offset + m.len \in 0..MaxLen
  <1>1. MaxLen \in Nat
    BY TailerAssumption
  <1>2. CASE m \in [type : {"OPEN", "NEED"}, path : Paths]
    BY <1>2
  <1>3. CASE m \in {a \in [type : {"ACK"}, path : Paths, offset : 0..MaxLen,
                           len : 0..MaxLen, size : 0..MaxLen] : a.offset + a.len <= a.size}
    <2>1. /\ m.type = "ACK" /\ m.path \in Paths /\ m.offset \in 0..MaxLen
          /\ m.len \in 0..MaxLen /\ m.size \in 0..MaxLen /\ m.offset + m.len <= m.size
      BY <1>3
    <2> QED BY <1>1, <2>1
  <1> QED BY <1>2, <1>3 DEF ToTailer

\* What is left of a pipe when its first packet is taken.
LEMMA TailFacts ==
    ASSUME NEW S, NEW q \in Seq(S), q # <<>>
    PROVE  /\ Tail(q) \in Seq(S) /\ Len(Tail(q)) = Len(q) - 1 /\ Head(q) = q[1]
           /\ Len(q) \in Nat \ {0} /\ q[1] \in S
           /\ \A i \in 1..(Len(q) - 1) : i + 1 \in 1..Len(q) /\ Tail(q)[i] = q[i + 1]
           /\ \A i \in 2..Len(q) : i - 1 \in 1..(Len(q) - 1) /\ Tail(q)[i - 1] = q[i]
  OBVIOUS
-----------------------------------------------------------------------------
(* The host reads a packet.                                                *)

\* Reading the first packet brings the copy to where that packet ends, so that what
\* the first n packets reach is reached by the n - 1 that are left.
LEMMA DropHead ==
    ASSUME NEW h \in Seq(ToHost), h # <<>>, NEW p, NEW src, NEW copy, NEW copy2,
           TailAt(h, 1, p) => Agree(src, copy2, EndOf(h[1])),
           ~TailAt(h, 1, p) => copy2 = copy,
           NEW n \in 1..Len(h)
    PROVE  /\ NoTail(h, n, p) => NoTail(Tail(h), n - 1, p)
           /\ \A x : Reached(h, n, p, src, copy, x) =>
                        Reached(Tail(h), n - 1, p, src, copy2, x)
  <1> DEFINE g == Tail(h)
  <1>1. /\ Len(g) = Len(h) - 1 /\ Len(h) \in Nat \ {0}
        /\ \A i \in 1..(Len(h) - 1) : i + 1 \in 1..Len(h) /\ g[i] = h[i + 1]
        /\ \A i \in 2..Len(h) : i - 1 \in 1..(Len(h) - 1) /\ g[i - 1] = h[i]
    BY TailFacts
  <1> HIDE DEF g
  <1>2. \A i \in 1..(n - 1) : i + 1 \in 1..n /\ (TailAt(g, i, p) <=> TailAt(h, i + 1, p))
    BY <1>1 DEF TailAt
  <1>3. NoTail(h, n, p) => NoTail(g, n - 1, p)
    BY <1>2 DEF NoTail
  <1>4. ASSUME NEW x, Reached(h, n, p, src, copy, x)
        PROVE  Reached(g, n - 1, p, src, copy2, x)
    <2>1. CASE NoTail(h, n, p) /\ Agree(src, copy, x)
      <3>1. ~TailAt(h, 1, p)
        BY <1>1, <2>1 DEF NoTail
      <3> QED BY <1>3, <2>1, <3>1 DEF Reached
    <2>2. CASE LastTail(h, n, p, x)
      <3>1. PICK j \in 1..n : TailAt(h, j, p) /\ EndOf(h[j]) = x
                              /\ \A k \in (j + 1)..n : ~TailAt(h, k, p)
        BY <2>2 DEF LastTail
      <3>2. CASE j = 1
        <4>1. NoTail(g, n - 1, p)
          <5> SUFFICES ASSUME NEW k \in 1..(n - 1) PROVE ~TailAt(g, k, p)
            BY DEF NoTail
          <5>1. k + 1 \in 2..n
            BY <1>1
          <5> QED BY <1>2, <3>1, <3>2, <5>1
        <4> QED BY <3>1, <3>2, <4>1 DEF Reached
      <3>3. CASE j # 1
        <4>1. j - 1 \in 1..(n - 1) /\ j \in 2..Len(h)
          BY <1>1, <3>3
        <4>2. TailAt(g, j - 1, p) /\ EndOf(g[j - 1]) = x
          BY <1>1, <3>1, <4>1 DEF TailAt
        <4>3. \A k \in (j - 1 + 1)..(n - 1) : ~TailAt(g, k, p)
          <5> SUFFICES ASSUME NEW k \in (j - 1 + 1)..(n - 1) PROVE ~TailAt(g, k, p)
            OBVIOUS
          <5>1. k \in 1..(n - 1) /\ k + 1 \in (j + 1)..n
            BY <1>1, <4>1
          <5> QED BY <1>2, <3>1, <5>1
        <4> QED BY <4>1, <4>2, <4>3 DEF Reached, LastTail
      <3> QED BY <3>2, <3>3
    <2> QED BY <1>4, <2>1, <2>2 DEF Reached
  <1> QED BY <1>3, <1>4 DEF g

\* The tail blocks that are left continue the copy.
LEMMA TailsRead ==
    ASSUME NEW h \in Seq(ToHost), h # <<>>, NEW p, NEW src, NEW copy, NEW copy2,
           TailAt(h, 1, p) => Agree(src, copy2, EndOf(h[1])),
           ~TailAt(h, 1, p) => copy2 = copy,
           TailsRight(h, p, src, copy)
    PROVE  TailsRight(Tail(h), p, src, copy2)
  <1> DEFINE g == Tail(h)
  <1>1. /\ Len(g) = Len(h) - 1 /\ Len(h) \in Nat \ {0}
        /\ \A i \in 1..(Len(h) - 1) : i + 1 \in 1..Len(h) /\ g[i] = h[i + 1]
    BY TailFacts
  <1>2. \A n \in 1..Len(h) :
           /\ NoTail(h, n, p) => NoTail(g, n - 1, p)
           /\ \A x : Reached(h, n, p, src, copy, x) => Reached(g, n - 1, p, src, copy2, x)
    BY DropHead
  <1> HIDE DEF g
  <1> SUFFICES ASSUME NEW i \in 1..Len(g), TailAt(g, i, p)
               PROVE  /\ Genuine(g[i], src)
                      /\ \/ g[i].offset = 0 /\ NoTail(g, i - 1, p)
                         \/ Reached(g, i - 1, p, src, copy2, g[i].offset)
    BY DEF TailsRight, g
  <1>3. /\ i + 1 \in 1..Len(h) /\ i \in 1..Len(h) /\ i + 1 - 1 = i
        /\ TailAt(h, i + 1, p) /\ g[i] = h[i + 1]
    BY <1>1 DEF TailAt
  <1>4. /\ Genuine(h[i + 1], src)
        /\ \/ h[i + 1].offset = 0 /\ NoTail(h, i, p)
           \/ Reached(h, i, p, src, copy, h[i + 1].offset)
    BY <1>3 DEF TailsRight
  <1> QED BY <1>2, <1>3, <1>4

\* A packet that is no offer for p leaves the path in order, if a tail block of p has
\* been written.
LEMMA TakePacket ==
    ASSUME NEW h \in Seq(ToHost), h # <<>>, NEW t \in Seq(ToTailer), NEW p, NEW src,
           NEW copy, NEW copy2, NEW c,
           TailAt(h, 1, p) => Agree(src, copy2, EndOf(h[1])),
           ~TailAt(h, 1, p) => copy2 = copy,
           ~OfferAt(h, 1, p),
           PathOK(h, t, p, src, copy, c)
    PROVE  PathOK(Tail(h), t, p, src, copy2, c)
  <1> DEFINE g == Tail(h)
  <1>1. /\ Len(g) = Len(h) - 1 /\ Len(h) \in Nat \ {0}
        /\ \A i \in 1..(Len(h) - 1) : i + 1 \in 1..Len(h) /\ g[i] = h[i + 1]
    BY TailFacts
  <1>2. \A n \in 1..Len(h) :
           /\ NoTail(h, n, p) => NoTail(g, n - 1, p)
           /\ \A x : Reached(h, n, p, src, copy, x) => Reached(g, n - 1, p, src, copy2, x)
    BY DropHead
  <1> HIDE DEF g
  <1>3. \A i \in 1..Len(g) : /\ i + 1 \in 1..Len(h) /\ g[i] = h[i + 1]
                             /\ TailAt(g, i, p) <=> TailAt(h, i + 1, p)
                             /\ OfferAt(g, i, p) <=> OfferAt(h, i + 1, p)
    BY <1>1 DEF TailAt, OfferAt
  <1>4. CASE c = NoPath
    <2>1. Silent(h, t, p)
      BY <1>4 DEF PathOK
    <2>2. Silent(g, t, p)
      BY <1>3, <2>1 DEF Silent
    <2> QED BY <1>4, <2>2 DEF PathOK, g
  <1>5. CASE c # NoPath
    <2>1. /\ TailsRight(h, p, src, copy) /\ OffsetRight(h, p, src, copy, c)
          /\ OneOffer(h, t, p) /\ OfferRight(h, p, src, c)
          /\ AnswerRight(t, p, src, copy, c)
          /\ c.state \in {"INIT", "OFFERED"} => NoTail(h, Len(h), p)
      BY <1>5 DEF PathOK
    <2>2. TailsRight(g, p, src, copy2)
      BY <2>1, TailsRead DEF g
    <2>3. OffsetRight(g, p, src, copy2, c)
      <3>1. Len(h) \in 1..Len(h)
        BY <1>1
      <3> QED BY <1>1, <1>2, <2>1, <3>1 DEF OffsetRight
    <2>4. OneOffer(g, t, p)
      <3>1. \A i, j \in 1..Len(g) : OfferAt(g, i, p) /\ OfferAt(g, j, p) => i = j
        <4> SUFFICES ASSUME NEW i \in 1..Len(g), NEW j \in 1..Len(g),
                            OfferAt(g, i, p), OfferAt(g, j, p)
                     PROVE  i = j
          OBVIOUS
        <4>1. i + 1 = j + 1
          BY <1>3, <2>1 DEF OneOffer
        <4> QED BY <1>1, <4>1
      <3> QED BY <1>3, <2>1, <3>1 DEF OneOffer
    <2>5. OfferRight(g, p, src, c)
      BY <1>3, <2>1 DEF OfferRight
    <2>6. c.state \in {"INIT", "OFFERED"} => NoTail(g, Len(g), p)
      <3>1. Len(h) \in 1..Len(h)
        BY <1>1
      <3> QED BY <1>1, <1>2, <2>1, <3>1
    <2>7. AnswerRight(t, p, src, copy2, c)
      <3>1. CASE TailAt(h, 1, p)
        <4>1. c.state # "OFFERED"
          BY <1>1, <2>1, <3>1 DEF NoTail
        <4> QED BY <2>1, <4>1 DEF AnswerRight
      <3>2. CASE ~TailAt(h, 1, p)
        BY <2>1, <3>2
      <3> QED BY <3>1, <3>2
    <2> QED BY <1>5, <2>2, <2>3, <2>4, <2>5, <2>6, <2>7 DEF PathOK, g
  <1> QED BY <1>4, <1>5

\* What does not answer an offer for p does not disturb it.
LEMMA OtherPackets ==
    ASSUME NEW h, NEW t, NEW t2, NEW p, NEW src, NEW copy, NEW c,
           \A i \in 1..Len(t2) : AnswerAt(t2, i, p) => i \in 1..Len(t) /\ t2[i] = t[i],
           PathOK(h, t, p, src, copy, c)
    PROVE  PathOK(h, t2, p, src, copy, c)
  <1>1. \A i \in 1..Len(t2) : AnswerAt(t2, i, p) =>
           i \in 1..Len(t) /\ AnswerAt(t, i, p) /\ t2[i] = t[i]
    BY DEF AnswerAt
  <1>2. CASE c = NoPath
    BY <1>1, <1>2 DEF PathOK, Silent
  <1>3. CASE c # NoPath
    <2>1. OneOffer(h, t, p) /\ AnswerRight(t, p, src, copy, c)
      BY <1>3 DEF PathOK
    <2>2. OneOffer(h, t2, p)
      BY <1>1, <2>1 DEF OneOffer
    <2>3. AnswerRight(t2, p, src, copy, c)
      BY <1>1, <2>1 DEF AnswerRight
    <2> QED BY <1>3, <2>2, <2>3 DEF PathOK
  <1> QED BY <1>2, <1>3

\* The offer for p is taken and answered: only what is the same is acknowledged.
LEMMA TakeOffer ==
    ASSUME NEW h \in Seq(ToHost), h # <<>>, NEW t \in Seq(ToTailer), NEW p, NEW src,
           NEW copy, NEW c, NEW a \in ToTailer,
           OfferAt(h, 1, p), a.path = p,
           a.type = "ACK" => Agree(src, copy, a.offset + a.len),
           PathOK(h, t, p, src, copy, c)
    PROVE  /\ PathOK(Tail(h), t, p, src, copy, c)
           /\ PathOK(Tail(h), Append(t, a), p, src, copy, c)
  <1> DEFINE g == Tail(h)
             t2 == Append(t, a)
  <1>1. /\ Len(g) = Len(h) - 1 /\ Len(h) \in Nat \ {0}
        /\ \A i \in 1..(Len(h) - 1) : i + 1 \in 1..Len(h) /\ g[i] = h[i + 1]
    BY TailFacts
  <1>2. Len(t) \in Nat /\ Len(t2) = Len(t) + 1 /\ t2[Len(t) + 1] = a
        /\ \A i \in 1..Len(t) : t2[i] = t[i]
    OBVIOUS
  <1>3. ~TailAt(h, 1, p)
    BY DEF OfferAt, TailAt
  <1>4. \A n \in 1..Len(h) :
           /\ NoTail(h, n, p) => NoTail(g, n - 1, p)
           /\ \A x : Reached(h, n, p, src, copy, x) => Reached(g, n - 1, p, src, copy, x)
    BY <1>3, DropHead
  <1> HIDE DEF g, t2
  <1>5. \A i \in 1..Len(g) : /\ i + 1 \in 1..Len(h) /\ g[i] = h[i + 1] /\ i + 1 # 1
                             /\ TailAt(g, i, p) <=> TailAt(h, i + 1, p)
                             /\ OfferAt(g, i, p) <=> OfferAt(h, i + 1, p)
    BY <1>1 DEF TailAt, OfferAt
  <1>6. 1 \in 1..Len(h) /\ Len(h) \in 1..Len(h)
    BY <1>1
  <1>7. c # NoPath
    BY <1>6 DEF PathOK, Silent
  <1>8. /\ TailsRight(h, p, src, copy) /\ OffsetRight(h, p, src, copy, c)
        /\ OneOffer(h, t, p) /\ OfferRight(h, p, src, c)
        /\ AnswerRight(t, p, src, copy, c)
        /\ c.state \in {"INIT", "OFFERED"} => NoTail(h, Len(h), p)
    BY <1>7 DEF PathOK
  <1>9. c.state = "OFFERED" /\ \A i \in 1..Len(t) : ~AnswerAt(t, i, p)
    BY <1>6, <1>8 DEF OfferRight, OneOffer
  <1>10. \A i \in 1..Len(g) : ~OfferAt(g, i, p)
    BY <1>5, <1>6, <1>8 DEF OneOffer
  <1>11. NoTail(g, Len(g), p)
    BY <1>1, <1>4, <1>6, <1>8, <1>9
  <1>12. TailsRight(g, p, src, copy)
    BY <1>11 DEF TailsRight, NoTail
  <1>13. OffsetRight(g, p, src, copy, c)
    BY <1>1, <1>4, <1>6, <1>8 DEF OffsetRight
  <1>14. OneOffer(g, t, p)
    BY <1>9, <1>10 DEF OneOffer
  <1>15. OfferRight(g, p, src, c)
    BY <1>10 DEF OfferRight
  <1>16. PathOK(g, t, p, src, copy, c)
    BY <1>7, <1>8, <1>11, <1>12, <1>13, <1>14, <1>15 DEF PathOK
  <1>17. \A i \in 1..Len(t2) : AnswerAt(t2, i, p) => i = Len(t) + 1 /\ t2[i] = a
    <2> SUFFICES ASSUME NEW i \in 1..Len(t2), AnswerAt(t2, i, p)
                 PROVE  i = Len(t) + 1 /\ t2[i] = a
      OBVIOUS
    <2>1. i \in 1..Len(t) => AnswerAt(t, i, p)
      BY <1>2 DEF AnswerAt
    <2>2. i = Len(t) + 1
      BY <1>2, <1>9, <2>1
    <2> QED BY <1>2, <2>2
  <1>18. OneOffer(g, t2, p)
    BY <1>10, <1>17 DEF OneOffer
  <1>19. AnswerRight(t2, p, src, copy, c)
    BY <1>9, <1>17 DEF AnswerRight
  <1>20. PathOK(g, t2, p, src, copy, c)
    BY <1>7, <1>8, <1>11, <1>12, <1>13, <1>15, <1>18, <1>19 DEF PathOK
  <1> QED BY <1>16, <1>20 DEF g, t2

\* A range that is the same as the offer extends the part of the copy that is right.
LEMMA AnswerAgrees ==
    ASSUME NEW m \in ToHost, m.type = "OFFER", NEW src \in Contents(MaxLen),
           Genuine(m, src), local[m.path] \in Copies \union {NoFile},
           m.offset # 0 => Agree(src, local[m.path], m.offset)
    PROVE  LET a == answer(m) IN
           /\ a \in ToTailer /\ a.path = m.path /\ a.type \in {"NEED", "ACK"}
           /\ a.type = "ACK" => Agree(src, local[m.path], a.offset + a.len)
  <1>1. MaxLen \in Nat
    BY TailerAssumption
  <1>2. /\ m.path \in Paths /\ m.offset \in Nat /\ m.bits \in Seq(Blocks)
        /\ Len(m.bits) \in Nat /\ m.offset + Len(m.bits) \in Nat
        /\ m.offset + Len(m.bits) <= MaxLen
    BY BlockType DEF EndOf
  <1> DEFINE p == m.path
             end == m.offset + Len(m.bits)
             same == /\ end <= Len(local[p])
                     /\ SubSeq(local[p], m.offset + 1, end) = m.bits
             need == [type |-> "NEED", path |-> p]
             ack == [type |-> "ACK", path |-> p, offset |-> m.offset,
                     len |-> Len(m.bits), size |-> Len(local[p])]
  <1>3. answer(m) = IF local[p] = NoFile \/ Len(local[p]) = m.offset \/ ~same
                    THEN need ELSE ack
    BY DEF answer
  <1>4. need \in ToTailer /\ need.path = p /\ need.type = "NEED"
    BY <1>2 DEF ToTailer
  <1>5. CASE local[p] = NoFile \/ Len(local[p]) = m.offset \/ ~same
    <2> HIDE DEF need, ack, same
    <2> QED BY <1>3, <1>4, <1>5
  <1>6. CASE ~(local[p] = NoFile \/ Len(local[p]) = m.offset \/ ~same)
    <2>1. local[p] \in Seq(Blocks \union {Hole}) /\ Len(local[p]) \in Nat
          /\ Len(local[p]) <= MaxLen
      BY <1>6, CopyType, CopiesSeq
    <2>2. end <= Len(local[p]) /\ SubSeq(local[p], m.offset + 1, end) = m.bits
      BY <1>6
    <2>3. ack \in ToTailer
      <3>1. /\ m.offset \in 0..MaxLen /\ Len(m.bits) \in 0..MaxLen
            /\ Len(local[p]) \in 0..MaxLen
        BY <1>1, <1>2, <2>1
      <3>2. ack \in [type : {"ACK"}, path : Paths, offset : 0..MaxLen, len : 0..MaxLen,
                     size : 0..MaxLen]
        BY <1>2, <3>1
      <3>3. ack.offset + ack.len <= ack.size
        BY <2>2
      <3> HIDE DEF ack
      <3> QED BY <3>2, <3>3 DEF ToTailer
    <2>4. Agree(src, local[p], end)
      <3>1. src \in Seq(Blocks) /\ Len(src) \in Nat /\ end <= Len(src)
        BY CopyType DEF Genuine, EndOf
      <3>2. \A i \in 1..m.offset : local[p][i] = src[i]
        BY <1>2 DEF Agree
      <3>3. \A i \in 1..Len(m.bits) : m.bits[i] = src[m.offset + i]
        BY DEF Genuine
      <3>4. \A i \in 1..Len(m.bits) : m.bits[i] = local[p][m.offset + i]
        <4> DEFINE L == local[p]
                   B == Blocks \union {Hole}
        <4>1. L \in Seq(B) /\ end <= Len(L)
          BY <2>1, <2>2
        <4>2. SubSeq(L, m.offset + 1, end) = m.bits
          BY <2>2
        <4> HIDE DEF L, B
        <4>3. \A i \in 1..Len(m.bits) : SubSeq(L, m.offset + 1, end)[i] = L[m.offset + 1 + i - 1]
          BY <1>2, <4>1, SMTT(30)
        <4>4. \A i \in 1..Len(m.bits) : m.offset + 1 + i - 1 = m.offset + i
          BY <1>2
        <4>5. \A i \in 1..Len(m.bits) : m.bits[i] = L[m.offset + i]
          BY <4>2, <4>3, <4>4
        <4> QED BY <4>5 DEF L
      <3>5. \A i \in 1..end : local[p][i] = src[i]
        <4> SUFFICES ASSUME NEW i \in 1..end PROVE local[p][i] = src[i]
          OBVIOUS
        <4>1. CASE i \in 1..m.offset
          BY <3>2, <4>1
        <4>2. CASE i \notin 1..m.offset
          <5>1. i - m.offset \in 1..Len(m.bits) /\ m.offset + (i - m.offset) = i
            BY <1>2, <4>2
          <5> QED BY <3>3, <3>4, <5>1
        <4> QED BY <4>1, <4>2
      <3> QED BY <1>6, <2>2, <3>1, <3>5 DEF Agree
    <2>5. ack.path = p /\ ack.type = "ACK" /\ ack.offset + ack.len = end
      OBVIOUS
    <2>6. answer(m) = ack
      <3> HIDE DEF same, ack, need
      <3> QED BY <1>3, <1>6
    <2> HIDE DEF ack, end
    <2> QED BY <2>3, <2>4, <2>5, <2>6
  <1> QED BY <1>5, <1>6
-----------------------------------------------------------------------------
(* A tail block is written.                                                *)

\* What a sequence of a given length is.
LEMMA MakeSeq ==
    ASSUME NEW S, NEW n \in Nat, NEW f \in [1..n -> S]
    PROVE  f \in Seq(S) /\ Len(f) = n
  OBVIOUS

\* Two sequences joined.
LEMMA JoinSeq ==
    ASSUME NEW S, NEW s \in Seq(S), NEW u \in Seq(S)
    PROVE  /\ s \o u \in Seq(S) /\ Len(s \o u) = Len(s) + Len(u)
           /\ Len(s) \in Nat /\ Len(u) \in Nat
           /\ \A i \in 1..Len(s) : (s \o u)[i] = s[i]
           /\ \A i \in (Len(s) + 1)..(Len(s) + Len(u)) : (s \o u)[i] = u[i - Len(s)]
  OBVIOUS

\* The copy is cut at the block's offset, or extended to it, and the block added: it
\* is right up to the end of the block if it was right up to the offset.
LEMMA WriteAt ==
    ASSUME NEW old \in Seq(Blocks \union {Hole}), NEW off \in Nat, NEW bits \in Seq(Blocks),
           off + Len(bits) <= MaxLen
    PROVE  LET new == Truncated(old, off) \o bits IN
           /\ new \in Copies /\ Len(new) = off + Len(bits) /\ new # NoFile
           /\ \A src :
                 /\ off # 0 => off <= Len(old) /\ \A i \in 1..off : old[i] = src[i]
                 /\ \A i \in 1..Len(bits) : bits[i] = src[off + i]
                 => \A i \in 1..(off + Len(bits)) : new[i] = src[i]
  <1> DEFINE B == Blocks \union {Hole}
             cut == Truncated(old, off)
             new == cut \o bits
  <1>1. MaxLen \in Nat /\ Len(bits) \in Nat /\ Len(old) \in Nat
    BY TailerAssumption
  <1>2. bits \in Seq(B) /\ old \in Seq(B)
    OBVIOUS
  <1>3. cut = [i \in 1..off |-> IF i <= Len(old) THEN old[i] ELSE Hole]
    BY DEF Truncated
  <1>4. \A i \in 1..off : (IF i <= Len(old) THEN old[i] ELSE Hole) \in B
    BY <1>1
  <1> HIDE DEF cut, B, new
  <1>5. cut \in [1..off -> B]
    BY <1>3, <1>4
  <1>6. cut \in Seq(B) /\ Len(cut) = off
    BY <1>5, MakeSeq
  <1>7. /\ cut \o bits \in Seq(B) /\ Len(cut \o bits) = Len(cut) + Len(bits)
        /\ \A i \in 1..Len(cut) : (cut \o bits)[i] = cut[i]
        /\ \A i \in (Len(cut) + 1)..(Len(cut) + Len(bits)) :
              (cut \o bits)[i] = bits[i - Len(cut)]
    BY <1>2, <1>6, JoinSeq
  <1>8. /\ new \in Seq(B) /\ Len(new) = off + Len(bits)
        /\ \A i \in 1..off : new[i] = cut[i]
        /\ \A i \in (off + 1)..(off + Len(bits)) : new[i] = bits[i - off]
    BY <1>6, <1>7 DEF new
  <1>9. new \in Copies
    BY <1>8, CopiesSeq DEF B
  <1>10. new # NoFile
    BY <1>9, CopyType
  <1>11. ASSUME NEW src,
                off # 0 => off <= Len(old) /\ \A i \in 1..off : old[i] = src[i],
                \A i \in 1..Len(bits) : bits[i] = src[off + i],
                NEW i \in 1..(off + Len(bits))
         PROVE  new[i] = src[i]
    <2>1. CASE i \in 1..off
      <3>1. off # 0 /\ i <= Len(old)
        BY <1>1, <1>11, <2>1
      <3> QED BY <1>3, <1>8, <1>11, <2>1, <3>1
    <2>2. CASE i \notin 1..off
      <3>1. /\ i \in (off + 1)..(off + Len(bits))
            /\ i - off \in 1..Len(bits) /\ off + (i - off) = i
        BY <1>1, <2>2
      <3>2. new[i] = bits[i - off]
        BY <1>8, <3>1
      <3>3. bits[i - off] = src[off + (i - off)]
        BY <1>11, <3>1
      <3> QED BY <3>1, <3>2, <3>3
    <2> QED BY <2>1, <2>2
  <1> QED BY <1>8, <1>9, <1>10, <1>11 DEF new, cut

LEMMA WriteBlock ==
    ASSUME NEW old \in Seq(Blocks \union {Hole}), NEW m \in ToHost, m.type = "TAIL"
    PROVE  LET new == Truncated(old, m.offset) \o m.bits IN
           /\ new \in Copies
           /\ \A src \in Contents(MaxLen) :
                 Genuine(m, src) /\ (m.offset # 0 => Agree(src, old, m.offset))
                    => Agree(src, new, EndOf(m))
  <1> DEFINE new == Truncated(old, m.offset) \o m.bits
  <1>1. /\ m.offset \in Nat /\ m.bits \in Seq(Blocks)
        /\ m.offset + Len(m.bits) \in Nat /\ m.offset + Len(m.bits) <= MaxLen
    BY BlockType DEF EndOf
  <1>2. /\ new \in Copies /\ Len(new) = m.offset + Len(m.bits) /\ new # NoFile
        /\ \A src :
              /\ m.offset # 0 => m.offset <= Len(old) /\ \A i \in 1..m.offset : old[i] = src[i]
              /\ \A i \in 1..Len(m.bits) : m.bits[i] = src[m.offset + i]
              => \A i \in 1..(m.offset + Len(m.bits)) : new[i] = src[i]
    BY <1>1, WriteAt
  <1> HIDE DEF new
  <1>3. ASSUME NEW src \in Contents(MaxLen), Genuine(m, src),
               m.offset # 0 => Agree(src, old, m.offset)
        PROVE  Agree(src, new, EndOf(m))
    <2>1. EndOf(m) <= Len(src) /\ \A i \in 1..Len(m.bits) : m.bits[i] = src[m.offset + i]
      BY <1>3 DEF Genuine
    <2>2. m.offset # 0 => m.offset <= Len(old) /\ \A i \in 1..m.offset : old[i] = src[i]
      BY <1>3 DEF Agree
    <2>3. \A i \in 1..EndOf(m) : new[i] = src[i]
      BY <1>2, <2>1, <2>2 DEF EndOf
    <2>4. EndOf(m) <= Len(new)
      BY <1>1, <1>2 DEF EndOf
    <2> QED BY <1>2, <2>1, <2>3, <2>4 DEF Agree
  <1> QED BY <1>2, <1>3 DEF new
-----------------------------------------------------------------------------
(* A remote file grows.                                                    *)

\* src2 is src with blocks added at the end.
Grown(src, src2) == Len(src) <= Len(src2) /\ \A i \in 1..Len(src) : src2[i] = src[i]

\* What was right stays right when blocks are added at the end.
LEMMA GrowFacts ==
    ASSUME NEW h \in Seq(ToHost), NEW p, NEW src \in Contents(MaxLen),
           NEW src2 \in Contents(MaxLen), NEW copy \in Copies \union {NoFile},
           Grown(src, src2)
    PROVE  /\ \A x \in Int : Agree(src, copy, x) => Agree(src2, copy, x)
           /\ \A n, x \in Int : Reached(h, n, p, src, copy, x)
                                   => Reached(h, n, p, src2, copy, x)
           /\ \A i \in 1..Len(h) : h[i].type \in {"OFFER", "TAIL"} =>
                 /\ h[i].offset \in Nat
                 /\ Genuine(h[i], src) => Genuine(h[i], src2)
           /\ TailsRight(h, p, src, copy) => TailsRight(h, p, src2, copy)
  <1>1. Len(src) \in Nat /\ Len(src2) \in Nat /\ Len(src) <= Len(src2)
        /\ \A i \in 1..Len(src) : src2[i] = src[i]
    BY CopyType DEF Grown
  <1>2. \A x \in Int : Agree(src, copy, x) => Agree(src2, copy, x)
    <2> SUFFICES ASSUME NEW x \in Int, Agree(src, copy, x) PROVE Agree(src2, copy, x)
      OBVIOUS
    <2>1. copy # NoFile /\ x <= Len(copy) /\ x <= Len(src) /\ \A i \in 1..x : copy[i] = src[i]
      BY DEF Agree
    <2>2. x <= Len(src2) /\ \A i \in 1..x : i \in 1..Len(src)
      BY <1>1, <2>1
    <2> QED BY <1>1, <2>1, <2>2 DEF Agree
  <1>3. \A n, x \in Int : Reached(h, n, p, src, copy, x) => Reached(h, n, p, src2, copy, x)
    BY <1>2 DEF Reached
  <1>4. \A i \in 1..Len(h) : h[i].type \in {"OFFER", "TAIL"} =>
           /\ h[i].offset \in Nat
           /\ Genuine(h[i], src) => Genuine(h[i], src2)
    <2> SUFFICES ASSUME NEW i \in 1..Len(h), h[i].type \in {"OFFER", "TAIL"}
                 PROVE  h[i].offset \in Nat /\ (Genuine(h[i], src) => Genuine(h[i], src2))
      OBVIOUS
    <2> DEFINE m == h[i]
    <2>1. m \in ToHost
      OBVIOUS
    <2>2. /\ m.offset \in Nat /\ Len(m.bits) \in Nat /\ EndOf(m) \in Nat
          /\ EndOf(m) = m.offset + Len(m.bits)
      BY <2>1, BlockType DEF EndOf
    <2> HIDE DEF m
    <2>3. ASSUME Genuine(m, src) PROVE Genuine(m, src2)
      <3>1. EndOf(m) <= Len(src) /\ \A j \in 1..Len(m.bits) : m.bits[j] = src[m.offset + j]
        BY <2>3 DEF Genuine
      <3>2. EndOf(m) <= Len(src2) /\ \A j \in 1..Len(m.bits) : m.offset + j \in 1..Len(src)
        BY <1>1, <2>2, <3>1, SMTT(30)
      <3> QED BY <1>1, <3>1, <3>2 DEF Genuine
    <2> QED BY <2>2, <2>3 DEF m
  <1>5. ASSUME TailsRight(h, p, src, copy) PROVE TailsRight(h, p, src2, copy)
    <2> SUFFICES ASSUME NEW i \in 1..Len(h), TailAt(h, i, p)
                 PROVE  /\ Genuine(h[i], src2)
                        /\ \/ h[i].offset = 0 /\ NoTail(h, i - 1, p)
                           \/ Reached(h, i - 1, p, src2, copy, h[i].offset)
      BY DEF TailsRight
    <2>1. /\ Genuine(h[i], src)
          /\ \/ h[i].offset = 0 /\ NoTail(h, i - 1, p)
             \/ Reached(h, i - 1, p, src, copy, h[i].offset)
      BY <1>5 DEF TailsRight
    <2>2. h[i].type \in {"OFFER", "TAIL"} /\ i - 1 \in Int
      BY DEF TailAt
    <2>3. h[i].offset \in Int
      BY <1>4, <2>2
    <2> QED BY <1>3, <1>4, <2>1, <2>2, <2>3
  <1> QED BY <1>2, <1>3, <1>4, <1>5

LEMMA GrowSource ==
    ASSUME NEW h \in Seq(ToHost), NEW t \in Seq(ToTailer), NEW p, NEW src \in Contents(MaxLen),
           NEW src2 \in Contents(MaxLen), NEW copy, NEW c \in CpsType \union {NoPath},
           Grown(src, src2), copy \in Copies \union {NoFile},
           PathOK(h, t, p, src, copy, c)
    PROVE  PathOK(h, t, p, src2, copy, c)
  <1>1. Len(src) \in Nat /\ Len(src2) \in Nat /\ Len(src) <= Len(src2)
    BY CopyType DEF Grown
  <1>2. \A x \in Int : Agree(src, copy, x) => Agree(src2, copy, x)
    BY GrowFacts
  <1>3. \A n, x \in Int : Reached(h, n, p, src, copy, x) => Reached(h, n, p, src2, copy, x)
    BY GrowFacts
  <1>4. \A i \in 1..Len(h) : h[i].type \in {"OFFER", "TAIL"} =>
           /\ h[i].offset \in Nat
           /\ Genuine(h[i], src) => Genuine(h[i], src2)
    BY GrowFacts
  <1>5. CASE c = NoPath
    BY <1>5 DEF PathOK
  <1>6. CASE c # NoPath
    <2>1. /\ TailsRight(h, p, src, copy) /\ OffsetRight(h, p, src, copy, c)
          /\ OneOffer(h, t, p) /\ OfferRight(h, p, src, c)
          /\ AnswerRight(t, p, src, copy, c)
          /\ c.state \in {"INIT", "OFFERED"} => NoTail(h, Len(h), p)
      BY <1>6 DEF PathOK
    <2>2. c \in CpsType /\ c.offset \in Int /\ c.last \in Int
      <3>1. c \in CpsType
        BY <1>6
      <3>2. c.offset \in -1..MaxLen /\ c.last \in 0..MaxLen
        BY <3>1 DEF CpsType
      <3> QED BY <3>1, <3>2, TailerAssumption
    <2>3. TailsRight(h, p, src2, copy)
      BY <2>1, GrowFacts
    <2>4. OffsetRight(h, p, src2, copy, c)
      BY <1>1, <1>3, <2>1, <2>2 DEF OffsetRight
    <2>5. OfferRight(h, p, src2, c)
      BY <1>4, <2>1 DEF OfferRight, OfferAt
    <2>6. AnswerRight(t, p, src2, copy, c)
      <3> SUFFICES ASSUME NEW i \in 1..Len(t), AnswerAt(t, i, p)
                   PROVE  /\ c.state = "OFFERED"
                          /\ t[i].type = "ACK" /\ t[i].len # 0 =>
                                Agree(src2, copy, t[i].offset + t[i].len)
        BY DEF AnswerRight
      <3>1. t[i] \in ToTailer
        OBVIOUS
      <3>2. t[i].type = "ACK" => t[i].offset + t[i].len \in Int
        BY <3>1, AnswerType
      <3> QED BY <1>2, <2>1, <3>2 DEF AnswerRight
    <2> QED BY <1>6, <2>1, <2>3, <2>4, <2>5, <2>6 DEF PathOK
  <1> QED BY <1>5, <1>6
-----------------------------------------------------------------------------
(* The tailer reads a packet.                                              *)

\* The fields of the state of a path.
LEMMA CpsFields ==
    ASSUME NEW c \in CpsType
    PROVE  /\ c.state \in {"INIT", "OFFERED", "TAILING", "SYNCED"}
           /\ c.offset \in -1..MaxLen /\ c.offset \in Int
           /\ c.size \in 0..MaxLen /\ c.size \in Nat
           /\ c.last \in 0..MaxLen /\ c.last \in Nat
           /\ c.err \in BOOLEAN /\ c # NoPath
  <1>1. /\ c.state \in {"INIT", "OFFERED", "TAILING", "SYNCED"} /\ c.offset \in -1..MaxLen
        /\ c.size \in 0..MaxLen /\ c.last \in 0..MaxLen /\ c.err \in BOOLEAN
    BY DEF CpsType
  <1> QED BY <1>1, TailerAssumption

\* What handle_packet() makes of the state c of a path.
Handled(c, m) ==
    CASE m.type = "OPEN" /\ c = NoPath -> create_client_path_state
      [] m.type = "NEED" /\ c # NoPath -> [c EXCEPT !.state = "TAILING"]
      [] m.type = "ACK" /\ c # NoPath ->
            IF m.len = 0 THEN [c EXCEPT !.state = "TAILING"]
            ELSE [c EXCEPT !.offset = m.offset + m.len, !.state = "INIT", !.size = m.size]
      [] OTHER -> c

LEMMA HandledType ==
    ASSUME NEW m \in ToTailer, NEW c \in CpsType \union {NoPath}
    PROVE  /\ Handled(c, m) \in CpsType \union {NoPath}
           /\ m.type = "OPEN" /\ c = NoPath => Handled(c, m) = create_client_path_state
           /\ m.type = "OPEN" /\ c # NoPath => Handled(c, m) = c
           /\ m.type # "OPEN" /\ c = NoPath => Handled(c, m) = NoPath
           /\ m.type # "OPEN" /\ c # NoPath =>
                 LET d == Handled(c, m) IN
                 /\ d \in CpsType /\ d.last = c.last
                 /\ \/ d.state = "TAILING" /\ d.offset = c.offset
                    \/ /\ m.type = "ACK" /\ m.len # 0 /\ d.state = "INIT"
                       /\ d.offset = m.offset + m.len
  <1>1. /\ m.type \in {"OPEN", "NEED", "ACK"}
        /\ m.type = "ACK" => /\ m.offset + m.len \in 0..MaxLen /\ m.size \in 0..MaxLen
    BY AnswerType
  <1>2. create_client_path_state \in CpsType
    BY TailerAssumption DEF create_client_path_state, CpsType
  <1>3. CASE m.type = "OPEN" /\ c = NoPath
    BY <1>2, <1>3 DEF Handled
  <1>4. CASE m.type = "OPEN" /\ c # NoPath
    BY <1>4 DEF Handled
  <1>5. CASE m.type # "OPEN" /\ c = NoPath
    BY <1>1, <1>5 DEF Handled
  <1>6. CASE m.type # "OPEN" /\ c # NoPath
    <2>1. c \in CpsType
      BY <1>6
    <2> DEFINE d1 == [c EXCEPT !.state = "TAILING"]
               d2 == [c EXCEPT !.offset = m.offset + m.len, !.state = "INIT", !.size = m.size]
    <2>2. d1 \in CpsType /\ d1.state = "TAILING" /\ d1.offset = c.offset /\ d1.last = c.last
      BY <2>1 DEF CpsType
    <2>3. ASSUME m.type = "ACK"
          PROVE  /\ d2 \in CpsType /\ d2.state = "INIT"
                 /\ d2.offset = m.offset + m.len /\ d2.last = c.last
      <3> DEFINE x == m.offset + m.len
                 z == m.size
      <3>1. x \in -1..MaxLen /\ z \in 0..MaxLen
        BY <1>1, <2>3, TailerAssumption
      <3>2. d2 = [c EXCEPT !.offset = x, !.state = "INIT", !.size = z]
        OBVIOUS
      <3> HIDE DEF x, z, d2
      <3>3. /\ d2 \in CpsType /\ d2.state = "INIT" /\ d2.offset = x /\ d2.last = c.last
        BY <2>1, <3>1, <3>2 DEF CpsType
      <3> QED BY <3>3 DEF x
    <2>4. Handled(c, m) = IF m.type = "NEED" \/ m.len = 0 THEN d1 ELSE d2
      BY <1>1, <1>6 DEF Handled
    <2> HIDE DEF d1, d2
    <2>5. CASE m.type = "NEED" \/ m.len = 0
      BY <1>6, <2>2, <2>4, <2>5
    <2>6. CASE ~(m.type = "NEED" \/ m.len = 0)
      BY <1>1, <1>6, <2>3, <2>4, <2>6
    <2> QED BY <2>5, <2>6
  <1> QED BY <1>3, <1>4, <1>5, <1>6

\* A packet that is not about an offer for p is taken.
LEMMA DropAnswer ==
    ASSUME NEW h, NEW t \in Seq(ToTailer), t # <<>>, NEW p, NEW src, NEW copy, NEW c,
           PathOK(h, t, p, src, copy, c)
    PROVE  PathOK(h, Tail(t), p, src, copy, c)
  <1> DEFINE u == Tail(t)
  <1>1. /\ Len(u) = Len(t) - 1 /\ Len(t) \in Nat \ {0}
        /\ \A i \in 1..(Len(t) - 1) : i + 1 \in 1..Len(t) /\ u[i] = t[i + 1]
    BY TailFacts
  <1> HIDE DEF u
  <1>2. \A i \in 1..Len(u) : /\ i + 1 \in 1..Len(t) /\ u[i] = t[i + 1]
                             /\ AnswerAt(u, i, p) <=> AnswerAt(t, i + 1, p)
    BY <1>1 DEF AnswerAt
  <1>3. CASE c = NoPath
    BY <1>2, <1>3 DEF PathOK, Silent, u
  <1>4. CASE c # NoPath
    <2>1. OneOffer(h, t, p) /\ AnswerRight(t, p, src, copy, c)
      BY <1>4 DEF PathOK
    <2>2. OneOffer(h, u, p)
      <3>1. \A i, j \in 1..Len(u) : AnswerAt(u, i, p) /\ AnswerAt(u, j, p) => i = j
        <4> SUFFICES ASSUME NEW i \in 1..Len(u), NEW j \in 1..Len(u),
                            AnswerAt(u, i, p), AnswerAt(u, j, p)
                     PROVE  i = j
          OBVIOUS
        <4>1. i + 1 = j + 1
          BY <1>2, <2>1 DEF OneOffer
        <4> QED BY <1>1, <4>1
      <3> QED BY <1>2, <2>1, <3>1 DEF OneOffer
    <2>3. AnswerRight(u, p, src, copy, c)
      BY <1>2, <2>1 DEF AnswerRight
    <2> QED BY <1>4, <2>2, <2>3 DEF PathOK, u
  <1> QED BY <1>3, <1>4

LEMMA HandlePacket ==
    ASSUME NEW h, NEW t \in Seq(ToTailer), t # <<>>, NEW p, NEW src \in Contents(MaxLen),
           NEW copy, NEW c \in CpsType \union {NoPath},
           Len(h) \in Nat,
           PathOK(h, t, p, src, copy, c)
    PROVE  PathOK(h, Tail(t), p, src, copy, IF t[1].path = p THEN Handled(c, t[1]) ELSE c)
  <1> DEFINE u == Tail(t)
             m == t[1]
             d == Handled(c, m)
  <1>1. /\ m \in ToTailer /\ 1 \in 1..Len(t) /\ Len(u) = Len(t) - 1 /\ Len(t) \in Nat
        /\ \A i \in 1..(Len(t) - 1) : i + 1 \in 1..Len(t) /\ u[i] = t[i + 1]
    BY TailFacts
  <1>2. PathOK(h, u, p, src, copy, c)
    BY DropAnswer
  <1>3. CASE m.path # p
    BY <1>2, <1>3
  <1>4. CASE m.path = p /\ m.type = "OPEN" /\ c # NoPath
    BY <1>1, <1>2, <1>4, HandledType
  <1>5. CASE m.path = p /\ m.type = "OPEN" /\ c = NoPath
    <2>1. d = create_client_path_state
      BY <1>1, <1>5, HandledType
    <2> HIDE DEF u, m, d
    <2>2. d.state = "INIT" /\ d.offset = -1 /\ d.last = 0 /\ d # NoPath
      <3>1. create_client_path_state \in CpsType
        BY TailerAssumption DEF create_client_path_state, CpsType
      <3> QED BY <2>1, <3>1, CpsFields DEF create_client_path_state
    <2>3. Silent(h, u, p)
      BY <1>2, <1>5 DEF PathOK
    <2>4. NoTail(h, Len(h), p) /\ TailsRight(h, p, src, copy)
      BY <2>3 DEF Silent, NoTail, TailsRight
    <2>5. OneOffer(h, u, p) /\ OfferRight(h, p, src, d) /\ AnswerRight(u, p, src, copy, d)
      BY <2>3 DEF Silent, OneOffer, OfferRight, AnswerRight
    <2>6. Len(src) \in Nat
      BY CopyType
    <2>7. OffsetRight(h, p, src, copy, d)
      BY <2>2, <2>4, <2>6 DEF OffsetRight
    <2>8. PathOK(h, u, p, src, copy, d)
      BY <2>2, <2>4, <2>5, <2>7 DEF PathOK
    <2> QED BY <1>5, <2>8 DEF u, m, d
  <1>6. CASE m.path = p /\ m.type # "OPEN"
    <2>1. m.type \in {"NEED", "ACK"}
      BY <1>1, <1>6, AnswerType
    <2>2. AnswerAt(t, 1, p)
      BY <1>6, <2>1 DEF AnswerAt
    <2>3. c # NoPath
      BY <1>1, <2>2 DEF PathOK, Silent
    <2>4. /\ TailsRight(h, p, src, copy) /\ OffsetRight(h, p, src, copy, c)
          /\ OneOffer(h, t, p) /\ AnswerRight(t, p, src, copy, c)
          /\ c.state \in {"INIT", "OFFERED"} => NoTail(h, Len(h), p)
      BY <2>3 DEF PathOK
    <2>5. /\ d \in CpsType /\ d.last = c.last
          /\ \/ d.state = "TAILING" /\ d.offset = c.offset
             \/ /\ m.type = "ACK" /\ m.len # 0 /\ d.state = "INIT"
                /\ d.offset = m.offset + m.len
      BY <1>1, <1>6, <2>3, HandledType
    <2>6. /\ c.state = "OFFERED"
          /\ m.type = "ACK" /\ m.len # 0 => Agree(src, copy, m.offset + m.len)
      BY <1>1, <2>2, <2>4 DEF AnswerRight
    <2> HIDE DEF u, m, d
    <2>7. d # NoPath /\ d.offset \in Int /\ d.last \in Nat /\ Len(src) \in Nat
      BY <2>5, CpsFields, CopyType
    <2>8. NoTail(h, Len(h), p) /\ \A i \in 1..Len(h) : ~OfferAt(h, i, p)
      BY <1>1, <2>2, <2>4, <2>6 DEF OneOffer
    <2>9. \A i \in 1..Len(u) : ~AnswerAt(u, i, p)
      <3> SUFFICES ASSUME NEW i \in 1..Len(u), AnswerAt(u, i, p) PROVE FALSE
        OBVIOUS
      <3>1. i + 1 \in 1..Len(t) /\ u[i] = t[i + 1] /\ i + 1 # 1
        BY <1>1
      <3>2. AnswerAt(t, i + 1, p)
        BY <3>1 DEF AnswerAt
      <3> QED BY <1>1, <2>2, <2>4, <3>1, <3>2 DEF OneOffer
    <2>10. OffsetRight(h, p, src, copy, d)
      <3>1. CASE d.state = "TAILING" /\ d.offset = c.offset
        BY <2>4, <2>5, <3>1 DEF OffsetRight
      <3>2. CASE /\ m.type = "ACK" /\ m.len # 0 /\ d.state = "INIT"
                 /\ d.offset = m.offset + m.len
        <4>1. Agree(src, copy, d.offset)
          BY <2>6, <3>2
        <4>2. d.offset <= Len(src)
          BY <4>1 DEF Agree
        <4>3. d.last <= Len(src)
          BY <2>4, <2>5 DEF OffsetRight
        <4> QED BY <2>8, <4>1, <4>2, <4>3 DEF OffsetRight, Reached
      <3> QED BY <2>5, <3>1, <3>2
    <2>11. OneOffer(h, u, p) /\ OfferRight(h, p, src, d) /\ AnswerRight(u, p, src, copy, d)
      BY <2>8, <2>9 DEF OneOffer, OfferRight, AnswerRight
    <2>12. PathOK(h, u, p, src, copy, d)
      BY <2>4, <2>7, <2>8, <2>10, <2>11 DEF PathOK
    <2> QED BY <1>6, <2>12 DEF u, m, d
  <1> QED BY <1>3, <1>4, <1>5, <1>6
-----------------------------------------------------------------------------
(* The tailer polls a path.                                                *)

\* A part of a file, as a block.
LEMMA BlockOf ==
    ASSUME NEW p \in Paths, NEW src \in Contents(MaxLen), NEW at \in Nat, NEW n \in Nat,
           at + n <= Len(src), NEW type \in {"OFFER", "TAIL"}
    PROVE  LET b == [type |-> type, path |-> p, offset |-> at,
                     bits |-> SubSeq(src, at + 1, at + n)]
           IN  b \in ToHost /\ EndOf(b) = at + n /\ Genuine(b, src)
  <1> DEFINE bits == SubSeq(src, at + 1, at + n)
             b == [type |-> type, path |-> p, offset |-> at, bits |-> bits]
  <1>1. MaxLen \in Nat /\ src \in Seq(Blocks) /\ Len(src) \in Nat /\ Len(src) <= MaxLen
    BY TailerAssumption, CopyType, ContentsSeq
  <1>2. /\ bits \in Seq(Blocks) /\ Len(bits) = n
        /\ \A i \in 1..n : bits[i] = src[at + i]
    <2>1. bits \in Seq(Blocks)
      BY <1>1, SubSeqProperties
    <2>2. Len(bits) = n
      BY <1>1
    <2>3. \A i \in 1..n : bits[i] = src[at + 1 + i - 1]
      BY <1>1
    <2>4. \A i \in 1..n : at + 1 + i - 1 = at + i
      BY <1>1
    <2> HIDE DEF bits
    <2> QED BY <2>1, <2>2, <2>3, <2>4
  <1> HIDE DEF bits
  <1>3. bits \in Contents(MaxLen)
    BY <1>1, <1>2, ContentsSeq
  <1>4. at \in 0..MaxLen
    BY <1>1
  <1>5. b \in [type : {"OFFER", "TAIL"}, path : Paths, offset : 0..MaxLen,
               bits : Contents(MaxLen)]
    BY <1>3, <1>4
  <1>6. b.offset + Len(b.bits) = at + n /\ b.bits = bits /\ b.offset = at
    BY <1>2
  <1> HIDE DEF b
  <1>7. b.offset + Len(b.bits) <= MaxLen
    BY <1>1, <1>6
  <1>8. b \in ToHost
    BY <1>5, <1>7 DEF ToHost
  <1>9. Genuine(b, src)
    BY <1>1, <1>2, <1>6 DEF Genuine, EndOf
  <1> QED BY <1>6, <1>8, <1>9 DEF b, bits, EndOf

\* send_block() sends a part of the file that begins at the client's offset.
LEMMA SendBlock ==
    ASSUME NEW p \in Paths, remote[p] \in Contents(MaxLen), NEW c \in CpsType,
           c.offset < Len(remote[p])
    PROVE  \E b \in ToHost :
              /\ b.path = p /\ b.offset = StartOf(c) /\ Genuine(b, remote[p])
              /\ b.type = IF c.state = "INIT" THEN "OFFER" ELSE "TAIL"
              /\ send_block(c, p) =
                    [cps |-> IF c.state = "INIT" THEN [c EXCEPT !.state = "OFFERED"]
                             ELSE [c EXCEPT !.state = "TAILING", !.offset = EndOf(b)],
                     out |-> <<b>>]
  <1> DEFINE src == remote[p]
             at == IF c.offset < 0 THEN 0 ELSE c.offset
             avail == Len(src) - at
             n == IF c.state = "INIT" THEN offer_length(c, at, avail)
                  ELSE IF BUFFER < avail THEN BUFFER ELSE avail
             type == IF c.state = "INIT" THEN "OFFER" ELSE "TAIL"
             b == [type |-> type, path |-> p, offset |-> at,
                   bits |-> SubSeq(src, at + 1, at + n)]
  <1>1. Len(src) \in Nat /\ src \in Contents(MaxLen)
    BY CopyType
  <1>2. c.offset \in Int /\ c.offset >= -1 /\ c.size \in Nat
    BY CpsFields, TailerAssumption
  <1>3. FIRST \in Nat /\ BUFFER \in Nat
    BY TailerAssumption
  <1>4. at \in Nat /\ avail \in Nat /\ at + avail = Len(src) /\ at = StartOf(c)
    <2> HIDE DEF src
    <2> QED BY <1>1, <1>2 DEF StartOf, src
  <1>5. n \in Nat /\ n <= avail
    <2> HIDE DEF at, avail
    <2>1. offer_length(c, at, avail) \in Nat /\ offer_length(c, at, avail) <= avail
      BY <1>2, <1>3, <1>4 DEF offer_length
    <2> QED BY <1>3, <1>4, <2>1
  <1>6. send_block(c, p) =
           [cps |-> IF c.state = "INIT" THEN [c EXCEPT !.state = "OFFERED"]
                    ELSE [c EXCEPT !.state = "TAILING", !.offset = at + n],
            out |-> <<b>>]
    BY DEF send_block
  <1>7. b.path = p /\ b.offset = at /\ b.type = type
    OBVIOUS
  <1>8. type \in {"OFFER", "TAIL"}
    OBVIOUS
  <1> HIDE DEF src, at, avail, n, type
  <1>9. at + n <= Len(src)
    BY <1>1, <1>4, <1>5
  <1>10. b \in ToHost /\ EndOf(b) = at + n /\ Genuine(b, src)
    BY <1>1, <1>4, <1>5, <1>8, <1>9, BlockOf, ZenonT(30)
  <1> HIDE DEF b
  <1> QED BY <1>4, <1>6, <1>7, <1>10 DEF src, type

\* What a poll of the path p, with the state c and the file src, may do.
Quieted(c, d) == d.state = c.state /\ d.offset = c.offset
Offered(c, d, src, b) ==
    /\ c.state = "INIT" /\ d.state = "OFFERED" /\ d.offset = c.offset
    /\ b.type = "OFFER" /\ b.offset = StartOf(c) /\ Genuine(b, src)
Sent(c, d, src, b) ==
    /\ c.state \in {"TAILING", "SYNCED"} /\ d.state = "TAILING" /\ d.offset = EndOf(b)
    /\ b.type = "TAIL" /\ b.offset = StartOf(c) /\ Genuine(b, src)
Reported(c, d, src, b) ==
    /\ c.state # "OFFERED" /\ d.state = "SYNCED" /\ d.offset = c.offset
    /\ c.offset >= 0 /\ c.offset >= Len(src)
    /\ b.type = "SYNCED"
Polled(c, r, src, p) ==
    /\ r.cps \in CpsType /\ r.cps.last <= Len(src)
    /\ \/ r.out = <<>> /\ Quieted(c, r.cps)
       \/ \E b \in ToHost :
             /\ r.out = <<b>> /\ b.path = p
             /\ \/ Offered(c, r.cps, src, b)
                \/ Sent(c, r.cps, src, b)
                \/ Reported(c, r.cps, src, b)

LEMMA PollRegular ==
    ASSUME NEW p \in Paths, remote[p] \in Contents(MaxLen), NEW c \in CpsType,
           c.last <= Len(remote[p])
    PROVE  LET r == poll_regular(c, p) IN
           Polled(c, r, remote[p], p) /\ r = [cps |-> r.cps, out |-> r.out]
  <1> DEFINE src == remote[p]
             r == poll_regular(c, p)
  <1>1. Len(src) \in Nat
    BY CopyType
  <1>2. /\ c.state \in {"INIT", "OFFERED", "TAILING", "SYNCED"}
        /\ c.offset \in Int /\ c.offset >= -1
    BY CpsFields, TailerAssumption
  <1>3. CASE c.state = "OFFERED"
    <2>1. r = [cps |-> c, out |-> <<>>]
      BY <1>3 DEF poll_regular
    <2> HIDE DEF r
    <2> QED BY <2>1 DEF Polled, Quieted, r
  <1>4. CASE c.state # "OFFERED" /\ c.offset < Len(src)
    <2>1. r = send_block(c, p)
      BY <1>4 DEF poll_regular
    <2>2. PICK b \in ToHost :
             /\ b.path = p /\ b.offset = StartOf(c) /\ Genuine(b, src)
             /\ b.type = IF c.state = "INIT" THEN "OFFER" ELSE "TAIL"
             /\ send_block(c, p) =
                   [cps |-> IF c.state = "INIT" THEN [c EXCEPT !.state = "OFFERED"]
                            ELSE [c EXCEPT !.state = "TAILING", !.offset = EndOf(b)],
                    out |-> <<b>>]
      BY <1>4, SendBlock
    <2>3. CASE c.state = "INIT"
      <3> DEFINE d == [c EXCEPT !.state = "OFFERED"]
      <3>1. r = [cps |-> d, out |-> <<b>>]
        BY <2>1, <2>2, <2>3
      <3>2. d \in CpsType /\ d.state = "OFFERED" /\ d.offset = c.offset /\ d.last = c.last
        BY DEF CpsType
      <3> HIDE DEF d, r
      <3>3. r.cps = d /\ r.out = <<b>> /\ r = [cps |-> r.cps, out |-> r.out]
        BY <3>1
      <3>4. Offered(c, d, src, b)
        BY <2>2, <2>3, <3>2 DEF Offered
      <3>5. Polled(c, r, src, p)
        BY <2>2, <3>2, <3>3, <3>4 DEF Polled
      <3> QED BY <3>3, <3>5 DEF r
    <2>4. CASE c.state # "INIT"
      <3> DEFINE x == EndOf(b)
                 d == [c EXCEPT !.state = "TAILING", !.offset = x]
      <3>1. r = [cps |-> d, out |-> <<b>>]
        BY <2>1, <2>2, <2>4
      <3>2. x \in -1..MaxLen
        BY <2>2, <2>4, BlockType, TailerAssumption
      <3> HIDE DEF x
      <3>3. d \in CpsType /\ d.state = "TAILING" /\ d.offset = x /\ d.last = c.last
        BY <3>2 DEF CpsType
      <3> HIDE DEF d, r
      <3>4. r.cps = d /\ r.out = <<b>> /\ r = [cps |-> r.cps, out |-> r.out]
        BY <3>1
      <3>5. Sent(c, d, src, b)
        BY <1>2, <1>4, <2>2, <2>4, <3>3 DEF Sent, x
      <3>6. Polled(c, r, src, p)
        BY <2>2, <3>3, <3>4, <3>5 DEF Polled
      <3> QED BY <3>4, <3>6 DEF r
    <2> QED BY <2>3, <2>4
  <1>5. CASE c.state # "OFFERED" /\ ~(c.offset < Len(src)) /\ c.state # "SYNCED"
    <2> DEFINE b == synced(p)
               d == [c EXCEPT !.state = "SYNCED"]
    <2>1. r = [cps |-> d, out |-> <<b>>]
      BY <1>5 DEF poll_regular
    <2>2. d \in CpsType /\ d.state = "SYNCED" /\ d.offset = c.offset /\ d.last = c.last
      BY DEF CpsType
    <2>3. b \in ToHost /\ b.path = p /\ b.type = "SYNCED"
      BY DEF synced, ToHost
    <2> HIDE DEF b, d, r
    <2>4. r.cps = d /\ r.out = <<b>> /\ r = [cps |-> r.cps, out |-> r.out]
      BY <2>1
    <2>5. c.offset >= 0 /\ c.offset >= Len(src)
      <3> HIDE DEF src
      <3> QED BY <1>1, <1>2, <1>5
    <2>6. Reported(c, d, src, b)
      BY <1>5, <2>2, <2>3, <2>5 DEF Reported
    <2>7. Polled(c, r, src, p)
      BY <2>2, <2>3, <2>4, <2>6 DEF Polled
    <2> QED BY <2>4, <2>7 DEF r
  <1>6. CASE c.state # "OFFERED" /\ ~(c.offset < Len(src)) /\ c.state = "SYNCED"
    <2>1. r = [cps |-> c, out |-> <<>>]
      BY <1>6 DEF poll_regular
    <2> HIDE DEF r
    <2> QED BY <2>1 DEF Polled, Quieted, r
  <1> QED BY <1>3, <1>4, <1>5, <1>6

\* One path of poll_paths(), a file that was not replaced.
LEMMA PollFile ==
    ASSUME NEW p \in Paths, remote[p] \in Contents(MaxLen), NEW c \in CpsType,
           c.last <= Len(remote[p])
    PROVE  Polled(c, poll_file(c, p), remote[p], p)
  <1> DEFINE src == remote[p]
             q == poll_regular(c, p)
             r == poll_file(c, p)
  <1>1. /\ Len(src) \in Nat /\ src # NoFile /\ c.last \in Nat
        /\ Len(src) \in 0..MaxLen
    BY CopyType, CpsFields, ContentsSeq
  <1>2. ~(Len(src) < c.last)
    <2> HIDE DEF src
    <2> QED BY <1>1 DEF src
  <1>3. r = [q EXCEPT !.cps.err = FALSE, !.cps.last = Len(src)]
    BY <1>1, <1>2 DEF poll_file
  <1>4. Polled(c, q, src, p) /\ q = [cps |-> q.cps, out |-> q.out]
    BY PollRegular
  <1> HIDE DEF q, r
  <1> DEFINE x == q.cps
             y == q.out
             z == Len(src)
             d == [x EXCEPT !.err = FALSE, !.last = z]
  <1>5. x \in CpsType
    BY <1>4 DEF Polled
  <1>6. r = [[cps |-> x, out |-> y] EXCEPT !.cps.err = FALSE, !.cps.last = z]
    BY <1>3, <1>4
  <1> HIDE DEF x, y, z
  <1>7. r.cps = d /\ r.out = y
    BY <1>6
  <1>8. d \in CpsType /\ d.state = x.state /\ d.offset = x.offset /\ d.last = z
    BY <1>1, <1>5 DEF CpsType, z
  <1> HIDE DEF d
  <1>9. z <= Len(src)
    BY <1>1 DEF z
  <1>10. /\ Quieted(c, x) => Quieted(c, d)
         /\ \A b : /\ Offered(c, x, src, b) => Offered(c, d, src, b)
                   /\ Sent(c, x, src, b) => Sent(c, d, src, b)
                   /\ Reported(c, x, src, b) => Reported(c, d, src, b)
    BY <1>8 DEF Quieted, Offered, Sent, Reported
  <1>11. \/ y = <<>> /\ Quieted(c, x)
         \/ \E b \in ToHost :
               /\ y = <<b>> /\ b.path = p
               /\ Offered(c, x, src, b) \/ Sent(c, x, src, b) \/ Reported(c, x, src, b)
    BY <1>4 DEF Polled, x, y
  <1>12. \/ y = <<>> /\ Quieted(c, d)
         \/ \E b \in ToHost :
               /\ y = <<b>> /\ b.path = p
               /\ Offered(c, d, src, b) \/ Sent(c, d, src, b) \/ Reported(c, d, src, b)
    <2>1. CASE y = <<>> /\ Quieted(c, x)
      BY <1>10, <2>1
    <2>2. ASSUME NEW b \in ToHost, y = <<b>>, b.path = p,
                 Offered(c, x, src, b) \/ Sent(c, x, src, b) \/ Reported(c, x, src, b)
          PROVE  Offered(c, d, src, b) \/ Sent(c, d, src, b) \/ Reported(c, d, src, b)
      BY <1>10, <2>2
    <2> QED BY <1>11, <2>1, <2>2
  <1>13. Polled(c, r, src, p)
    BY <1>7, <1>8, <1>9, <1>12 DEF Polled
  <1> QED BY <1>13 DEF r

\* Any file: the state stays a state and the packets are about the path.
LEMMA PollType ==
    ASSUME NEW p \in Paths, remote[p] \in Contents(MaxLen) \union {NoFile},
           NEW c \in CpsType
    PROVE  LET r == poll_file(c, p) IN
           /\ r.cps \in CpsType /\ r.out \in Seq(ToHost)
           /\ \A i \in 1..Len(r.out) : r.out[i].path = p
  <1> DEFINE src == remote[p]
             r == poll_file(c, p)
             e == path_error(c, p)
             d == [c EXCEPT !.err = TRUE, !.offset = -1, !.state = "INIT"]
  <1>1. error(p) \in ToHost /\ error(p).path = p
    BY DEF error, ToHost
  <1> DEFINE o == IF c.err THEN <<>> ELSE <<error(p)>>
  <1>2. d \in CpsType
    <2>1. -1 \in -1..MaxLen
      BY TailerAssumption
    <2> QED BY <2>1 DEF CpsType
  <1>3. o \in Seq(ToHost) /\ \A i \in 1..Len(o) : o[i].path = p
    BY <1>1
  <1>4. e = [cps |-> d, out |-> o]
    BY DEF path_error
  <1> HIDE DEF d, o
  <1>5. CASE src = NoFile
    <2>1. r = [e EXCEPT !.cps.last = 0]
      BY <1>5 DEF poll_file
    <2> HIDE DEF r, e
    <2>2. r.cps = [d EXCEPT !.last = 0] /\ r.out = o
      BY <1>4, <2>1
    <2>3. [d EXCEPT !.last = 0] \in CpsType
      BY <1>2, TailerAssumption, SMTT(30) DEF CpsType
    <2> QED BY <1>3, <2>2, <2>3 DEF r
  <1>6. CASE src # NoFile /\ c.offset >= 0 /\ Len(src) < c.last
    <2>1. Len(src) \in 0..MaxLen
      BY <1>6, CopyType, ContentsSeq
    <2> DEFINE z == Len(src)
               w == <<error(p)>> \o o
    <2>2. r = [cps |-> [e.cps EXCEPT !.last = z], out |-> <<error(p)>> \o e.out]
      BY <1>6 DEF poll_file
    <2> HIDE DEF r, e, z
    <2>3. r.cps = [d EXCEPT !.last = z] /\ r.out = w
      BY <1>4, <2>2
    <2>4. [d EXCEPT !.last = z] \in CpsType
      BY <1>2, <2>1 DEF CpsType, z
    <2>5. w \in Seq(ToHost) /\ \A i \in 1..Len(w) : w[i].path = p
      <3> DEFINE v == <<error(p)>>
      <3>1. v \in Seq(ToHost) /\ Len(v) = 1 /\ v[1].path = p
        BY <1>1
      <3> HIDE DEF v
      <3>2. /\ v \o o \in Seq(ToHost) /\ Len(v \o o) = Len(v) + Len(o)
            /\ Len(o) \in Nat
            /\ \A i \in 1..Len(v) : (v \o o)[i] = v[i]
            /\ \A i \in (Len(v) + 1)..(Len(v) + Len(o)) : (v \o o)[i] = o[i - Len(v)]
        BY <1>3, <3>1, JoinSeq
      <3>3. ASSUME NEW i \in 1..Len(v \o o) PROVE (v \o o)[i].path = p
        <4>1. CASE i = 1
          BY <3>1, <3>2, <4>1
        <4>2. CASE i # 1
          <5>1. i \in (Len(v) + 1)..(Len(v) + Len(o)) /\ i - Len(v) \in 1..Len(o)
            BY <3>1, <3>2, <4>2
          <5> QED BY <1>3, <3>2, <5>1
        <4> QED BY <4>1, <4>2
      <3> QED BY <3>2, <3>3 DEF v
    <2> QED BY <2>3, <2>4, <2>5 DEF r
  <1>7. CASE src # NoFile /\ ~(c.offset >= 0 /\ Len(src) < c.last)
    <2> DEFINE q == poll_regular(c, p)
               z == Len(src)
    <2>1. src \in Contents(MaxLen) /\ z \in 0..MaxLen
      BY <1>7, CopyType, ContentsSeq
    <2>2. r = [q EXCEPT !.cps.err = FALSE, !.cps.last = z]
      BY <1>7 DEF poll_file
    <2>3. q = [cps |-> q.cps, out |-> q.out] /\ q.cps \in CpsType /\ q.out \in Seq(ToHost)
          /\ \A i \in 1..Len(q.out) : q.out[i].path = p
      <3>1. CASE c.state = "OFFERED"
        BY <3>1 DEF poll_regular
      <3>2. CASE c.state # "OFFERED" /\ c.offset < Len(src)
        <4>1. q = send_block(c, p)
          BY <3>2 DEF poll_regular
        <4>2. PICK b \in ToHost :
                 /\ b.path = p /\ b.offset = StartOf(c) /\ Genuine(b, src)
                 /\ b.type = IF c.state = "INIT" THEN "OFFER" ELSE "TAIL"
                 /\ send_block(c, p) =
                       [cps |-> IF c.state = "INIT" THEN [c EXCEPT !.state = "OFFERED"]
                                ELSE [c EXCEPT !.state = "TAILING", !.offset = EndOf(b)],
                        out |-> <<b>>]
          BY <2>1, <3>2, SendBlock
        <4> DEFINE x == EndOf(b)
                   d1 == [c EXCEPT !.state = "OFFERED"]
                   d2 == [c EXCEPT !.state = "TAILING", !.offset = x]
        <4>3. x \in -1..MaxLen
          BY <4>2, BlockType, TailerAssumption
        <4> HIDE DEF x
        <4>4. d1 \in CpsType /\ d2 \in CpsType
          BY <4>3 DEF CpsType
        <4>5. q = [cps |-> IF c.state = "INIT" THEN d1 ELSE d2, out |-> <<b>>]
          BY <4>1, <4>2 DEF x
        <4> HIDE DEF d1, d2, q
        <4>6. <<b>> \in Seq(ToHost) /\ \A i \in 1..Len(<<b>>) : <<b>>[i].path = p
          BY <4>2
        <4> QED BY <4>4, <4>5, <4>6
      <3>3. CASE c.state # "OFFERED" /\ ~(c.offset < Len(src)) /\ c.state # "SYNCED"
        <4> DEFINE b == synced(p)
                   d1 == [c EXCEPT !.state = "SYNCED"]
        <4>1. q = [cps |-> d1, out |-> <<b>>]
          BY <3>3 DEF poll_regular
        <4>2. d1 \in CpsType
          BY DEF CpsType
        <4>3. b \in ToHost /\ b.path = p
          BY DEF synced, ToHost
        <4> HIDE DEF b, d1, q
        <4>4. <<b>> \in Seq(ToHost) /\ \A i \in 1..Len(<<b>>) : <<b>>[i].path = p
          BY <4>3
        <4> QED BY <4>1, <4>2, <4>4
      <3>4. CASE c.state # "OFFERED" /\ ~(c.offset < Len(src)) /\ c.state = "SYNCED"
        BY <3>4 DEF poll_regular
      <3> QED BY <3>1, <3>2, <3>3, <3>4
    <2> DEFINE x == q.cps
               y == q.out
    <2> HIDE DEF q, r, z
    <2>4. r = [[cps |-> x, out |-> y] EXCEPT !.cps.err = FALSE, !.cps.last = z]
      BY <2>2, <2>3
    <2>5. x \in CpsType /\ y \in Seq(ToHost) /\ \A i \in 1..Len(y) : y[i].path = p
      BY <2>3
    <2> HIDE DEF x, y
    <2>6. r.cps = [x EXCEPT !.err = FALSE, !.last = z] /\ r.out = y
      BY <2>4
    <2>7. [x EXCEPT !.err = FALSE, !.last = z] \in CpsType
      BY <2>1, <2>5 DEF CpsType
    <2> QED BY <2>5, <2>6, <2>7 DEF r
  <1> QED BY <1>5, <1>6, <1>7
-----------------------------------------------------------------------------
(* The packets of a poll are added to the pipe.                            *)

\* h2 is h and more packets, of which the ones about p are those of out, at most one.
Extends(h, h2) == Len(h) <= Len(h2) /\ \A i \in 1..Len(h) : h2[i] = h[i]
Added(h, h2, p, out) ==
    /\ Extends(h, h2)
    /\ \/ out = <<>> /\ \A i \in (Len(h) + 1)..Len(h2) : h2[i].path # p
       \/ \E k \in (Len(h) + 1)..Len(h2) :
             /\ out = <<h2[k]>>
             /\ \A i \in (Len(h) + 1)..Len(h2) : h2[i].path = p => i = k

\* Packets that are no tail blocks of p do not change what is reached.
LEMMA MorePackets ==
    ASSUME NEW h, NEW h2, NEW p, NEW n \in Nat, NEW n2 \in Nat, n <= n2,
           \A i \in 1..n : h2[i] = h[i],
           \A i \in (n + 1)..n2 : ~TailAt(h2, i, p)
    PROVE  /\ NoTail(h, n, p) => NoTail(h2, n2, p)
           /\ \A src, copy, x : Reached(h, n, p, src, copy, x) =>
                                   Reached(h2, n2, p, src, copy, x)
  <1>1. \A i \in 1..n : TailAt(h2, i, p) <=> TailAt(h, i, p)
    BY DEF TailAt
  <1>2. \A i \in 1..n2 : i \in 1..n \/ i \in (n + 1)..n2
    OBVIOUS
  <1>3. NoTail(h, n, p) => NoTail(h2, n2, p)
    BY <1>1, <1>2 DEF NoTail
  <1>4. ASSUME NEW x, LastTail(h, n, p, x) PROVE LastTail(h2, n2, p, x)
    <2>1. PICK j \in 1..n : TailAt(h, j, p) /\ EndOf(h[j]) = x
                            /\ \A k \in (j + 1)..n : ~TailAt(h, k, p)
      BY <1>4 DEF LastTail
    <2>2. j \in 1..n2 /\ TailAt(h2, j, p) /\ EndOf(h2[j]) = x
      BY <1>1, <2>1
    <2>3. ASSUME NEW k \in (j + 1)..n2 PROVE ~TailAt(h2, k, p)
      <3>1. CASE k \in (j + 1)..n
        <4>1. k \in 1..n
          BY <2>1, <3>1
        <4> QED BY <1>1, <2>1, <3>1, <4>1
      <3>2. CASE k \notin (j + 1)..n
        <4>1. k \in (n + 1)..n2
          BY <2>1, <3>2
        <4> QED BY <4>1
      <3> QED BY <3>1, <3>2
    <2> QED BY <2>2, <2>3 DEF LastTail
  <1> QED BY <1>3, <1>4 DEF Reached

\* Nothing about p is added, or a poll adds one packet of p: the path stays in order.
LEMMA PathPolled ==
    ASSUME NEW h \in Seq(ToHost), NEW h2 \in Seq(ToHost), NEW t \in Seq(ToTailer), NEW p,
           NEW src \in Contents(MaxLen), NEW copy, NEW c \in CpsType, NEW r,
           Polled(c, r, src, p), Added(h, h2, p, r.out),
           PathOK(h, t, p, src, copy, c)
    PROVE  PathOK(h2, t, p, src, copy, r.cps)
  <1> DEFINE d == r.cps
             L == Len(h)
             L2 == Len(h2)
  <1>1. L \in Nat /\ L2 \in Nat /\ L <= L2 /\ \A i \in 1..L : h2[i] = h[i]
    BY DEF Added, Extends
  <1>2. /\ d \in CpsType /\ d.last <= Len(src) /\ d # NoPath /\ c # NoPath
        /\ c.offset \in Int /\ d.offset \in Int /\ Len(src) \in Nat /\ c.offset >= -1
    BY CpsFields, CopyType, TailerAssumption DEF Polled
  <1>3. /\ TailsRight(h, p, src, copy) /\ OffsetRight(h, p, src, copy, c)
        /\ OneOffer(h, t, p) /\ OfferRight(h, p, src, c)
        /\ AnswerRight(t, p, src, copy, c)
        /\ c.state \in {"INIT", "OFFERED"} => NoTail(h, L, p)
    BY <1>2 DEF PathOK
  <1> HIDE DEF L, L2, d
  <1>4. \A i \in 1..L2 : i \in 1..L \/ i \in (L + 1)..L2
    BY <1>1
  <1>5. \A i \in 1..L : /\ i \in 1..L2 /\ h2[i] = h[i]
                        /\ TailAt(h2, i, p) <=> TailAt(h, i, p)
                        /\ OfferAt(h2, i, p) <=> OfferAt(h, i, p)
    BY <1>1 DEF TailAt, OfferAt
  \* The tail blocks that were there are as right as they were.
  <1>6. ASSUME NEW i \in 1..L, TailAt(h2, i, p)
        PROVE  /\ Genuine(h2[i], src)
               /\ \/ h2[i].offset = 0 /\ NoTail(h2, i - 1, p)
                  \/ Reached(h2, i - 1, p, src, copy, h2[i].offset)
    <2>1. /\ Genuine(h[i], src)
          /\ \/ h[i].offset = 0 /\ NoTail(h, i - 1, p)
             \/ Reached(h, i - 1, p, src, copy, h[i].offset)
      BY <1>3, <1>5, <1>6 DEF TailsRight, L
    <2>2. /\ i - 1 \in Nat /\ i - 1 <= i - 1 /\ \A j \in 1..(i - 1) : h2[j] = h[j]
          /\ \A j \in (i - 1 + 1)..(i - 1) : ~TailAt(h2, j, p)
      BY <1>1
    <2>3. /\ NoTail(h, i - 1, p) => NoTail(h2, i - 1, p)
          /\ \A x : Reached(h, i - 1, p, src, copy, x) => Reached(h2, i - 1, p, src, copy, x)
      BY <2>2, MorePackets
    <2> QED BY <1>5, <2>1, <2>3
  \* What is reached at the end of h is reached at any later place before a tail block.
  <1>7. ASSUME NEW n \in Nat, L <= n, \A j \in (L + 1)..n : ~TailAt(h2, j, p)
        PROVE  /\ NoTail(h, L, p) => NoTail(h2, n, p)
               /\ \A x : Reached(h, L, p, src, copy, x) => Reached(h2, n, p, src, copy, x)
    BY <1>1, <1>7, MorePackets
  \* There is no offer, and no answer, unless the state is OFFERED.
  <1>8. c.state # "OFFERED" =>
           /\ \A i \in 1..L : ~OfferAt(h2, i, p)
           /\ \A i \in 1..Len(t) : ~AnswerAt(t, i, p)
    BY <1>3, <1>5 DEF OfferRight, AnswerRight, L
  <1>9. CASE Quieted(c, d) /\ \A i \in (L + 1)..L2 : h2[i].path # p
    <2>1. \A i \in (L + 1)..L2 : ~TailAt(h2, i, p) /\ ~OfferAt(h2, i, p)
      BY <1>9 DEF TailAt, OfferAt
    <2>2. /\ NoTail(h, L, p) => NoTail(h2, L2, p)
          /\ \A x : Reached(h, L, p, src, copy, x) => Reached(h2, L2, p, src, copy, x)
      BY <1>1, <1>7, <2>1
    <2>3. TailsRight(h2, p, src, copy)
      BY <1>4, <1>6, <2>1 DEF TailsRight, L2
    <2>4. OffsetRight(h2, p, src, copy, d)
      BY <1>2, <1>3, <1>9, <2>2 DEF OffsetRight, Quieted, L, L2, d
    <2>5. OneOffer(h2, t, p)
      BY <1>3, <1>4, <1>5, <2>1 DEF OneOffer, L, L2
    <2>6. OfferRight(h2, p, src, d)
      BY <1>3, <1>4, <1>5, <1>9, <2>1 DEF OfferRight, StartOf, Quieted, L, L2
    <2>7. AnswerRight(t, p, src, copy, d)
      BY <1>3, <1>9 DEF AnswerRight, Quieted
    <2> QED BY <1>2, <1>3, <1>9, <2>2, <2>3, <2>4, <2>5, <2>6, <2>7
            DEF PathOK, Quieted, L2, d
  <1>10. ASSUME NEW k \in (L + 1)..L2, \A i \in (L + 1)..L2 : h2[i].path = p => i = k,
                h2[k].path = p,
                \/ Offered(c, d, src, h2[k]) \/ Sent(c, d, src, h2[k])
                \/ Reported(c, d, src, h2[k])
         PROVE  PathOK(h2, t, p, src, copy, d)
    <2> DEFINE b == h2[k]
    <2>1. c.state # "OFFERED"
      BY <1>10 DEF Offered, Sent, Reported
    <2>2. /\ \A i \in 1..L : ~OfferAt(h2, i, p)
          /\ \A i \in 1..Len(t) : ~AnswerAt(t, i, p)
      BY <1>8, <2>1
    <2>3. /\ k \in Nat /\ k - 1 \in Nat /\ L <= k - 1 /\ k \in 1..L2
          /\ \A j \in (L + 1)..(k - 1) : j \in (L + 1)..L2 /\ j # k
          /\ \A j \in (k + 1)..L2 : j \in (L + 1)..L2 /\ j # k
      BY <1>1
    <2>4. \A i \in (L + 1)..L2 : i # k => ~TailAt(h2, i, p) /\ ~OfferAt(h2, i, p)
      BY <1>10 DEF TailAt, OfferAt
    <2>5. \A i \in 1..L2 : OfferAt(h2, i, p) => i = k
      BY <1>4, <2>2, <2>4
    <2>6. OneOffer(h2, t, p)
      BY <2>2, <2>5 DEF OneOffer, L2
    <2>7. AnswerRight(t, p, src, copy, d)
      BY <2>2 DEF AnswerRight
    <2>8. CASE h2[k].type # "TAIL"
      <3>1. \A i \in (L + 1)..L2 : ~TailAt(h2, i, p)
        BY <2>4, <2>8 DEF TailAt
      <3>2. /\ NoTail(h, L, p) => NoTail(h2, L2, p)
            /\ \A x : Reached(h, L, p, src, copy, x) => Reached(h2, L2, p, src, copy, x)
        BY <1>1, <1>7, <3>1
      <3>3. TailsRight(h2, p, src, copy)
        BY <1>4, <1>6, <3>1 DEF TailsRight, L2
      <3>4. d.offset = c.offset
        BY <1>10, <2>8 DEF Offered, Sent, Reported
      <3>5. OffsetRight(h2, p, src, copy, d)
        BY <1>2, <1>3, <3>2, <3>4 DEF OffsetRight, L, L2, d
      <3>6. CASE h2[k].type = "OFFER"
        <4>1. Offered(c, d, src, h2[k])
          BY <1>10, <3>6 DEF Sent, Reported
        <4>2. OfferRight(h2, p, src, d)
          BY <2>5, <3>4, <4>1 DEF OfferRight, Offered, StartOf, L2
        <4>3. NoTail(h2, L2, p)
          BY <1>3, <3>2, <4>1 DEF Offered
        <4> QED BY <1>2, <2>6, <2>7, <3>3, <3>5, <4>2, <4>3 DEF PathOK, L2
      <3>7. CASE h2[k].type # "OFFER"
        <4>1. Reported(c, d, src, h2[k])
          BY <1>10, <2>8, <3>7 DEF Offered, Sent
        <4>2. OfferRight(h2, p, src, d)
          BY <2>5, <3>7 DEF OfferRight, OfferAt, L2
        <4>3. d.state = "SYNCED"
          BY <4>1 DEF Reported
        <4> QED BY <1>2, <2>6, <2>7, <3>3, <3>5, <4>2, <4>3 DEF PathOK, L2
      <3> QED BY <3>6, <3>7
    <2>9. CASE h2[k].type = "TAIL"
      <3>1. Sent(c, d, src, h2[k])
        BY <1>10, <2>9 DEF Offered, Reported
      <3>2. /\ NoTail(h, L, p) => NoTail(h2, k - 1, p)
            /\ \A x : Reached(h, L, p, src, copy, x) => Reached(h2, k - 1, p, src, copy, x)
        BY <1>7, <2>3, <2>4
      <3>3. Genuine(h2[k], src)
        BY <3>1 DEF Sent
      <3>4. \/ h2[k].offset = 0 /\ NoTail(h2, k - 1, p)
            \/ Reached(h2, k - 1, p, src, copy, h2[k].offset)
        <4>1. CASE c.offset >= 0
          <5>1. h2[k].offset = c.offset
            BY <1>2, <3>1, <4>1 DEF Sent, StartOf
          <5>2. Reached(h, L, p, src, copy, c.offset)
            BY <1>3, <4>1 DEF OffsetRight, L
          <5> QED BY <3>2, <5>1, <5>2
        <4>2. CASE ~(c.offset >= 0)
          <5>1. h2[k].offset = 0
            BY <1>2, <3>1, <4>2 DEF Sent, StartOf
          <5>2. NoTail(h, L, p)
            BY <1>3, <4>2 DEF OffsetRight, L
          <5> QED BY <3>2, <5>1, <5>2
        <4> QED BY <4>1, <4>2
      <3>5. TailsRight(h2, p, src, copy)
        <4> SUFFICES ASSUME NEW i \in 1..L2, TailAt(h2, i, p)
                     PROVE  /\ Genuine(h2[i], src)
                            /\ \/ h2[i].offset = 0 /\ NoTail(h2, i - 1, p)
                               \/ Reached(h2, i - 1, p, src, copy, h2[i].offset)
          BY DEF TailsRight, L2
        <4>1. CASE i \in 1..L
          BY <1>6, <4>1
        <4>2. CASE i \notin 1..L
          <5>1. i = k
            BY <1>4, <2>4, <4>2
          <5> QED BY <3>3, <3>4, <5>1
        <4> QED BY <4>1, <4>2
      <3>6. LastTail(h2, L2, p, EndOf(h2[k]))
        <4>1. TailAt(h2, k, p) /\ k \in 1..L2
          BY <1>10, <2>3, <2>9 DEF TailAt
        <4>2. ASSUME NEW j \in (k + 1)..L2 PROVE ~TailAt(h2, j, p)
          <5>1. j \in (L + 1)..L2 /\ j # k
            BY <2>3
          <5> QED BY <2>4, <5>1
        <4> QED BY <4>1, <4>2 DEF LastTail
      <3>7. d.offset = EndOf(h2[k]) /\ d.state = "TAILING"
        BY <3>1 DEF Sent
      <3>8. d.offset <= Len(src) /\ d.offset >= 0
        <4>1. EndOf(h2[k]) <= Len(src)
          BY <3>3 DEF Genuine
        <4>2. h2[k] \in ToHost
          BY <2>3 DEF L2
        <4>3. EndOf(h2[k]) \in Nat
          BY <2>9, <4>2, BlockType
        <4> QED BY <3>7, <4>1, <4>3
      <3>9. OffsetRight(h2, p, src, copy, d)
        BY <1>2, <3>6, <3>7, <3>8 DEF OffsetRight, Reached, L2, d
      <3>10. OfferRight(h2, p, src, d)
        BY <2>5, <2>9 DEF OfferRight, OfferAt, L2
      <3> QED BY <1>2, <2>6, <2>7, <3>5, <3>7, <3>9, <3>10 DEF PathOK
    <2> QED BY <2>8, <2>9
  <1>11. CASE r.out = <<>> /\ \A i \in (L + 1)..L2 : h2[i].path # p
    <2>1. Quieted(c, d)
      BY <1>11 DEF Polled, d
    <2> QED BY <1>9, <1>11, <2>1 DEF d
  <1>12. ASSUME NEW k \in (L + 1)..L2, r.out = <<h2[k]>>,
                \A i \in (L + 1)..L2 : h2[i].path = p => i = k
         PROVE  PathOK(h2, t, p, src, copy, d)
    <2>1. PICK b \in ToHost :
             /\ r.out = <<b>> /\ b.path = p
             /\ \/ Offered(c, d, src, b) \/ Sent(c, d, src, b) \/ Reported(c, d, src, b)
      BY <1>12 DEF Polled, d
    <2>2. b = h2[k]
      BY <1>12, <2>1
    <2> QED BY <1>10, <1>12, <2>1, <2>2
  <1> QED BY <1>11, <1>12 DEF Added, L, L2, d

\* A path that is not open adds nothing.
LEMMA PathClosed ==
    ASSUME NEW h \in Seq(ToHost), NEW h2 \in Seq(ToHost), NEW t, NEW p, NEW src, NEW copy,
           Added(h, h2, p, <<>>),
           PathOK(h, t, p, src, copy, NoPath)
    PROVE  PathOK(h2, t, p, src, copy, NoPath)
  <1>1. Len(h) \in Nat /\ Len(h2) \in Nat /\ \A i \in 1..Len(h) : h2[i] = h[i]
    BY DEF Added, Extends
  <1>2. \A i \in (Len(h) + 1)..Len(h2) : h2[i].path # p
    <2>1. \A k : <<>> # <<h2[k]>>
      OBVIOUS
    <2> QED BY <2>1 DEF Added
  <1>3. \A i \in 1..Len(h2) : i \in 1..Len(h) \/ i \in (Len(h) + 1)..Len(h2)
    BY <1>1
  <1>4. Silent(h, t, p)
    BY DEF PathOK
  <1>5. ASSUME NEW i \in 1..Len(h2) PROVE ~TailAt(h2, i, p) /\ ~OfferAt(h2, i, p)
    <2>1. CASE i \in 1..Len(h)
      BY <1>1, <1>4, <2>1 DEF Silent, TailAt, OfferAt
    <2>2. CASE i \in (Len(h) + 1)..Len(h2)
      BY <1>2, <2>2 DEF TailAt, OfferAt
    <2> QED BY <1>3, <2>1, <2>2
  <1> QED BY <1>4, <1>5 DEF Silent, PathOK

\* A poll of a file that was not replaced gives no error.
LEMMA NoErrorPolled ==
    ASSUME NEW h \in Seq(ToHost), NEW h2 \in Seq(ToHost), NEW p, NEW src,
           NEW c, NEW r, c # NoPath => Polled(c, r, src, p),
           Added(h, h2, p, IF c = NoPath THEN <<>> ELSE r.out),
           NoError(h, p)
    PROVE  NoError(h2, p)
  <1> DEFINE L == Len(h)
             L2 == Len(h2)
  <1>1. L \in Nat /\ L2 \in Nat /\ L <= L2 /\ \A i \in 1..L : h2[i] = h[i]
    BY DEF Added, Extends
  <1>2. \A i \in 1..L2 : i \in 1..L \/ i \in (L + 1)..L2
    BY <1>1
  <1> SUFFICES ASSUME NEW i \in 1..L2, h2[i].path = p PROVE h2[i].type # "ERROR"
    BY DEF NoError
  <1>3. CASE i \in 1..L
    BY <1>1, <1>3 DEF NoError
  <1>4. CASE i \in (L + 1)..L2
    <2>1. PICK k \in (L + 1)..L2 :
             /\ (IF c = NoPath THEN <<>> ELSE r.out) = <<h2[k]>>
             /\ \A j \in (L + 1)..L2 : h2[j].path = p => j = k
      BY <1>4 DEF Added
    <2>2. c # NoPath /\ r.out = <<h2[k]>> /\ i = k
      BY <1>4, <2>1
    <2>3. PICK b \in ToHost :
             /\ r.out = <<b>>
             /\ \/ Offered(c, r.cps, src, b) \/ Sent(c, r.cps, src, b)
                \/ Reported(c, r.cps, src, b)
      <3>1. r.out # <<>>
        BY <2>2
      <3> QED BY <2>2, <3>1 DEF Polled
    <2>4. b = h2[i]
      BY <2>2, <2>3
    <2> QED BY <2>3, <2>4 DEF Offered, Sent, Reported
  <1> QED BY <1>2, <1>3, <1>4

\* Packets g are added to a pipe.
LEMMA AddPackets ==
    ASSUME NEW h \in Seq(ToHost), NEW g \in Seq(ToHost)
    PROVE  /\ h \o g \in Seq(ToHost)
           /\ \A p : (\A i \in 1..Len(g) : g[i].path # p) => Added(h, h \o g, p, <<>>)
           /\ \A p : \A j \in 1..Len(g) :
                 (\A i \in 1..Len(g) : g[i].path = p => i = j)
                    => Added(h, h \o g, p, <<g[j]>>)
  <1> DEFINE L == Len(h)
             N == Len(g)
             h2 == h \o g
  <1>1. /\ h2 \in Seq(ToHost) /\ Len(h2) = L + N /\ L \in Nat /\ N \in Nat
        /\ \A i \in 1..L : h2[i] = h[i]
        /\ \A i \in (L + 1)..(L + N) : h2[i] = g[i - L]
    BY JoinSeq
  <1> HIDE DEF h2, L, N
  <1>2. Extends(h, h2)
    BY <1>1 DEF Extends, L
  <1>3. ASSUME NEW i \in (L + 1)..Len(h2)
        PROVE  i - L \in 1..N /\ h2[i] = g[i - L]
    <2>1. i - L \in 1..N /\ i \in (L + 1)..(L + N)
      BY <1>1
    <2> QED BY <1>1, <2>1
  <1>4. ASSUME NEW p, \A i \in 1..N : g[i].path # p PROVE Added(h, h2, p, <<>>)
    <2>1. \A i \in (L + 1)..Len(h2) : h2[i].path # p
      BY <1>3, <1>4
    <2> QED BY <1>2, <2>1 DEF Added, L
  <1>5. ASSUME NEW p, NEW j \in 1..N, \A i \in 1..N : g[i].path = p => i = j
        PROVE  Added(h, h2, p, <<g[j]>>)
    <2> DEFINE k == j + L
    <2>1. k \in (L + 1)..Len(h2) /\ k - L = j
      BY <1>1
    <2> HIDE DEF k
    <2>2. h2[k] = g[j]
      BY <1>3, <2>1
    <2>3. ASSUME NEW i \in (L + 1)..Len(h2), h2[i].path = p PROVE i = k
      <3>1. i - L = j
        BY <1>3, <1>5, <2>3
      <3>2. i \in Int /\ k \in Int
        BY <2>1
      <3> QED BY <1>1, <2>1, <3>1, <3>2
    <2>4. \E m \in (Len(h) + 1)..Len(h2) :
             /\ <<g[j]>> = <<h2[m]>>
             /\ \A i \in (Len(h) + 1)..Len(h2) : h2[i].path = p => i = m
      BY <2>1, <2>2, <2>3 DEF L
    <2> QED BY <1>2, <2>4 DEF Added
  <1> QED BY <1>1, <1>4, <1>5 DEF h2, N

\* The new packets g of a poll are those of the open paths; one that is the only
\* one of its path is there once.
NewsOf(g, N, open, outs) ==
    /\ g \in Seq(ToHost) /\ Len(g) = N
    /\ \A i \in 1..N : g[i].path \in open /\ Len(outs[g[i].path]) # 0
    /\ \A p \in open : Len(outs[p]) = 1 =>
          \E j \in 1..N : /\ outs[p] = <<g[j]>>
                          /\ \A i \in 1..N : g[i].path = p => i = j

LEMMA NewPackets ==
    ASSUME NEW open, NEW outs \in [open -> Seq(ToHost)],
           \A q \in open : \A i \in 1..Len(outs[q]) : outs[q][i].path = q,
           NEW new, \A m : m \in new <=> m \in open \X (1..2) /\ m[2] <= Len(outs[m[1]]),
           NEW N \in Nat, NEW f \in Bijection(1..N, new), NEW g, NEW T, g \in [1..N -> T],
           \A i \in 1..N : g[i] = outs[f[i][1]][f[i][2]]
    PROVE  NewsOf(g, N, open, outs)
  <1>1. /\ f \in [1..N -> new]
        /\ \A i, j \in 1..N : f[i] = f[j] => i = j
        /\ \A m \in new : \E i \in 1..N : f[i] = m
    BY DEF Bijection, Injection, Surjection, IsInjective
  <1>2. ASSUME NEW i \in 1..N
        PROVE  /\ f[i][1] \in open /\ f[i][2] \in 1..Len(outs[f[i][1]])
               /\ f[i] = <<f[i][1], f[i][2]>>
               /\ g[i] = outs[f[i][1]][f[i][2]]
               /\ g[i] \in ToHost /\ g[i].path = f[i][1]
    <2>1. f[i] \in open \X (1..2) /\ f[i][2] <= Len(outs[f[i][1]])
      BY <1>1
    <2>2. /\ f[i][1] \in open /\ f[i][2] \in 1..2 /\ f[i] = <<f[i][1], f[i][2]>>
      BY <2>1
    <2>3. outs[f[i][1]] \in Seq(ToHost)
      BY <2>2
    <2>4. f[i][2] \in 1..Len(outs[f[i][1]])
      BY <2>1, <2>2, <2>3
    <2>5. g[i] = outs[f[i][1]][f[i][2]]
      OBVIOUS
    <2> QED BY <2>2, <2>3, <2>4, <2>5
  <1>3. g \in [1..N -> ToHost]
    BY <1>2
  <1>4. g \in Seq(ToHost) /\ Len(g) = N
    BY <1>3, MakeSeq
  <1>5. ASSUME NEW i \in 1..N PROVE g[i].path \in open /\ Len(outs[g[i].path]) # 0
    BY <1>2
  <1>6. ASSUME NEW p \in open, Len(outs[p]) = 1
        PROVE  \E j \in 1..N : /\ outs[p] = <<g[j]>>
                               /\ \A i \in 1..N : g[i].path = p => i = j
    <2>1. outs[p] \in Seq(ToHost)
      OBVIOUS
    <2>2. outs[p] = <<outs[p][1]>>
      BY <1>6, <2>1
    <2>3. <<p, 1>> \in new
      <3> DEFINE m == <<p, 1>>
      <3>1. m \in open \X (1..2) /\ m[1] = p /\ m[2] = 1
        OBVIOUS
      <3> HIDE DEF m
      <3>2. m[2] <= Len(outs[m[1]])
        <4>1. outs[m[1]] = outs[p]
          BY <3>1
        <4>2. Len(outs[m[1]]) = 1
          BY <1>6, <4>1
        <4> QED BY <3>1, <4>2
      <3> QED BY <3>1, <3>2 DEF m
    <2>4. PICK j \in 1..N : f[j] = <<p, 1>>
      BY <1>1, <2>3
    <2>5. g[j] = outs[p][1]
      BY <1>2, <2>4
    <2>6. ASSUME NEW i \in 1..N, g[i].path = p PROVE i = j
      <3>1. f[i][1] = p /\ f[i][2] \in 1..1 /\ f[i] = <<f[i][1], f[i][2]>>
        BY <1>2, <1>6, <2>6
      <3>2. f[i][2] = 1
        BY <3>1
      <3>3. f[i] = f[j]
        BY <2>4, <3>1, <3>2
      <3> QED BY <1>1, <3>3
    <2>7. outs[p] = <<g[j]>>
      BY <2>2, <2>5
    <2> QED BY <2>6, <2>7
  <1> QED BY <1>4, <1>5, <1>6 DEF NewsOf

\* What a poll leaves: PollOK says it of the state d and the pipe h2 afterwards.
PollOK(table, d, h, h2) ==
    /\ h2 \in Seq(ToHost) /\ d \in [Paths -> CpsType \union {NoPath}]
    /\ \A p \in Paths :
          IF table[p] = NoPath THEN d[p] = NoPath /\ Added(h, h2, p, <<>>)
          ELSE /\ d[p] = poll_file(table[p], p).cps
               /\ Len(poll_file(table[p], p).out) <= 1 =>
                     Added(h, h2, p, poll_file(table[p], p).out)

LEMMA PollPaths ==
    ASSUME NEW table \in [Paths -> CpsType \union {NoPath}],
           remote \in [Paths -> Contents(MaxLen) \union {NoFile}], toHost \in Seq(ToHost),
           poll_paths(table)
    PROVE  PollOK(table, cps', toHost, toHost')
  <1> DEFINE open == {p \in Paths : table[p] # NoPath}
             r    == [p \in open |-> poll_file(table[p], p)]
             new  == {m \in open \X (1..2) : m[2] <= Len(r[m[1]].out)}
             outs == [p \in open |-> r[p].out]
             N    == Cardinality(new)
  <1>1. PICK f \in Bijection(1..N, new) :
           toHost' = toHost \o [i \in DOMAIN f |-> r[f[i][1]].out[f[i][2]]]
    BY DEF poll_paths
  <1>2. cps' = [p \in Paths |-> IF p \in open THEN r[p].cps ELSE NoPath]
    BY DEF poll_paths
  <1>3. \A p \in open : table[p] \in CpsType /\ p \in Paths
                        /\ remote[p] \in Contents(MaxLen) \union {NoFile}
    OBVIOUS
  <1>4. \A p \in open : /\ r[p] = poll_file(table[p], p)
                        /\ r[p].cps \in CpsType /\ r[p].out \in Seq(ToHost)
                        /\ \A i \in 1..Len(r[p].out) : r[p].out[i].path = p
    BY <1>3, PollType
  <1>5. N \in Nat
    <2>1. IsFiniteSet(open)
      BY TailerAssumption, FS_Subset
    <2>2. IsFiniteSet(1..2)
      <3>1. 1 \in Int /\ 2 \in Int
        OBVIOUS
      <3> QED BY <3>1, FS_Interval
    <2>3. IsFiniteSet(open \X (1..2))
      BY <2>1, <2>2, FS_Product
    <2>4. IsFiniteSet(new)
      BY <2>3, FS_Subset
    <2> HIDE DEF new
    <2> QED BY <2>4, FS_CardinalityType
  <1>6. \A p \in Paths : p \in open <=> table[p] # NoPath
    OBVIOUS
  <1> HIDE DEF open, r
  <1>7. outs \in [open -> Seq(ToHost)] /\ \A p \in open : outs[p] = r[p].out
    BY <1>4
  <1>8. \A m : m \in new <=> m \in open \X (1..2) /\ m[2] <= Len(outs[m[1]])
    <2>1. \A m \in open \X (1..2) : outs[m[1]] = r[m[1]].out
      BY <1>7
    <2> HIDE DEF outs
    <2> QED BY <2>1
  <1> HIDE DEF outs, N, new
  <1>9. f \in Bijection(1..N, new)
    OBVIOUS
  <1>10. f \in [1..N -> open \X (1..2)] /\ DOMAIN f = 1..N
    <2>1. f \in [1..N -> new]
      BY <1>9 DEF Bijection, Injection
    <2> QED BY <1>8, <2>1
  <1> DEFINE g == [i \in 1..N |-> outs[f[i][1]][f[i][2]]]
  <1>11. toHost' = toHost \o g
    <2>1. \A i \in 1..N : outs[f[i][1]] = r[f[i][1]].out
      BY <1>7, <1>10
    <2>2. [i \in DOMAIN f |-> r[f[i][1]].out[f[i][2]]] = g
      BY <1>10, <2>1
    <2> QED BY <1>1, <2>2
  <1>12. \A q \in open : \A i \in 1..Len(outs[q]) : outs[q][i].path = q
    BY <1>4, <1>7
  <1>news. g \in [1..N -> {g[i] : i \in 1..N}] /\ \A i \in 1..N : g[i] = outs[f[i][1]][f[i][2]]
    OBVIOUS
  <1> HIDE DEF g
  <1>13. /\ g \in Seq(ToHost) /\ Len(g) = N
         /\ \A i \in 1..N : g[i].path \in open /\ Len(outs[g[i].path]) # 0
         /\ \A p \in open : Len(outs[p]) = 1 =>
               \E j \in 1..N : /\ outs[p] = <<g[j]>>
                               /\ \A i \in 1..N : g[i].path = p => i = j
    <2>1. NewsOf(g, N, open, outs)
      BY <1>5, <1>7, <1>8, <1>9, <1>12, <1>news, NewPackets
    <2> QED BY <2>1 DEF NewsOf
  <1>14. /\ toHost' \in Seq(ToHost)
         /\ \A p : (\A i \in 1..N : g[i].path # p) => Added(toHost, toHost', p, <<>>)
         /\ \A p : \A j \in 1..N :
               (\A i \in 1..N : g[i].path = p => i = j)
                  => Added(toHost, toHost', p, <<g[j]>>)
    BY <1>11, <1>13, AddPackets
  <1>15. cps' \in [Paths -> CpsType \union {NoPath}]
    BY <1>2, <1>4
  <1>16. ASSUME NEW p \in Paths, table[p] = NoPath
         PROVE  cps'[p] = NoPath /\ Added(toHost, toHost', p, <<>>)
    BY <1>2, <1>6, <1>13, <1>14, <1>16
  <1>17. ASSUME NEW p \in Paths, table[p] # NoPath
         PROVE  /\ cps'[p] = poll_file(table[p], p).cps
                /\ Len(poll_file(table[p], p).out) <= 1 =>
                      Added(toHost, toHost', p, poll_file(table[p], p).out)
    <2>1. p \in open /\ outs[p] = poll_file(table[p], p).out /\ outs[p] \in Seq(ToHost)
      BY <1>4, <1>6, <1>7, <1>17
    <2>2. cps'[p] = poll_file(table[p], p).cps
      BY <1>2, <1>4, <2>1
    <2>3. CASE Len(outs[p]) = 0
      <3>1. outs[p] = <<>>
        BY <2>1, <2>3
      <3>2. Added(toHost, toHost', p, <<>>)
        BY <1>13, <1>14, <2>3
      <3> QED BY <2>1, <2>2, <3>1, <3>2
    <2>4. CASE Len(outs[p]) = 1
      <3>1. PICK j \in 1..N : /\ outs[p] = <<g[j]>>
                              /\ \A i \in 1..N : g[i].path = p => i = j
        BY <1>13, <2>1, <2>4
      <3>2. Added(toHost, toHost', p, <<g[j]>>)
        BY <1>14, <3>1
      <3> QED BY <2>1, <2>2, <3>1, <3>2
    <2>5. Len(outs[p]) \in Nat
      BY <2>1
    <2>6. Len(outs[p]) <= 1 => Len(outs[p]) = 0 \/ Len(outs[p]) = 1
      <3> DEFINE n == Len(outs[p])
      <3>1. n \in Nat
        BY <2>5
      <3> HIDE DEF n
      <3>2. n <= 1 => n = 0 \/ n = 1
        BY <3>1
      <3> QED BY <3>2 DEF n
    <2> QED BY <2>1, <2>2, <2>3, <2>4, <2>6
  <1> QED BY <1>14, <1>15, <1>16, <1>17 DEF PollOK
-----------------------------------------------------------------------------
(* Type correctness.                                                       *)

\* handle_packet() changes the state of one path.
LEMMA HandleTable ==
    ASSUME cps \in [Paths -> CpsType \union {NoPath}], NEW m \in ToTailer
    PROVE  /\ handle_packet(m) \in [Paths -> CpsType \union {NoPath}]
           /\ \A q \in Paths : handle_packet(m)[q] =
                 IF m.path = q THEN Handled(cps[q], m) ELSE cps[q]
  <1>1. m.path \in Paths
    BY AnswerType
  <1>2. cps[m.path] \in CpsType \union {NoPath}
    BY <1>1
  <1> DEFINE d == Handled(cps[m.path], m)
  <1>3. handle_packet(m) = [cps EXCEPT ![m.path] = d]
    BY DEF handle_packet, Handled
  <1>4. d \in CpsType \union {NoPath}
    BY <1>2, HandledType
  <1>5. \A q \in Paths : m.path = q => d = Handled(cps[q], m)
    OBVIOUS
  <1> HIDE DEF d
  <1> QED BY <1>1, <1>3, <1>4, <1>5

LEMMA TypeInit == Init => TypeOK
  <1> SUFFICES ASSUME Init PROVE TypeOK
    OBVIOUS
  <1> USE DEF Init
  <1>1. remote \in [Paths -> Contents(MaxLen) \union {NoFile}]
    OBVIOUS
  <1>2. local \in [Paths -> Copies \union {NoFile}]
    <2>1. \A s \in Contents(MaxLen) : s \in Copies
      <3>1. \A s \in Seq(Blocks) : s \in Seq(Blocks \union {Hole})
        OBVIOUS
      <3> QED BY <3>1, ContentsSeq, CopiesSeq
    <2> QED BY <2>1
  <1>3. cps \in [Paths -> CpsType \union {NoPath}]
    OBVIOUS
  <1>4. toTailer \in Seq(ToTailer) /\ toHost \in Seq(ToHost)
    OBVIOUS
  <1>5. ops \in 0..MaxOps /\ conns \in 0..MaxConns
    BY TailerAssumption
  <1>6. due \in [Paths -> 0..MaxLen]
    <2>1. 0 \in 0..MaxLen
      BY TailerAssumption
    <2> QED BY <2>1
  <1> QED BY <1>1, <1>2, <1>3, <1>4, <1>5, <1>6 DEF TypeOK

LEMMA TypeTailerPacket == TypeOK /\ TailerPacket => TypeOK'
  <1> SUFFICES ASSUME TypeOK, TailerPacket PROVE TypeOK'
    OBVIOUS
  <1> DEFINE m == Head(toTailer)
             table == handle_packet(m)
  <1>1. /\ cps \in [Paths -> CpsType \union {NoPath}] /\ toTailer \in Seq(ToTailer)
        /\ remote \in [Paths -> Contents(MaxLen) \union {NoFile}] /\ toHost \in Seq(ToHost)
        /\ toTailer # <<>> /\ poll_paths(table) /\ toTailer' = Tail(toTailer)
    BY DEF TypeOK, TailerPacket
  <1>2. m \in ToTailer /\ toTailer' \in Seq(ToTailer)
    BY <1>1, TailFacts
  <1> HIDE DEF m
  <1>3. table \in [Paths -> CpsType \union {NoPath}]
    BY <1>1, <1>2, HandleTable
  <1> HIDE DEF table
  <1>4. toHost' \in Seq(ToHost) /\ cps' \in [Paths -> CpsType \union {NoPath}]
    BY <1>1, <1>3, PollPaths DEF PollOK
  <1> QED BY <1>2, <1>4 DEF TypeOK, TailerPacket, files, hostV, looperV, mainV, counters

LEMMA TypeTailerPoll == TypeOK /\ TailerPoll => TypeOK'
  <1> SUFFICES ASSUME TypeOK, TailerPoll PROVE TypeOK'
    OBVIOUS
  <1>1. /\ cps \in [Paths -> CpsType \union {NoPath}] /\ toTailer \in Seq(ToTailer)
        /\ remote \in [Paths -> Contents(MaxLen) \union {NoFile}] /\ toHost \in Seq(ToHost)
        /\ poll_paths(cps)
    BY DEF TypeOK, TailerPoll
  <1>2. toHost' \in Seq(ToHost) /\ cps' \in [Paths -> CpsType \union {NoPath}]
    BY <1>1, PollPaths DEF PollOK
  <1> QED BY <1>2 DEF TypeOK, TailerPoll, files, hostV, looperV, mainV, counters

\* The requests that open_remote_path() sends.
LEMMA OpenRequests ==
    ASSUME TypeOK, open_remote_path
    PROVE  /\ toTailer' \in Seq(ToTailer)
           /\ \A i \in 1..Len(toTailer') :
                 \/ i \in 1..Len(toTailer) /\ toTailer'[i] = toTailer[i]
                 \/ toTailer'[i].type = "OPEN" /\ toTailer'[i].path \in htOpen
  <1> DEFINE N == Cardinality(htOpen)
  <1>1. toTailer \in Seq(ToTailer) /\ htOpen \subseteq Paths
    BY DEF TypeOK
  <1>2. PICK f \in Bijection(1..N, htOpen) :
           toTailer' = toTailer \o [i \in DOMAIN f |-> [type |-> "OPEN", path |-> f[i]]]
    BY DEF open_remote_path
  <1>3. N \in Nat
    <2>1. IsFiniteSet(htOpen)
      BY <1>1, TailerAssumption, FS_Subset
    <2> QED BY <2>1, FS_CardinalityType
  <1> HIDE DEF N
  <1>4. f \in [1..N -> htOpen] /\ DOMAIN f = 1..N
    BY DEF Bijection, Injection
  <1> DEFINE g == [i \in 1..N |-> [type |-> "OPEN", path |-> f[i]]]
  <1>5. toTailer' = toTailer \o g
    BY <1>2, <1>4
  <1>6. \A i \in 1..N : g[i] \in ToTailer /\ g[i].type = "OPEN" /\ g[i].path \in htOpen
    BY <1>1, <1>4 DEF ToTailer
  <1>7. g \in [1..N -> ToTailer]
    BY <1>6
  <1> HIDE DEF g
  <1>8. g \in Seq(ToTailer) /\ Len(g) = N
    BY <1>3, <1>7, MakeSeq
  <1>9. /\ toTailer' \in Seq(ToTailer) /\ Len(toTailer') = Len(toTailer) + N
        /\ Len(toTailer) \in Nat
        /\ \A i \in 1..Len(toTailer) : toTailer'[i] = toTailer[i]
        /\ \A i \in (Len(toTailer) + 1)..(Len(toTailer) + N) :
              toTailer'[i] = g[i - Len(toTailer)]
    BY <1>1, <1>5, <1>8, JoinSeq
  <1>10. ASSUME NEW i \in 1..Len(toTailer'), i \notin 1..Len(toTailer)
         PROVE  toTailer'[i].type = "OPEN" /\ toTailer'[i].path \in htOpen
    <2>1. /\ i \in (Len(toTailer) + 1)..(Len(toTailer) + N)
          /\ i - Len(toTailer) \in 1..N
      BY <1>3, <1>9, <1>10
    <2> QED BY <1>6, <1>9, <2>1
  <1> QED BY <1>9, <1>10

LEMMA TypeOpen == TypeOK /\ open_remote_path => TypeOK'
  <1> SUFFICES ASSUME TypeOK, open_remote_path PROVE TypeOK'
    OBVIOUS
  <1>1. toTailer' \in Seq(ToTailer)
    BY OpenRequests
  <1> QED BY <1>1 DEF TypeOK, open_remote_path, files, tailerV, looperV, mainV, counters

\* The pipes after a packet is read, or the host is disconnected.
LEMMA TypeRead ==
    ASSUME TypeOK
    PROVE  /\ \A state : disconnect(state) =>
                 /\ up' \in BOOLEAN /\ cps' \in [Paths -> CpsType \union {NoPath}]
                 /\ toTailer' \in Seq(ToTailer) /\ toHost' \in Seq(ToHost) /\ ht' = state
           /\ toHost # <<>> /\ consume =>
                 /\ up' \in BOOLEAN /\ cps' \in [Paths -> CpsType \union {NoPath}]
                 /\ toTailer' \in Seq(ToTailer) /\ toHost' \in Seq(ToHost) /\ ht' = ht
           /\ toHost # <<>> => Head(toHost) \in ToHost /\ Tail(toHost) \in Seq(ToHost)
  <1>1. toTailer \in Seq(ToTailer) /\ toHost \in Seq(ToHost)
    BY DEF TypeOK
  <1>2. <<>> \in Seq(ToTailer) /\ <<>> \in Seq(ToHost)
    OBVIOUS
  <1>3. toHost # <<>> => Head(toHost) \in ToHost /\ Tail(toHost) \in Seq(ToHost)
    BY <1>1, TailFacts
  <1> QED BY <1>1, <1>2, <1>3 DEF TypeOK, disconnect, consume

\* Whatever is offered, the answer is a packet.
LEMMA AnswerIn ==
    ASSUME TypeOK, NEW m \in ToHost, m.type = "OFFER"
    PROVE  answer(m) \in ToTailer
  <1>1. /\ m.path \in Paths /\ m.offset \in Nat /\ Len(m.bits) \in Nat
        /\ m.offset + Len(m.bits) \in Nat /\ m.offset + Len(m.bits) <= MaxLen
    BY BlockType DEF EndOf
  <1>2. MaxLen \in Nat /\ local[m.path] \in Copies \union {NoFile}
    BY <1>1, TailerAssumption DEF TypeOK
  <1> DEFINE p == m.path
             end == m.offset + Len(m.bits)
             same == /\ end <= Len(local[p])
                     /\ SubSeq(local[p], m.offset + 1, end) = m.bits
             need == [type |-> "NEED", path |-> p]
             ack == [type |-> "ACK", path |-> p, offset |-> m.offset,
                     len |-> Len(m.bits), size |-> Len(local[p])]
  <1>3. answer(m) = IF local[p] = NoFile \/ Len(local[p]) = m.offset \/ ~same
                    THEN need ELSE ack
    BY DEF answer
  <1>4. need \in ToTailer
    BY <1>1 DEF ToTailer
  <1>5. ASSUME ~(local[p] = NoFile \/ Len(local[p]) = m.offset \/ ~same)
        PROVE  ack \in ToTailer
    <2>1. end <= Len(local[p])
      BY <1>5
    <2>2. /\ m.offset \in 0..MaxLen /\ Len(m.bits) \in 0..MaxLen
          /\ Len(local[p]) \in 0..MaxLen
      BY <1>1, <1>2, <1>5, CopyType, CopiesSeq
    <2>3. ack \in [type : {"ACK"}, path : Paths, offset : 0..MaxLen, len : 0..MaxLen,
                   size : 0..MaxLen]
      BY <1>1, <2>2
    <2>4. ack.offset + ack.len <= ack.size
      BY <2>1
    <2> HIDE DEF ack
    <2> QED BY <2>3, <2>4 DEF ToTailer
  <1> HIDE DEF need, ack, same
  <1> QED BY <1>3, <1>4, <1>5

LEMMA TypePackets ==
    /\ TypeOK /\ packet_eof => TypeOK'
    /\ TypeOK /\ packet_error => TypeOK'
    /\ TypeOK /\ packet_offer_block => TypeOK'
    /\ TypeOK /\ packet_tail_block => TypeOK'
    /\ TypeOK /\ packet_synced => TypeOK'
  <1>1. ASSUME TypeOK, packet_eof PROVE TypeOK'
    <2>1. disconnect("disconnected")
      BY <1>1 DEF packet_eof
    <2> QED BY <1>1, <2>1, TypeRead DEF TypeOK, packet_eof, files, looperV, mainV, counters
  <1>2. ASSUME TypeOK, packet_error PROVE TypeOK'
    <2> DEFINE p == Head(toHost).path
    <2>1. toHost # <<>> /\ Head(toHost) \in ToHost
      BY <1>2, TypeRead DEF packet_error, Next_is
    <2>2. p \in Paths
      BY <2>1, BlockType
    <2>3. disconnect("synced") \/ consume
      BY <1>2 DEF packet_error
    <2>4. /\ up' \in BOOLEAN /\ cps' \in [Paths -> CpsType \union {NoPath}]
          /\ toTailer' \in Seq(ToTailer) /\ toHost' \in Seq(ToHost)
          /\ ht' \in {"none", "connected", "disconnected", "synced"}
      BY <1>2, <2>1, <2>3, TypeRead DEF TypeOK
    <2>5. /\ stubs' \subseteq Paths /\ desired' \subseteq Paths
          /\ local' \in [Paths -> Copies \union {NoFile}]
      <3>1. /\ stubs' = IF p \in desired THEN stubs \union {p} ELSE stubs
            /\ desired' = IF follow THEN desired ELSE desired \ {p}
            /\ local' = [local EXCEPT ![p] = NoFile]
        BY <1>2 DEF packet_error
      <3> HIDE DEF p
      <3> QED BY <1>2, <2>2, <3>1 DEF TypeOK
    <2> QED BY <1>2, <2>4, <2>5 DEF TypeOK, packet_error, looperV, counters
  <1>3. ASSUME TypeOK, packet_offer_block PROVE TypeOK'
    <2> DEFINE m == Head(toHost)
    <2>1. /\ toHost # <<>> /\ m \in ToHost /\ m.type = "OFFER" /\ toHost' \in Seq(ToHost)
          /\ toTailer \in Seq(ToTailer)
      BY <1>3, TypeRead DEF packet_offer_block, Next_is, TypeOK
    <2>2. answer(m) \in ToTailer
      BY <1>3, <2>1, AnswerIn
    <2>3. /\ m.path \in desired => /\ toTailer' = IF up THEN Append(toTailer, answer(m)) ELSE <<>>
                                   /\ hostStub' = FALSE
          /\ m.path \notin desired => UNCHANGED <<toTailer, hostStub>>
      BY <1>3 DEF packet_offer_block
    <2> DEFINE a == answer(m)
    <2> HIDE DEF m, a
    <2>4. Append(toTailer, a) \in Seq(ToTailer) /\ <<>> \in Seq(ToTailer)
      BY <2>1, <2>2 DEF a
    <2>5. toTailer' \in Seq(ToTailer) /\ hostStub' \in BOOLEAN
      BY <1>3, <2>1, <2>3, <2>4 DEF TypeOK, a
    <2> QED BY <1>3, <2>1, <2>5
            DEF TypeOK, packet_offer_block, files, tailerV, hostV, looperV, counters
  <1>4. ASSUME TypeOK, packet_tail_block PROVE TypeOK'
    <2> DEFINE m == Head(toHost)
               old == IF local[m.path] = NoFile THEN <<>> ELSE local[m.path]
               new == Truncated(old, m.offset) \o m.bits
    <2>1. toHost # <<>> /\ m \in ToHost /\ m.type = "TAIL" /\ toHost' \in Seq(ToHost)
      BY <1>4, TypeRead DEF packet_tail_block, Next_is
    <2>2. m.path \in Paths
      BY <2>1, BlockType
    <2>3. local \in [Paths -> Copies \union {NoFile}]
      BY <1>4 DEF TypeOK
    <2>4. old \in Seq(Blocks \union {Hole})
      BY <2>2, <2>3, CopyType
    <2>5. local' = [local EXCEPT ![m.path] = new]
      BY <1>4 DEF packet_tail_block
    <2> HIDE DEF old, m
    <2>6. new \in Copies
      BY <2>1, <2>4, WriteBlock
    <2> HIDE DEF new
    <2>7. local' \in [Paths -> Copies \union {NoFile}]
      BY <2>2, <2>3, <2>5, <2>6
    <2> QED BY <1>4, <2>1, <2>7
            DEF TypeOK, packet_tail_block, tailerV, hostV, looperV, mainV, counters
  <1>5. ASSUME TypeOK, packet_synced PROVE TypeOK'
    <2> DEFINE p == Head(toHost).path
    <2>1. toHost # <<>> /\ Head(toHost) \in ToHost
      BY <1>5, TypeRead DEF packet_synced, Next_is
    <2>2. p \in Paths
      BY <2>1, BlockType
    <2>3. /\ desired' = IF follow THEN desired ELSE desired \ {p}
          /\ syncedSet' = IF follow /\ p \in desired THEN syncedSet \union {p} ELSE syncedSet
      BY <1>5 DEF packet_synced
    <2> HIDE DEF p
    <2>4. desired' \subseteq Paths /\ syncedSet' \subseteq Paths
      BY <1>5, <2>2, <2>3 DEF TypeOK
    <2>5. /\ disconnect("synced") \/ consume
          /\ \/ initDone' = TRUE /\ told' = told \union desired'
             \/ UNCHANGED <<initDone, told>>
      BY <1>5 DEF packet_synced
    <2>6. /\ up' \in BOOLEAN /\ cps' \in [Paths -> CpsType \union {NoPath}]
          /\ toTailer' \in Seq(ToTailer) /\ toHost' \in Seq(ToHost)
          /\ ht' \in {"none", "connected", "disconnected", "synced"}
      BY <1>5, <2>1, <2>5, TypeRead DEF TypeOK
    <2>7. initDone' \in BOOLEAN /\ told' \subseteq Paths
      BY <1>5, <2>4, <2>5 DEF TypeOK
    <2> QED BY <1>5, <2>4, <2>6, <2>7
            DEF TypeOK, packet_synced, files, looperV, counters
  <1> QED BY <1>1, <1>2, <1>3, <1>4, <1>5

LEMMA TypeLooper ==
    /\ \A p \in Paths : TypeOK /\ add_remote(p) => TypeOK'
    /\ TypeOK /\ child_finished => TypeOK'
    /\ TypeOK /\ loop_connect => TypeOK'
    /\ TypeOK /\ loop_refused => TypeOK'
    /\ TypeOK /\ loop_send => TypeOK'
  <1>1. ASSUME NEW p \in Paths, TypeOK, add_remote(p) PROVE TypeOK'
    BY <1>1 DEF TypeOK, add_remote, files, tailerV, pipes, hostV, counters
  <1>2. ASSUME TypeOK, child_finished PROVE TypeOK'
    <2>1. /\ told' \subseteq Paths /\ newPaths' \subseteq Paths /\ oldPaths' \subseteq Paths
      BY <1>2 DEF TypeOK, child_finished, send_synced_to_main, looperV
    <2> QED BY <1>2, <2>1 DEF TypeOK, child_finished, files, tailerV, pipes, counters
  <1>3. ASSUME TypeOK, loop_connect PROVE TypeOK'
    <2>1. <<>> \in Seq(ToTailer) /\ <<>> \in Seq(ToHost)
      OBVIOUS
    <2>2. conns' \in 0..MaxConns
      BY <1>3, TailerAssumption DEF TypeOK, loop_connect
    <2>3. due' \in [Paths -> 0..MaxLen]
      <3>1. /\ due' = [p \in Paths |-> IF p \in newPaths \union oldPaths /\ remote[p] # NoFile
                                      THEN Len(remote[p]) ELSE due[p]]
            /\ due \in [Paths -> 0..MaxLen]
            /\ remote \in [Paths -> Contents(MaxLen) \union {NoFile}]
        BY <1>3 DEF TypeOK, loop_connect
      <3>2. \A p \in Paths : remote[p] # NoFile => Len(remote[p]) \in 0..MaxLen
        BY <3>1, ContentsSeq, TailerAssumption
      <3> QED BY <3>1, <3>2
    <2> QED BY <1>3, <2>1, <2>2, <2>3 DEF TypeOK, loop_connect, files, mainV
  <1>4. ASSUME TypeOK, loop_refused PROVE TypeOK'
    <2>1. /\ told' \subseteq Paths /\ newPaths' \subseteq Paths /\ oldPaths' \subseteq Paths
      BY <1>4 DEF TypeOK, loop_refused, send_synced_to_main, looperV
    <2>2. conns' \in 0..MaxConns
      BY <1>4, TailerAssumption DEF TypeOK, loop_refused
    <2> QED BY <1>4, <2>1, <2>2 DEF TypeOK, loop_refused, files, tailerV, pipes, hostV
  <1>5. ASSUME TypeOK, loop_send PROVE TypeOK'
    BY <1>5 DEF TypeOK, loop_send, files, tailerV, pipes, mainV, counters
  <1> QED BY <1>1, <1>2, <1>3, <1>4, <1>5

\* What is left in the pipe when the connection breaks.
LEMMA BrokenPipe ==
    ASSUME toHost \in Seq(ToHost), Disconnect
    PROVE  /\ toHost' \in Seq(ToHost) /\ Len(toHost') \in Nat /\ Len(toHost') <= Len(toHost)
           /\ \A i \in 1..Len(toHost') : i \in 1..Len(toHost) /\ toHost'[i] = toHost[i]
  <1>1. PICK n \in 0..Len(toHost) : toHost' = SubSeq(toHost, 1, n)
    BY DEF Disconnect
  <1>2. n \in Nat /\ n <= Len(toHost) /\ Len(toHost) \in Nat
    OBVIOUS
  <1>3. /\ SubSeq(toHost, 1, n) \in Seq(ToHost) /\ Len(SubSeq(toHost, 1, n)) = n
        /\ \A i \in 1..n : SubSeq(toHost, 1, n)[i] = toHost[i]
    BY <1>2
  <1> QED BY <1>1, <1>2, <1>3

LEMMA TypeFiles ==
    /\ \A p \in Paths : TypeOK /\ AppendBlock(p) => TypeOK'
    /\ \A p \in Paths : TypeOK /\ Replace(p) => TypeOK'
    /\ \A p \in Paths : TypeOK /\ Delete(p) => TypeOK'
    /\ TypeOK /\ Disconnect => TypeOK'
  <1>1. TypeOK /\ change => ops' \in 0..MaxOps
    BY TailerAssumption DEF TypeOK, change
  <1>2. ASSUME TypeOK, ops' \in 0..MaxOps, unchangedByFiles,
               remote' \in [Paths -> Contents(MaxLen) \union {NoFile}]
        PROVE  TypeOK'
    BY <1>2 DEF TypeOK, unchangedByFiles, tailerV, pipes, hostV, looperV, mainV
  <1>3. ASSUME NEW p \in Paths, TypeOK, AppendBlock(p) PROVE TypeOK'
    <2>1. PICK b \in Blocks : remote' = [remote EXCEPT ![p] = Append(@, b)]
      BY <1>3 DEF AppendBlock
    <2>2. remote[p] \in Contents(MaxLen) /\ Len(remote[p]) < MaxLen
      BY <1>3 DEF TypeOK, AppendBlock
    <2> DEFINE s == remote[p]
               z == Append(s, b)
    <2>3. z \in Contents(MaxLen)
      <3>1. s \in Seq(Blocks) /\ Len(s) \in Nat /\ Len(s) < MaxLen
        BY <2>2, CopyType
      <3> HIDE DEF s
      <3>2. z \in Seq(Blocks) /\ Len(z) = Len(s) + 1
        BY <3>1
      <3> HIDE DEF z
      <3> QED BY <3>1, <3>2, ContentsSeq, TailerAssumption
    <2>4. remote' = [remote EXCEPT ![p] = z]
      BY <2>1
    <2> HIDE DEF z
    <2>5. remote' \in [Paths -> Contents(MaxLen) \union {NoFile}]
      BY <1>3, <2>3, <2>4 DEF TypeOK
    <2> QED BY <1>1, <1>2, <1>3, <2>5 DEF AppendBlock
  <1>4. ASSUME NEW p \in Paths, TypeOK, Replace(p) PROVE TypeOK'
    <2>1. remote' \in [Paths -> Contents(MaxLen) \union {NoFile}]
      BY <1>4 DEF TypeOK, Replace
    <2> QED BY <1>1, <1>2, <1>4, <2>1 DEF Replace
  <1>5. ASSUME NEW p \in Paths, TypeOK, Delete(p) PROVE TypeOK'
    <2>1. remote' \in [Paths -> Contents(MaxLen) \union {NoFile}]
      BY <1>5 DEF TypeOK, Delete
    <2> QED BY <1>1, <1>2, <1>5, <2>1 DEF Delete
  <1>6. ASSUME TypeOK, Disconnect PROVE TypeOK'
    <2>1. toHost' \in Seq(ToHost)
      BY <1>6, BrokenPipe DEF TypeOK
    <2>2. <<>> \in Seq(ToTailer)
      OBVIOUS
    <2> QED BY <1>6, <2>1, <2>2
            DEF TypeOK, Disconnect, files, hostV, looperV, mainV, counters
  <1> QED BY <1>3, <1>4, <1>5, <1>6

LEMMA TypeStep == TypeOK /\ [Next]_vars => TypeOK'
  <1>1. TypeOK /\ UNCHANGED vars => TypeOK'
    BY DEF TypeOK, vars, files, tailerV, pipes, hostV, looperV, mainV, counters
  <1> QED BY <1>1, TypeTailerPacket, TypeTailerPoll, TypeOpen, TypePackets, TypeLooper,
             TypeFiles DEF Next

\* Every variable holds a value of its kind: no block and no local copy gets longer than a
\* remote file can be, whatever is offered, acknowledged and cut.
THEOREM TypeCorrect == Spec => []TypeOK
  BY TypeInit, TypeStep, PTL DEF Spec
-----------------------------------------------------------------------------
(* What is reported as copied is copied.                                   *)

\* A packet is read by the host.
LEMMA NoErrorRead ==
    ASSUME NEW h \in Seq(ToHost), h # <<>>, NEW p, NoError(h, p)
    PROVE  NoError(Tail(h), p)
  <1> DEFINE g == Tail(h)
  <1>1. /\ Len(g) = Len(h) - 1 /\ Len(h) \in Nat \ {0}
        /\ \A i \in 1..(Len(h) - 1) : i + 1 \in 1..Len(h) /\ g[i] = h[i + 1]
    BY TailFacts
  <1> HIDE DEF g
  <1> QED BY <1>1 DEF NoError, g

\* What PathInv says of a path.
OnePath(p) ==
    /\ remote[p] # NoFile
    /\ NoError(toHost, p)
    /\ up => PathOK(toHost, toTailer, p, remote[p], local[p], cps[p])

\* The values of a path.
LEMMA PathTypes ==
    ASSUME TypeOK, PathInv, NEW p \in Sturdy
    PROVE  /\ p \in Paths /\ OnePath(p) /\ remote[p] \in Contents(MaxLen)
           /\ local[p] \in Copies \union {NoFile} /\ cps[p] \in CpsType \union {NoPath}
           /\ toHost \in Seq(ToHost) /\ toTailer \in Seq(ToTailer)
  <1>1. p \in Paths /\ OnePath(p)
    BY DEF Sturdy, PathInv, OnePath
  <1> QED BY <1>1 DEF TypeOK, OnePath

\* poll_paths() with the table as it is after a packet.
LEMMA PollKeeps ==
    ASSUME TypeOK, NEW p \in Paths, remote[p] \in Contents(MaxLen),
           NEW table \in [Paths -> CpsType \union {NoPath}], NEW t \in Seq(ToTailer),
           NoError(toHost, p),
           PathOK(toHost, t, p, remote[p], local[p], table[p]),
           poll_paths(table)
    PROVE  /\ NoError(toHost', p)
           /\ PathOK(toHost', t, p, remote[p], local[p], cps'[p])
  <1>1. toHost \in Seq(ToHost) /\ remote \in [Paths -> Contents(MaxLen) \union {NoFile}]
    BY DEF TypeOK
  <1>2. PollOK(table, cps', toHost, toHost')
    BY <1>1, PollPaths
  <1> DEFINE c == table[p]
             r == poll_file(c, p)
             h2 == toHost'
  <1>3. /\ h2 \in Seq(ToHost)
        /\ c = NoPath => cps'[p] = NoPath /\ Added(toHost, h2, p, <<>>)
        /\ c # NoPath => /\ cps'[p] = r.cps
                         /\ Len(r.out) <= 1 => Added(toHost, h2, p, r.out)
    BY <1>2 DEF PollOK
  <1>4. PathOK(toHost, t, p, remote[p], local[p], c)
    OBVIOUS
  <1>5. CASE c = NoPath
    <2>1. PathOK(toHost, t, p, remote[p], local[p], NoPath) /\ Added(toHost, h2, p, <<>>)
      BY <1>3, <1>4, <1>5
    <2>2. PathOK(h2, t, p, remote[p], local[p], NoPath)
      BY <1>1, <1>3, <2>1, PathClosed
    <2>3. Added(toHost, h2, p, IF c = NoPath THEN <<>> ELSE r.out)
      BY <1>5, <2>1
    <2> HIDE DEF c, r
    <2>4. NoError(h2, p)
      BY <1>1, <1>3, <1>4, <1>5, <2>3, NoErrorPolled
    <2> QED BY <1>3, <1>5, <2>2, <2>4
  <1>6. CASE c # NoPath
    <2>1. c \in CpsType
      BY <1>6
    <2>2. c.last <= Len(remote[p])
      BY <1>4, <1>6 DEF PathOK, OffsetRight
    <2>3. Polled(c, r, remote[p], p)
      BY <2>1, <2>2, PollFile
    <2> HIDE DEF c, r
    <2>4. Len(r.out) <= 1
      <3>1. r.out = <<>> \/ \E b \in ToHost : r.out = <<b>>
        BY <2>3 DEF Polled
      <3>2. Len(<<>>) = 0 /\ \A b : Len(<<b>>) = 1
        OBVIOUS
      <3>3. Len(r.out) = 0 \/ Len(r.out) = 1
        BY <3>1, <3>2
      <3> DEFINE n == Len(r.out)
      <3>4. n = 0 \/ n = 1
        BY <3>3
      <3> HIDE DEF n
      <3>5. n <= 1
        BY <3>4
      <3> QED BY <3>5 DEF n
    <2>5. Added(toHost, h2, p, r.out) /\ cps'[p] = r.cps
      BY <1>3, <1>6, <2>4
    <2>6. PathOK(h2, t, p, remote[p], local[p], r.cps)
      BY <1>1, <1>3, <1>4, <2>1, <2>3, <2>5, PathPolled
    <2>7. Added(toHost, h2, p, IF c = NoPath THEN <<>> ELSE r.out)
      BY <1>6, <2>5
    <2>8. NoError(h2, p)
      BY <1>1, <1>3, <1>4, <2>3, <2>7, NoErrorPolled
    <2> QED BY <2>5, <2>6, <2>8
  <1> QED BY <1>5, <1>6

LEMMA PathTailer ==
    ASSUME TypeOK, PathInv, TailerPacket \/ TailerPoll
    PROVE  PathInv'
  <1> SUFFICES ASSUME NEW p \in Sturdy PROVE OnePath(p)'
    BY DEF PathInv, OnePath
  <1>1. /\ p \in Paths /\ OnePath(p) /\ remote[p] \in Contents(MaxLen)
        /\ local[p] \in Copies \union {NoFile} /\ cps[p] \in CpsType \union {NoPath}
        /\ toHost \in Seq(ToHost) /\ toTailer \in Seq(ToTailer)
    BY PathTypes
  <1>2. up /\ remote' = remote /\ local' = local
    BY DEF TailerPacket, TailerPoll, files
  <1>3. PathOK(toHost, toTailer, p, remote[p], local[p], cps[p])
        /\ NoError(toHost, p) /\ remote[p] # NoFile
    BY <1>1, <1>2 DEF OnePath
  <1>4. cps \in [Paths -> CpsType \union {NoPath}]
    BY DEF TypeOK
  <1>5. CASE TailerPoll
    <2>1. poll_paths(cps) /\ toTailer' = toTailer
      BY <1>5 DEF TailerPoll
    <2>2. /\ NoError(toHost', p)
          /\ PathOK(toHost', toTailer, p, remote[p], local[p], cps'[p])
      BY <1>1, <1>3, <1>4, <2>1, PollKeeps
    <2> QED BY <1>2, <1>3, <2>1, <2>2 DEF OnePath
  <1>6. CASE TailerPacket
    <2> DEFINE m == Head(toTailer)
               table == handle_packet(m)
               t == Tail(toTailer)
    <2>1. poll_paths(table) /\ toTailer' = t /\ toTailer # <<>>
      BY <1>6 DEF TailerPacket
    <2>2. m \in ToTailer /\ m = toTailer[1] /\ t \in Seq(ToTailer)
      BY <1>1, <2>1, TailFacts
    <2>3. /\ table \in [Paths -> CpsType \union {NoPath}]
          /\ table[p] = IF m.path = p THEN Handled(cps[p], m) ELSE cps[p]
      BY <1>1, <1>4, <2>2, HandleTable
    <2>4. Len(toHost) \in Nat
      BY <1>1
    <2>5. PathOK(toHost, t, p, remote[p], local[p],
                 IF toTailer[1].path = p THEN Handled(cps[p], toTailer[1]) ELSE cps[p])
      BY <1>1, <1>3, <2>1, <2>4, HandlePacket
    <2>6. PathOK(toHost, t, p, remote[p], local[p], table[p])
      BY <2>2, <2>3, <2>5
    <2> HIDE DEF table, t, m
    <2>7. /\ NoError(toHost', p)
          /\ PathOK(toHost', t, p, remote[p], local[p], cps'[p])
      BY <1>1, <1>3, <2>1, <2>2, <2>3, <2>6, PollKeeps
    <2> QED BY <1>2, <1>3, <2>1, <2>7 DEF OnePath
  <1> QED BY <1>5, <1>6

\* The host reads a packet that is neither a tail block nor an offer of p.
LEMMA PassesBy ==
    ASSUME TypeOK, PathInv, NEW p \in Sturdy, toHost # <<>>,
           ~TailAt(toHost, 1, p), ~OfferAt(toHost, 1, p)
    PROVE  /\ NoError(Tail(toHost), p)
           /\ up => PathOK(Tail(toHost), toTailer, p, remote[p], local[p], cps[p])
  <1>1. /\ OnePath(p) /\ toHost \in Seq(ToHost) /\ toTailer \in Seq(ToTailer)
    BY PathTypes
  <1>2. NoError(Tail(toHost), p)
    BY <1>1, NoErrorRead DEF OnePath
  <1>3. up => PathOK(Tail(toHost), toTailer, p, remote[p], local[p], cps[p])
    BY <1>1, TakePacket DEF OnePath
  <1> QED BY <1>2, <1>3

\* The head of the pipe.
LEMMA HeadOf ==
    ASSUME TypeOK, NEW type, Next_is(type)
    PROVE  /\ toHost # <<>> /\ Head(toHost) = toHost[1] /\ toHost[1] \in ToHost
           /\ toHost[1].type = type /\ 1 \in 1..Len(toHost) /\ ht = "connected"
  <1>1. toHost \in Seq(ToHost) /\ toHost # <<>> /\ Head(toHost).type = type
        /\ ht = "connected"
    BY DEF TypeOK, Next_is
  <1>2. Head(toHost) = toHost[1] /\ toHost[1] \in ToHost /\ Len(toHost) \in Nat \ {0}
    BY <1>1, TailFacts
  <1> QED BY <1>1, <1>2

\* An error is never about a file that is only appended to.
LEMMA ErrorElsewhere ==
    ASSUME TypeOK, PathInv, NEW p \in Sturdy, Next_is("ERROR")
    PROVE  Head(toHost).path # p
  <1>1. OnePath(p)
    BY PathTypes
  <1> QED BY <1>1, HeadOf DEF OnePath, NoError

\* A host that is disconnected has nothing in its pipes.
LEMMA PathDisconnect ==
    ASSUME TypeOK, PathInv, NEW p \in Sturdy, NEW state, disconnect(state), remote' = remote
    PROVE  OnePath(p)'
  <1>1. toHost' = <<>> /\ ~up' /\ remote[p] # NoFile
    BY PathTypes DEF disconnect, OnePath
  <1>2. Len(<<>>) = 0 /\ 1..0 = {}
    OBVIOUS
  <1> QED BY <1>1, <1>2 DEF OnePath, NoError

LEMMA PathReport ==
    ASSUME TypeOK, PathInv, packet_eof \/ packet_error \/ packet_synced
    PROVE  PathInv'
  <1> SUFFICES ASSUME NEW p \in Sturdy PROVE OnePath(p)'
    BY DEF PathInv, OnePath
  <1>1. p \in Paths /\ OnePath(p) /\ local \in [Paths -> Copies \union {NoFile}]
    BY PathTypes DEF TypeOK
  <1>2. remote' = remote
    BY DEF packet_eof, packet_error, packet_synced, files
  <1>3. CASE packet_eof
    <2>1. disconnect("disconnected")
      BY <1>3 DEF packet_eof
    <2> QED BY <1>2, <2>1, PathDisconnect
  <1>4. CASE packet_error \/ packet_synced
    <2>1. /\ Next_is("ERROR") \/ Next_is("SYNCED")
          /\ disconnect("synced") \/ consume
      BY <1>4 DEF packet_error, packet_synced
    <2>2. CASE disconnect("synced")
      BY <1>2, <2>2, PathDisconnect
    <2>3. CASE consume
      <3>1. toHost # <<>> /\ toHost[1].type \in {"ERROR", "SYNCED"}
        BY <2>1, HeadOf
      <3>2. ~TailAt(toHost, 1, p) /\ ~OfferAt(toHost, 1, p)
        BY <3>1 DEF TailAt, OfferAt
      <3>3. /\ NoError(Tail(toHost), p)
            /\ up => PathOK(Tail(toHost), toTailer, p, remote[p], local[p], cps[p])
        BY <3>1, <3>2, PassesBy
      <3>4. local'[p] = local[p]
        <4>1. CASE packet_synced
          BY <4>1 DEF packet_synced, files
        <4>2. CASE packet_error
          <5>1. Head(toHost).path # p
            BY <4>2, ErrorElsewhere DEF packet_error
          <5>2. local' = [local EXCEPT ![Head(toHost).path] = NoFile]
            BY <4>2 DEF packet_error
          <5> QED BY <1>1, <5>1, <5>2
        <4> QED BY <1>4, <4>1, <4>2
      <3> QED BY <1>1, <1>2, <2>3, <3>3, <3>4 DEF OnePath, consume
    <2> QED BY <2>1, <2>2, <2>3
  <1> QED BY <1>3, <1>4

\* What the first packet, an offer, extends is right in the copy already.
LEMMA OfferBase ==
    ASSUME NEW h \in Seq(ToHost), h # <<>>, NEW t, NEW p, NEW src, NEW copy,
           NEW c \in CpsType \union {NoPath}, OfferAt(h, 1, p),
           PathOK(h, t, p, src, copy, c)
    PROVE  /\ Genuine(h[1], src)
           /\ h[1].offset # 0 => Agree(src, copy, h[1].offset)
  <1>1. Len(h) \in Nat \ {0} /\ 1 \in 1..Len(h)
    BY TailFacts
  <1>2. c # NoPath
    BY <1>1 DEF PathOK, Silent
  <1>3. /\ Genuine(h[1], src) /\ h[1].offset = StartOf(c) /\ NoTail(h, Len(h), p)
        /\ OffsetRight(h, p, src, copy, c)
    BY <1>1, <1>2 DEF PathOK, OfferRight
  <1>4. ASSUME h[1].offset # 0 PROVE Agree(src, copy, h[1].offset)
    <2>1. c \in CpsType
      BY <1>2
    <2>2. c.offset \in Int
      BY <2>1, CpsFields
    <2>3. c.offset >= 0 /\ h[1].offset = c.offset
      BY <1>3, <1>4, <2>2 DEF StartOf
    <2>4. Reached(h, Len(h), p, src, copy, c.offset)
      BY <1>3, <2>3 DEF OffsetRight
    <2>5. ~LastTail(h, Len(h), p, c.offset)
      BY <1>3 DEF LastTail, NoTail
    <2> QED BY <2>3, <2>4, <2>5 DEF Reached
  <1> QED BY <1>3, <1>4

LEMMA AnswerPath ==
    ASSUME NEW m PROVE answer(m).path = m.path
  BY DEF answer

LEMMA PathOffer ==
    ASSUME TypeOK, PathInv, packet_offer_block
    PROVE  PathInv'
  <1> SUFFICES ASSUME NEW p \in Sturdy PROVE OnePath(p)'
    BY DEF PathInv, OnePath
  <1>1. /\ p \in Paths /\ OnePath(p) /\ remote[p] \in Contents(MaxLen)
        /\ local[p] \in Copies \union {NoFile} /\ cps[p] \in CpsType \union {NoPath}
        /\ toHost \in Seq(ToHost) /\ toTailer \in Seq(ToTailer)
    BY PathTypes
  <1>2. /\ remote' = remote /\ local' = local /\ up' = up /\ cps' = cps
        /\ toHost' = Tail(toHost)
    BY DEF packet_offer_block, files, tailerV
  <1> DEFINE m == toHost[1]
             a == answer(m)
  <1>3. /\ toHost # <<>> /\ Head(toHost) = m /\ m \in ToHost /\ m.type = "OFFER"
    BY HeadOf DEF packet_offer_block
  <1>4. \/ toTailer' = toTailer
        \/ up /\ toTailer' = Append(toTailer, a)
        \/ ~up
    BY <1>3 DEF packet_offer_block
  <1>5. a \in ToTailer
    BY <1>3, AnswerIn
  <1>6. ~TailAt(toHost, 1, p)
    BY <1>3 DEF TailAt
  <1>7. NoError(toHost', p) /\ remote'[p] # NoFile
    BY <1>1, <1>2, <1>3, <1>6, NoErrorRead DEF OnePath
  <1>8. ASSUME up PROVE PathOK(toHost', toTailer', p, remote[p], local[p], cps[p])
    <2>1. PathOK(toHost, toTailer, p, remote[p], local[p], cps[p])
      BY <1>1, <1>8 DEF OnePath
    <2>2. CASE m.path = p
      <3>1. OfferAt(toHost, 1, p)
        BY <1>3, <2>2 DEF OfferAt
      <3>2. Genuine(m, remote[p]) /\ (m.offset # 0 => Agree(remote[p], local[p], m.offset))
        BY <1>1, <1>3, <2>1, <3>1, OfferBase
      <3>3. a.path = p /\ (a.type = "ACK" => Agree(remote[p], local[p], a.offset + a.len))
        BY <1>1, <1>3, <2>2, <3>2, AnswerAgrees
      <3> HIDE DEF a, m
      <3>4. /\ PathOK(Tail(toHost), toTailer, p, remote[p], local[p], cps[p])
            /\ PathOK(Tail(toHost), Append(toTailer, a), p, remote[p], local[p], cps[p])
        BY <1>1, <1>3, <1>5, <2>1, <3>1, <3>3, TakeOffer
      <3> QED BY <1>2, <1>4, <1>8, <3>4
    <2>3. CASE m.path # p
      <3>1. ~OfferAt(toHost, 1, p)
        BY <2>3 DEF OfferAt
      <3>2. PathOK(Tail(toHost), toTailer, p, remote[p], local[p], cps[p])
        BY <1>3, <1>6, <1>8, <3>1, PassesBy
      <3>3. a.path # p
        BY <1>3, <2>3, AnswerPath
      <3> HIDE DEF a, m
      <3>4. ASSUME NEW i \in 1..Len(Append(toTailer, a)),
                   AnswerAt(Append(toTailer, a), i, p)
            PROVE  i \in 1..Len(toTailer) /\ Append(toTailer, a)[i] = toTailer[i]
        <4>1. /\ Len(Append(toTailer, a)) = Len(toTailer) + 1 /\ Len(toTailer) \in Nat
              /\ Append(toTailer, a)[Len(toTailer) + 1] = a
              /\ \A j \in 1..Len(toTailer) : Append(toTailer, a)[j] = toTailer[j]
          BY <1>1, <1>5
        <4>2. i # Len(toTailer) + 1
          BY <3>3, <3>4, <4>1 DEF AnswerAt
        <4>3. i \in 1..Len(toTailer)
          BY <4>1, <4>2
        <4> QED BY <4>1, <4>3
      <3>5. PathOK(Tail(toHost), Append(toTailer, a), p, remote[p], local[p], cps[p])
        BY <3>2, <3>4, OtherPackets
      <3> QED BY <1>2, <1>4, <1>8, <3>2, <3>5
    <2> QED BY <2>2, <2>3
  <1> QED BY <1>2, <1>7, <1>8 DEF OnePath

LEMMA PathTail ==
    ASSUME TypeOK, PathInv, packet_tail_block
    PROVE  PathInv'
  <1> SUFFICES ASSUME NEW p \in Sturdy PROVE OnePath(p)'
    BY DEF PathInv, OnePath
  <1>1. /\ p \in Paths /\ OnePath(p) /\ remote[p] \in Contents(MaxLen)
        /\ local[p] \in Copies \union {NoFile} /\ cps[p] \in CpsType \union {NoPath}
        /\ toHost \in Seq(ToHost) /\ toTailer \in Seq(ToTailer)
    BY PathTypes
  <1> DEFINE m == toHost[1]
             old == IF local[m.path] = NoFile THEN <<>> ELSE local[m.path]
             new == Truncated(old, m.offset) \o m.bits
  <1>2. /\ toHost # <<>> /\ Head(toHost) = m /\ m \in ToHost /\ m.type = "TAIL"
        /\ 1 \in 1..Len(toHost)
    BY HeadOf DEF packet_tail_block
  <1>3. /\ remote' = remote /\ up' = up /\ cps' = cps /\ toHost' = Tail(toHost)
        /\ toTailer' = toTailer /\ local' = [local EXCEPT ![m.path] = new]
    BY <1>2 DEF packet_tail_block, tailerV
  <1>4. local \in [Paths -> Copies \union {NoFile}]
    BY DEF TypeOK
  <1>5. ~OfferAt(toHost, 1, p)
    BY <1>2 DEF OfferAt
  <1>6. CASE m.path # p
    <2>1. ~TailAt(toHost, 1, p)
      BY <1>6 DEF TailAt
    <2>2. local'[p] = local[p]
      BY <1>1, <1>3, <1>4, <1>6
    <2>3. /\ NoError(Tail(toHost), p)
          /\ up => PathOK(Tail(toHost), toTailer, p, remote[p], local[p], cps[p])
      BY <1>2, <1>5, <2>1, PassesBy
    <2> QED BY <1>1, <1>3, <2>2, <2>3 DEF OnePath
  <1>7. CASE m.path = p
    <2>1. TailAt(toHost, 1, p)
      BY <1>2, <1>7 DEF TailAt
    <2>2. old \in Seq(Blocks \union {Hole})
      BY <1>1, <1>7, CopyType
    <2>3. old = IF local[p] = NoFile THEN <<>> ELSE local[p]
      BY <1>7
    <2> HIDE DEF old
    <2>4. /\ new \in Copies
          /\ \A src \in Contents(MaxLen) :
                Genuine(m, src) /\ (m.offset # 0 => Agree(src, old, m.offset))
                   => Agree(src, new, EndOf(m))
      BY <1>2, <2>2, WriteBlock
    <2>5. local'[p] = new
      BY <1>1, <1>3, <1>4, <1>7
    <2> HIDE DEF new, m
    <2>6. new # NoFile
      BY <2>4, CopyType
    <2>7. NoError(Tail(toHost), p)
      BY <1>1, <1>2, <2>1, <2>6, NoErrorRead DEF OnePath
    <2>8. ASSUME up PROVE PathOK(Tail(toHost), toTailer, p, remote[p], new, cps[p])
      <3>1. PathOK(toHost, toTailer, p, remote[p], local[p], cps[p])
        BY <1>1, <2>8 DEF OnePath
      <3>2. cps[p] # NoPath
        BY <1>2, <2>1, <3>1 DEF PathOK, Silent
      <3>3. /\ Genuine(m, remote[p])
            /\ \/ m.offset = 0
               \/ Reached(toHost, 1 - 1, p, remote[p], local[p], m.offset)
        BY <1>2, <2>1, <3>1, <3>2 DEF PathOK, TailsRight, m
      <3>4. ASSUME m.offset # 0 PROVE Agree(remote[p], old, m.offset)
        <4>1. 1..(1 - 1) = {}
          OBVIOUS
        <4>2. ~LastTail(toHost, 1 - 1, p, m.offset)
          BY <4>1 DEF LastTail
        <4>3. Agree(remote[p], local[p], m.offset)
          BY <3>3, <3>4, <4>2 DEF Reached
        <4>4. local[p] # NoFile
          BY <4>3 DEF Agree
        <4> QED BY <2>3, <4>3, <4>4
      <3>5. Agree(remote[p], new, EndOf(m))
        BY <1>1, <2>4, <3>3, <3>4
      <3>6. Agree(remote[p], new, EndOf(toHost[1]))
        BY <3>5 DEF m
      <3> QED BY <1>1, <1>2, <1>5, <2>1, <3>1, <3>6, TakePacket
    <2> QED BY <1>1, <1>3, <2>5, <2>7, <2>8 DEF OnePath
  <1> QED BY <1>6, <1>7

LEMMA PathOpen ==
    ASSUME TypeOK, PathInv, open_remote_path
    PROVE  PathInv'
  <1> SUFFICES ASSUME NEW p \in Sturdy PROVE OnePath(p)'
    BY DEF PathInv, OnePath
  <1>1. OnePath(p)
    BY PathTypes
  <1>2. remote' = remote /\ local' = local /\ up' = up /\ cps' = cps /\ toHost' = toHost
    BY DEF open_remote_path, files, tailerV
  <1> DEFINE t2 == toTailer'
  <1>3. \A i \in 1..Len(t2) : \/ i \in 1..Len(toTailer) /\ t2[i] = toTailer[i]
                              \/ t2[i].type = "OPEN"
    BY OpenRequests
  <1>4. \A i \in 1..Len(t2) : AnswerAt(t2, i, p) =>
           i \in 1..Len(toTailer) /\ t2[i] = toTailer[i]
    BY <1>3 DEF AnswerAt
  <1>5. up => PathOK(toHost, t2, p, remote[p], local[p], cps[p])
    <2> HIDE DEF t2
    <2> QED BY <1>1, <1>4, OtherPackets DEF OnePath
  <1> QED BY <1>1, <1>2, <1>5 DEF OnePath

LEMMA PathLooper ==
    ASSUME TypeOK, PathInv,
           (\E p \in Paths : add_remote(p)) \/ child_finished \/ loop_refused \/ loop_send
    PROVE  PathInv'
  <1>1. /\ remote' = remote /\ local' = local /\ up' = up /\ cps' = cps
        /\ toHost' = toHost /\ toTailer' = toTailer
    BY DEF add_remote, child_finished, loop_refused, loop_send, files, tailerV, pipes
  <1> QED BY <1>1 DEF PathInv

LEMMA PathConnect ==
    ASSUME TypeOK, PathInv, loop_connect
    PROVE  PathInv'
  <1> SUFFICES ASSUME NEW p \in Sturdy PROVE OnePath(p)'
    BY DEF PathInv, OnePath
  <1>1. p \in Paths /\ OnePath(p)
    BY PathTypes
  <1>2. /\ remote' = remote /\ toHost' = <<>> /\ toTailer' = <<>> /\ cps'[p] = NoPath
    BY <1>1 DEF loop_connect, files
  <1>3. Len(<<>>) = 0 /\ 1..0 = {}
    OBVIOUS
  <1> QED BY <1>1, <1>2, <1>3 DEF OnePath, NoError, PathOK, Silent

LEMMA PathFiles ==
    ASSUME TypeOK, PathInv, NEW q \in Paths, AppendBlock(q) \/ Replace(q) \/ Delete(q)
    PROVE  PathInv'
  <1> SUFFICES ASSUME NEW p \in Sturdy PROVE OnePath(p)'
    BY DEF PathInv, OnePath
  <1>1. /\ p \in Paths /\ OnePath(p) /\ remote[p] \in Contents(MaxLen)
        /\ local[p] \in Copies \union {NoFile} /\ cps[p] \in CpsType \union {NoPath}
        /\ toHost \in Seq(ToHost) /\ toTailer \in Seq(ToTailer)
        /\ remote \in [Paths -> Contents(MaxLen) \union {NoFile}]
    BY PathTypes DEF TypeOK
  <1>2. /\ local' = local /\ up' = up /\ cps' = cps /\ toHost' = toHost
        /\ toTailer' = toTailer
    BY DEF AppendBlock, Replace, Delete, unchangedByFiles, tailerV, pipes
  <1>3. CASE remote'[p] = remote[p]
    BY <1>1, <1>2, <1>3 DEF OnePath
  <1>4. CASE AppendBlock(q) /\ p = q
    <2> DEFINE s == remote[p]
    <2>1. PICK b \in Blocks : remote' = [remote EXCEPT ![q] = Append(@, b)]
      BY <1>4 DEF AppendBlock
    <2>2. remote'[p] = Append(s, b)
      BY <1>1, <1>4, <2>1
    <2>3. TypeOK'
      BY <1>4, TypeFiles
    <2>4. s \in Seq(Blocks)
      BY <1>1, CopyType
    <2> HIDE DEF s
    <2>5. /\ Append(s, b) \in Seq(Blocks) /\ Len(s) <= Len(Append(s, b))
          /\ \A i \in 1..Len(s) : Append(s, b)[i] = s[i]
      BY <2>4
    <2> DEFINE s2 == Append(s, b)
    <2>6. s2 # NoFile
      <3>1. \A z \in Seq(Blocks) : z \in Seq(Blocks \union {Hole})
        OBVIOUS
      <3> QED BY <2>5, <3>1, TailerAssumption
    <2>7. s2 \in Contents(MaxLen)
      BY <1>1, <2>2, <2>3, <2>6 DEF TypeOK
    <2>8. Grown(s, s2)
      BY <2>5 DEF Grown
    <2> HIDE DEF s2
    <2>9. up => PathOK(toHost, toTailer, p, s2, local[p], cps[p])
      BY <1>1, <2>7, <2>8, GrowSource DEF OnePath, s
    <2> QED BY <1>1, <1>2, <2>2, <2>6, <2>9 DEF OnePath, s2
  <1>5. remote'[p] = remote[p] \/ (AppendBlock(q) /\ p = q)
    BY <1>1 DEF AppendBlock, Replace, Delete, Sturdy
  <1> QED BY <1>3, <1>4, <1>5

LEMMA PathBroken ==
    ASSUME TypeOK, PathInv, Disconnect
    PROVE  PathInv'
  <1> SUFFICES ASSUME NEW p \in Sturdy PROVE OnePath(p)'
    BY DEF PathInv, OnePath
  <1>1. OnePath(p) /\ toHost \in Seq(ToHost)
    BY PathTypes
  <1>2. remote' = remote /\ local' = local /\ ~up'
    BY DEF Disconnect, files
  <1> DEFINE h2 == toHost'
  <1>3. /\ Len(h2) \in Nat
        /\ \A i \in 1..Len(h2) : i \in 1..Len(toHost) /\ h2[i] = toHost[i]
    BY <1>1, BrokenPipe
  <1> HIDE DEF h2
  <1>4. NoError(h2, p)
    BY <1>1, <1>3 DEF OnePath, NoError
  <1> QED BY <1>1, <1>2, <1>4 DEF OnePath, h2

LEMMA PathStep == IInv /\ [Next]_vars => IInv'
  <1> SUFFICES ASSUME TypeOK, PathInv, [Next]_vars PROVE PathInv'
    BY TypeStep DEF IInv
  <1>1. CASE UNCHANGED vars
    BY <1>1 DEF PathInv, vars, files, tailerV, pipes
  <1>2. CASE Next
    BY <1>2, PathTailer, PathOpen, PathReport, PathOffer, PathTail, PathLooper, PathConnect,
       PathFiles, PathBroken DEF Next
  <1> QED BY <1>1, <1>2

LEMMA PathInit == Init => IInv
  <1> SUFFICES ASSUME Init PROVE PathInv
    BY TypeInit DEF IInv
  <1> SUFFICES ASSUME NEW p \in Sturdy PROVE OnePath(p)
    BY DEF PathInv, OnePath
  <1>1. remote[p] \in Contents(MaxLen) /\ toHost = <<>> /\ ~up
    BY DEF Init, Sturdy
  <1>2. remote[p] # NoFile
    BY <1>1, CopyType
  <1>3. Len(<<>>) = 0 /\ 1..0 = {}
    OBVIOUS
  <1> QED BY <1>1, <1>2, <1>3 DEF OnePath, NoError

\* What the tailer takes as copied is copied: with nothing on its way, the local copy of a
\* file that is only appended to agrees with it up to the offset of the client's state,
\* over every old copy, answer and lost connection.
THEOREM PrefixTheorem == Spec => []PrefixMirrored
  <1>1. IInv => PrefixMirrored
    <2> SUFFICES ASSUME TypeOK, PathInv, NEW p \in Paths \ Fragile,
                        up, Quiet, cps[p] # NoPath, cps[p].offset >= 0
                 PROVE  /\ local[p] # NoFile
                        /\ cps[p].offset <= Len(local[p]) /\ cps[p].offset <= Len(remote[p])
                        /\ \A i \in 1..cps[p].offset : local[p][i] = remote[p][i]
      BY DEF IInv, PrefixMirrored
    <2>1. OnePath(p)
      BY PathTypes DEF Sturdy
    <2>2. Reached(toHost, Len(toHost), p, remote[p], local[p], cps[p].offset)
      BY <2>1 DEF OnePath, PathOK, OffsetRight
    <2>3. Len(toHost) = 0 /\ 1..0 = {}
      BY DEF Quiet
    <2>4. ~LastTail(toHost, Len(toHost), p, cps[p].offset)
      BY <2>3 DEF LastTail
    <2>5. Agree(remote[p], local[p], cps[p].offset)
      BY <2>2, <2>4 DEF Reached
    <2> QED BY <2>5 DEF Agree
  <1> QED BY <1>1, PathInit, PathStep, PTL DEF Spec
-----------------------------------------------------------------------------
(* A path that is reported as synced has what the file had when the host    *)
(* was connected.                                                          *)

\* Nothing is read: what is reached is what the copy has.
LEMMA ReachedNow ==
    ASSUME NEW h, NEW p, NEW src, NEW copy, NEW x
    PROVE  Reached(h, 0, p, src, copy, x) <=> Agree(src, copy, x)
  <1>1. 1..0 = {}
    OBVIOUS
  <1> QED BY <1>1 DEF Reached, NoTail, LastTail

LEMMA AgreeLess ==
    ASSUME NEW src \in Contents(MaxLen), NEW copy \in Copies \union {NoFile},
           NEW x \in Int, NEW d \in Nat, d <= x, Agree(src, copy, x)
    PROVE  Agree(src, copy, d)
  <1>1. copy # NoFile /\ x <= Len(copy) /\ x <= Len(src) /\ \A i \in 1..x : copy[i] = src[i]
    BY DEF Agree
  <1>2. Len(copy) \in Nat /\ Len(src) \in Nat
    BY <1>1, CopyType
  <1>3. d <= Len(copy) /\ d <= Len(src) /\ \A i \in 1..d : i \in 1..x
    BY <1>1, <1>2
  <1> QED BY <1>1, <1>3 DEF Agree

\* Only the packets up to n matter for what they reach.
LEMMA SamePackets ==
    ASSUME NEW h, NEW h2, NEW p, NEW n \in Nat, \A i \in 1..n : h2[i] = h[i]
    PROVE  /\ NoTail(h, n, p) => NoTail(h2, n, p)
           /\ \A src, copy, x : Reached(h, n, p, src, copy, x) =>
                                   Reached(h2, n, p, src, copy, x)
  <1>1. (n + 1)..n = {}
    OBVIOUS
  <1> QED BY <1>1, MorePackets

\* The host reads a packet.
LEMMA HoldsRead ==
    ASSUME NEW h \in Seq(ToHost), h # <<>>, NEW p, NEW src, NEW copy, NEW copy2,
           TailAt(h, 1, p) => Agree(src, copy2, EndOf(h[1])),
           ~TailAt(h, 1, p) => copy2 = copy,
           NEW d \in Nat, NEW n \in 0..Len(h), Holds(h, n, p, src, copy, d)
    PROVE  Holds(Tail(h), IF n = 0 THEN 0 ELSE n - 1, p, src, copy2, d)
  <1> DEFINE g == Tail(h)
             k == IF n = 0 THEN 0 ELSE n - 1
  <1>1. /\ Len(g) = Len(h) - 1 /\ Len(h) \in Nat \ {0} /\ h[1] \in ToHost
        /\ \A i \in 1..(Len(h) - 1) : i + 1 \in 1..Len(h) /\ g[i] = h[i + 1]
    BY TailFacts
  <1>2. PICK x \in Int : x >= d /\ Reached(h, n, p, src, copy, x)
    BY DEF Holds
  <1>3. \A i \in (n + 1)..Len(h) : TailAt(h, i, p) => EndOf(h[i]) >= d
    BY DEF Holds
  <1> HIDE DEF g
  <1>4. \E y \in Int : y >= d /\ Reached(g, k, p, src, copy2, y)
    <2>1. CASE n # 0
      <3>1. n \in 1..Len(h)
        BY <1>1, <2>1
      <3>2. Reached(g, n - 1, p, src, copy2, x)
        BY <1>2, <3>1, DropHead DEF g
      <3> QED BY <1>2, <2>1, <3>2
    <2>2. CASE n = 0 /\ ~TailAt(h, 1, p)
      <3>1. Agree(src, copy, x)
        BY <1>2, <2>2, ReachedNow
      <3>2. Reached(g, 0, p, src, copy2, x)
        BY <2>2, <3>1, ReachedNow
      <3> QED BY <1>2, <2>2, <3>2
    <2>3. CASE n = 0 /\ TailAt(h, 1, p)
      <3>1. EndOf(h[1]) \in Int
        BY <1>1, <2>3, BlockType DEF TailAt
      <3>2. 1 \in (n + 1)..Len(h)
        BY <1>1, <2>3
      <3>3. EndOf(h[1]) >= d
        BY <1>3, <2>3, <3>2
      <3>4. Reached(g, 0, p, src, copy2, EndOf(h[1]))
        BY <2>3, ReachedNow
      <3> QED BY <2>3, <3>1, <3>3, <3>4
    <2> QED BY <2>1, <2>2, <2>3
  <1>5. ASSUME NEW i \in (k + 1)..Len(g), TailAt(g, i, p) PROVE EndOf(g[i]) >= d
    <2>1. i \in 1..(Len(h) - 1) /\ i + 1 \in (n + 1)..Len(h)
      BY <1>1
    <2>2. g[i] = h[i + 1]
      BY <1>1, <2>1
    <2> QED BY <1>3, <1>5, <2>1, <2>2 DEF TailAt
  <1> HIDE DEF k
  <1>6. Holds(g, k, p, src, copy2, d)
    BY <1>4, <1>5 DEF Holds
  <1> QED BY <1>6 DEF g, k

LEMMA ReportsRead ==
    ASSUME NEW h \in Seq(ToHost), h # <<>>, NEW p, NEW src, NEW copy, NEW copy2,
           TailAt(h, 1, p) => Agree(src, copy2, EndOf(h[1])),
           ~TailAt(h, 1, p) => copy2 = copy,
           NEW d \in Nat, ReportsRight(h, p, src, copy, d)
    PROVE  /\ ReportsRight(Tail(h), p, src, copy2, d)
           /\ \A i \in 1..Len(Tail(h)) : SyncedAt(Tail(h), i, p) =>
                 i + 1 \in 1..Len(h) /\ SyncedAt(h, i + 1, p)
  <1> DEFINE g == Tail(h)
  <1>1. /\ Len(g) = Len(h) - 1 /\ Len(h) \in Nat \ {0}
        /\ \A i \in 1..(Len(h) - 1) : i + 1 \in 1..Len(h) /\ g[i] = h[i + 1]
    BY TailFacts
  <1> HIDE DEF g
  <1>2. ASSUME NEW i \in 1..Len(g), SyncedAt(g, i, p)
        PROVE  i + 1 \in 1..Len(h) /\ SyncedAt(h, i + 1, p)
    BY <1>1, <1>2 DEF SyncedAt
  <1>3. ASSUME NEW i \in 1..Len(g), SyncedAt(g, i, p)
        PROVE  Holds(g, i - 1, p, src, copy2, d)
    <2>1. i + 1 \in 1..Len(h) /\ SyncedAt(h, i + 1, p)
      BY <1>2, <1>3
    <2>2. i \in 0..Len(h) /\ i # 0 /\ i + 1 - 1 = i
      BY <1>1
    <2>3. Holds(h, i, p, src, copy, d)
      BY <2>1, <2>2 DEF ReportsRight
    <2>4. Holds(Tail(h), IF i = 0 THEN 0 ELSE i - 1, p, src, copy2, d)
      BY <2>2, <2>3, HoldsRead
    <2> QED BY <2>2, <2>4 DEF g
  <1> QED BY <1>2, <1>3 DEF ReportsRight, g

\* Packets are added behind those that are there.
LEMMA HoldsMore ==
    ASSUME NEW h \in Seq(ToHost), NEW h2 \in Seq(ToHost), Extends(h, h2), NEW p, NEW src,
           NEW copy, NEW d, NEW n \in 0..Len(h), Holds(h, n, p, src, copy, d),
           \A i \in (Len(h) + 1)..Len(h2) : TailAt(h2, i, p) => EndOf(h2[i]) >= d
    PROVE  Holds(h2, n, p, src, copy, d)
  <1>1. /\ Len(h) \in Nat /\ Len(h2) \in Nat /\ Len(h) <= Len(h2)
        /\ \A i \in 1..Len(h) : h2[i] = h[i]
    BY DEF Extends
  <1>2. n \in Nat /\ \A i \in 1..n : h2[i] = h[i]
    BY <1>1
  <1>3. \A x : Reached(h, n, p, src, copy, x) => Reached(h2, n, p, src, copy, x)
    BY <1>2, SamePackets
  <1>4. ASSUME NEW i \in (n + 1)..Len(h2), TailAt(h2, i, p) PROVE EndOf(h2[i]) >= d
    <2>1. CASE i \in (Len(h) + 1)..Len(h2)
      BY <1>4, <2>1
    <2>2. CASE i \notin (Len(h) + 1)..Len(h2)
      <3>1. i \in (n + 1)..Len(h) /\ i \in 1..Len(h)
        BY <1>1, <1>2, <2>2
      <3>2. h2[i] = h[i]
        BY <1>1, <3>1
      <3> QED BY <1>4, <3>1, <3>2 DEF Holds, TailAt
    <2> QED BY <2>1, <2>2
  <1> QED BY <1>3, <1>4 DEF Holds

\* The connection breaks and only some of the packets arrive.
Cut(h, h2) ==
    Len(h2) \in Nat /\ \A i \in 1..Len(h2) : i \in 1..Len(h) /\ h2[i] = h[i]

LEMMA HoldsCut ==
    ASSUME NEW h, NEW h2, Cut(h, h2), Len(h) \in Nat, NEW p, NEW src, NEW copy, NEW d,
           NEW n \in 0..Len(h2), Holds(h, n, p, src, copy, d)
    PROVE  Holds(h2, n, p, src, copy, d)
  <1>1. Len(h2) \in Nat /\ \A i \in 1..Len(h2) : i \in 1..Len(h) /\ h2[i] = h[i]
    BY DEF Cut
  <1>2. n \in Nat /\ \A i \in 1..n : h2[i] = h[i]
    BY <1>1
  <1>3. \A x : Reached(h, n, p, src, copy, x) => Reached(h2, n, p, src, copy, x)
    BY <1>2, SamePackets
  <1>4. ASSUME NEW i \in (n + 1)..Len(h2), TailAt(h2, i, p) PROVE EndOf(h2[i]) >= d
    <2>1. i \in 1..Len(h2)
      BY <1>1, <1>2
    <2>2. i \in (n + 1)..Len(h) /\ h2[i] = h[i]
      BY <1>1, <1>2, <2>1
    <2> QED BY <1>4, <2>2 DEF Holds, TailAt
  <1> QED BY <1>3, <1>4 DEF Holds

LEMMA ReportsCut ==
    ASSUME NEW h, NEW h2, Cut(h, h2), Len(h) \in Nat, NEW p, NEW src, NEW copy, NEW d,
           ReportsRight(h, p, src, copy, d), TailsRight(h, p, src, copy)
    PROVE  ReportsRight(h2, p, src, copy, d) /\ TailsRight(h2, p, src, copy)
  <1>1. Len(h2) \in Nat /\ \A i \in 1..Len(h2) : i \in 1..Len(h) /\ h2[i] = h[i]
    BY DEF Cut
  <1>2. ASSUME NEW i \in 1..Len(h2), SyncedAt(h2, i, p)
        PROVE  Holds(h2, i - 1, p, src, copy, d)
    <2>1. Holds(h, i - 1, p, src, copy, d) /\ i - 1 \in 0..Len(h2)
      BY <1>1, <1>2 DEF ReportsRight, SyncedAt
    <2> QED BY <2>1, HoldsCut
  <1>3. ASSUME NEW i \in 1..Len(h2), TailAt(h2, i, p)
        PROVE  /\ Genuine(h2[i], src)
               /\ \/ h2[i].offset = 0 /\ NoTail(h2, i - 1, p)
                  \/ Reached(h2, i - 1, p, src, copy, h2[i].offset)
    <2>1. i \in 1..Len(h) /\ h2[i] = h[i] /\ TailAt(h, i, p)
      BY <1>1, <1>3 DEF TailAt
    <2>2. i - 1 \in Nat /\ \A j \in 1..(i - 1) : h2[j] = h[j]
      BY <1>1
    <2>3. /\ Genuine(h[i], src)
          /\ \/ h[i].offset = 0 /\ NoTail(h, i - 1, p)
             \/ Reached(h, i - 1, p, src, copy, h[i].offset)
      BY <2>1 DEF TailsRight
    <2>4. /\ NoTail(h, i - 1, p) => NoTail(h2, i - 1, p)
          /\ \A x : Reached(h, i - 1, p, src, copy, x) => Reached(h2, i - 1, p, src, copy, x)
      BY <2>2, SamePackets
    <2> QED BY <2>1, <2>3, <2>4
  <1> QED BY <1>2, <1>3 DEF ReportsRight, TailsRight

\* The file grows.
LEMMA HoldsGrow ==
    ASSUME NEW h \in Seq(ToHost), NEW p, NEW src \in Contents(MaxLen),
           NEW src2 \in Contents(MaxLen), NEW copy \in Copies \union {NoFile},
           Grown(src, src2), NEW d
    PROVE  /\ \A n \in Int : Holds(h, n, p, src, copy, d) => Holds(h, n, p, src2, copy, d)
           /\ ReportsRight(h, p, src, copy, d) => ReportsRight(h, p, src2, copy, d)
  <1>1. \A n, x \in Int : Reached(h, n, p, src, copy, x) => Reached(h, n, p, src2, copy, x)
    BY GrowFacts
  <1>2. ASSUME NEW n \in Int, Holds(h, n, p, src, copy, d)
        PROVE  Holds(h, n, p, src2, copy, d)
    BY <1>1, <1>2 DEF Holds
  <1>3. \A i \in 1..Len(h) : i - 1 \in Int
    OBVIOUS
  <1> QED BY <1>2, <1>3 DEF ReportsRight

\* A poll of a path that is past d blocks sends nothing before them.
LEMMA AheadPolled ==
    ASSUME NEW c \in CpsType, NEW r, NEW src, NEW p, Polled(c, r, src, p), NEW d \in Nat,
           Ahead(c, d)
    PROVE  /\ Ahead(r.cps, d)
           /\ \A b : r.out = <<b>> /\ b.type = "TAIL" => EndOf(b) >= d
  <1>1. /\ r.cps \in CpsType /\ r.cps # NoPath /\ c.offset \in Int
        /\ c.offset >= d /\ c.state \in {"TAILING", "SYNCED"}
    BY CpsFields DEF Polled, Ahead
  <1>2. CASE r.out = <<>> /\ Quieted(c, r.cps)
    <2>1. \A b : r.out # <<b>>
      BY <1>2
    <2> QED BY <1>1, <1>2, <2>1 DEF Quieted, Ahead
  <1>3. ASSUME NEW b \in ToHost, r.out = <<b>>,
               \/ Offered(c, r.cps, src, b) \/ Sent(c, r.cps, src, b)
               \/ Reported(c, r.cps, src, b)
        PROVE  Ahead(r.cps, d) /\ (b.type = "TAIL" => EndOf(b) >= d)
    <2>1. ~Offered(c, r.cps, src, b)
      BY <1>1 DEF Offered
    <2>2. CASE Sent(c, r.cps, src, b)
      <3>1. /\ b.offset \in Nat /\ Len(b.bits) \in Nat /\ EndOf(b) = b.offset + Len(b.bits)
            /\ b.offset = StartOf(c)
        BY <2>2, BlockType DEF Sent, EndOf
      <3>2. StartOf(c) = c.offset
        BY <1>1 DEF StartOf
      <3>3. EndOf(b) >= d
        BY <1>1, <3>1, <3>2
      <3> QED BY <1>1, <2>2, <3>3 DEF Sent, Ahead
    <2>3. CASE Reported(c, r.cps, src, b)
      BY <1>1, <2>3 DEF Reported, Ahead
    <2> QED BY <1>3, <2>1, <2>2, <2>3
  <1>4. \/ r.out = <<>> /\ Quieted(c, r.cps)
        \/ \E b \in ToHost :
              /\ r.out = <<b>>
              /\ \/ Offered(c, r.cps, src, b) \/ Sent(c, r.cps, src, b)
                 \/ Reported(c, r.cps, src, b)
    BY DEF Polled
  <1>5. \A a, b : r.out = <<a>> /\ r.out = <<b>> => a = b
    OBVIOUS
  <1> QED BY <1>2, <1>3, <1>4, <1>5

DueNow(h, p, src, copy, c, d) ==
    /\ ReportsRight(h, p, src, copy, d)
    /\ (\E i \in 1..Len(h) : SyncedAt(h, i, p)) => Ahead(c, d)
DoneNow(h, p, src, copy, c, d) == Holds(h, 0, p, src, copy, d) /\ Ahead(c, d)
Answered(h, h2, p, src, c, r, c2) ==
    /\ c # NoPath => Polled(c, r, src, p) /\ c2 = r.cps
    /\ Added(h, h2, p, IF c = NoPath THEN <<>> ELSE r.out)

\* A report that a poll adds is right, and so are those that are on their way.
LEMMA DuePolled ==
    ASSUME NEW h \in Seq(ToHost), NEW h2 \in Seq(ToHost), NEW t, NEW p,
           NEW src \in Contents(MaxLen), NEW copy, NEW c \in CpsType \union {NoPath},
           NEW r, NEW c2, NEW d \in Nat,
           Answered(h, h2, p, src, c, r, c2),
           PathOK(h, t, p, src, copy, c), d <= Len(src),
           DueNow(h, p, src, copy, c, d)
    PROVE  /\ DueNow(h2, p, src, copy, c2, d)
           /\ DoneNow(h, p, src, copy, c, d) => DoneNow(h2, p, src, copy, c2, d)
  <1> USE DEF Answered, DueNow, DoneNow
  <1> DEFINE L == Len(h)
             L2 == Len(h2)
  <1>1. /\ L \in Nat /\ L2 \in Nat /\ L <= L2 /\ Extends(h, h2)
        /\ \A i \in 1..L : h2[i] = h[i]
    BY DEF Added, Extends
  <1>2. ASSUME NEW i \in (L + 1)..L2, h2[i].path = p
        PROVE  /\ c # NoPath /\ r.out = <<h2[i]>>
               /\ \A j \in (L + 1)..L2 : h2[j].path = p => j = i
    <2>1. PICK k \in (L + 1)..L2 :
             /\ (IF c = NoPath THEN <<>> ELSE r.out) = <<h2[k]>>
             /\ \A j \in (L + 1)..L2 : h2[j].path = p => j = k
      BY <1>2 DEF Added
    <2>2. i = k
      BY <1>2, <2>1
    <2> QED BY <2>1, <2>2
  <1>3. ASSUME Ahead(c, d)
        PROVE  /\ Ahead(c2, d)
               /\ \A i \in (L + 1)..L2 : TailAt(h2, i, p) => EndOf(h2[i]) >= d
    <2>1. c # NoPath /\ c \in CpsType
      BY <1>3 DEF Ahead
    <2>2. /\ Ahead(r.cps, d) /\ c2 = r.cps
          /\ \A b : r.out = <<b>> /\ b.type = "TAIL" => EndOf(b) >= d
      BY <1>3, <2>1, AheadPolled
    <2> QED BY <1>2, <2>2 DEF TailAt
  <1>4. ASSUME Ahead(c, d), NEW n \in 0..L, Holds(h, n, p, src, copy, d)
        PROVE  Holds(h2, n, p, src, copy, d)
    BY <1>1, <1>3, <1>4, HoldsMore
  <1>5. ASSUME NEW i \in 1..L, SyncedAt(h2, i, p)
        PROVE  Holds(h2, i - 1, p, src, copy, d) /\ Ahead(c2, d)
    <2>1. SyncedAt(h, i, p)
      BY <1>1, <1>5 DEF SyncedAt
    <2>2. Ahead(c, d) /\ Holds(h, i - 1, p, src, copy, d) /\ i - 1 \in 0..L
      BY <1>1, <2>1 DEF ReportsRight
    <2> QED BY <1>3, <1>4, <2>2
  <1>6. ASSUME NEW i \in (L + 1)..L2, SyncedAt(h2, i, p)
        PROVE  Holds(h2, i - 1, p, src, copy, d) /\ Ahead(c2, d)
    <2>1. h2[i].type = "SYNCED" /\ h2[i].path = p
      BY <1>6 DEF SyncedAt
    <2>2. /\ c # NoPath /\ r.out = <<h2[i]>>
          /\ \A j \in (L + 1)..L2 : h2[j].path = p => j = i
      BY <1>2, <2>1
    <2>3. c \in CpsType /\ Polled(c, r, src, p) /\ c2 = r.cps
      BY <2>2
    <2>4. Reported(c, r.cps, src, h2[i])
      <3>1. PICK b \in ToHost :
               /\ r.out = <<b>>
               /\ \/ Offered(c, r.cps, src, b) \/ Sent(c, r.cps, src, b)
                  \/ Reported(c, r.cps, src, b)
        <4>1. r.out # <<>>
          BY <2>2
        <4> QED BY <2>3, <4>1 DEF Polled
      <3>2. b = h2[i]
        BY <2>2, <3>1
      <3> QED BY <2>1, <3>1, <3>2 DEF Offered, Sent
    <2>5. /\ c.offset \in Int /\ c.offset >= 0 /\ c.offset >= d
          /\ r.cps.offset = c.offset /\ r.cps.state = "SYNCED" /\ r.cps # NoPath
      <3>1. c.offset \in Int /\ Len(src) \in Nat /\ r.cps \in CpsType /\ r.cps # NoPath
        BY <2>3, CpsFields, CopyType DEF Polled
      <3> QED BY <2>4, <3>1 DEF Reported
    <2>6. Ahead(c2, d)
      BY <2>3, <2>5 DEF Ahead
    <2>7. Reached(h, L, p, src, copy, c.offset)
      BY <2>2, <2>5 DEF PathOK, OffsetRight
    <2>8. /\ i - 1 \in Nat /\ L <= i - 1
          /\ \A j \in (L + 1)..(i - 1) : j \in (L + 1)..L2 /\ j # i
      BY <1>1
    <2>9. \A j \in (L + 1)..(i - 1) : ~TailAt(h2, j, p)
      BY <2>2, <2>8 DEF TailAt
    <2> DEFINE n2 == i - 1
               x == c.offset
    <2>10. Reached(h2, n2, p, src, copy, x)
      <3>1. /\ L \in Nat /\ n2 \in Nat /\ L <= n2 /\ \A j \in 1..L : h2[j] = h[j]
            /\ \A j \in (L + 1)..n2 : ~TailAt(h2, j, p)
        BY <1>1, <2>8, <2>9
      <3>2. Reached(h, L, p, src, copy, x)
        BY <2>7
      <3> HIDE DEF L, n2, x
      <3>3. \A z : Reached(h, L, p, src, copy, z) => Reached(h2, n2, p, src, copy, z)
        BY <3>1, MorePackets
      <3> QED BY <3>2, <3>3
    <2>11. ASSUME NEW k \in (i - 1 + 1)..L2, TailAt(h2, k, p) PROVE FALSE
      <3>1. k \in (L + 1)..L2
        BY <1>1
      <3>2. k = i
        BY <2>2, <2>11, <3>1 DEF TailAt
      <3> QED BY <2>1, <2>11, <3>2 DEF TailAt
    <2> QED BY <2>5, <2>6, <2>10, <2>11 DEF Holds
  <1>7. \A i \in 1..L2 : i \in 1..L \/ i \in (L + 1)..L2
    BY <1>1
  <1>8. 0 \in 0..L
    BY <1>1
  <1> QED BY <1>3, <1>4, <1>5, <1>6, <1>7, <1>8 DEF ReportsRight

\* An answer is only read by a path that is compared.
LEMMA AheadHandled ==
    ASSUME NEW h, NEW t \in Seq(ToTailer), t # <<>>, NEW p, NEW src, NEW copy,
           NEW c \in CpsType \union {NoPath}, NEW d,
           PathOK(h, t, p, src, copy, c), Ahead(c, d)
    PROVE  (IF t[1].path = p THEN Handled(c, t[1]) ELSE c) = c
  <1>1. t[1] \in ToTailer /\ 1 \in 1..Len(t)
    BY TailFacts
  <1>2. c # NoPath /\ c.state # "OFFERED"
    BY DEF Ahead
  <1>3. ~AnswerAt(t, 1, p)
    BY <1>1, <1>2 DEF PathOK, AnswerRight
  <1>4. t[1].path = p => t[1].type = "OPEN"
    BY <1>1, <1>3, AnswerType DEF AnswerAt
  <1> QED BY <1>1, <1>2, <1>4, HandledType

\* What DueInv says of a path, with the types.
LEMMA DueTypes ==
    ASSUME TypeOK, PathInv, NEW p \in Sturdy
    PROVE  due[p] \in Nat /\ due \in [Paths -> 0..MaxLen] /\ Len(toHost) \in Nat
  <1>1. p \in Paths /\ toHost \in Seq(ToHost)
    BY PathTypes
  <1> QED BY <1>1, TailerAssumption DEF TypeOK

LEMMA TailsOf ==
    ASSUME NEW h, NEW t, NEW p, NEW src, NEW copy, NEW c, PathOK(h, t, p, src, copy, c)
    PROVE  TailsRight(h, p, src, copy)
  BY DEF PathOK, Silent, TailsRight

LEMMA DuePoll ==
    ASSUME TypeOK, NEW p \in Sturdy, p \in Paths, remote[p] \in Contents(MaxLen),
           NEW table \in [Paths -> CpsType \union {NoPath}], NEW t, due[p] \in Nat,
           PathOK(toHost, t, p, remote[p], local[p], table[p]),
           poll_paths(table), due[p] <= Len(remote[p]),
           ReportsRight(toHost, p, remote[p], local[p], due[p]),
           (\E i \in 1..Len(toHost) : SyncedAt(toHost, i, p)) => Ahead(table[p], due[p])
    PROVE  /\ ReportsRight(toHost', p, remote[p], local[p], due[p])
           /\ (\E i \in 1..Len(toHost') : SyncedAt(toHost', i, p)) => Ahead(cps'[p], due[p])
           /\ Holds(toHost, 0, p, remote[p], local[p], due[p]) /\ Ahead(table[p], due[p])
                 => /\ Holds(toHost', 0, p, remote[p], local[p], due[p])
                    /\ Ahead(cps'[p], due[p])
  <1>1. toHost \in Seq(ToHost) /\ remote \in [Paths -> Contents(MaxLen) \union {NoFile}]
    BY DEF TypeOK
  <1>2. PollOK(table, cps', toHost, toHost')
    BY <1>1, PollPaths
  <1> DEFINE c == table[p]
             r == poll_file(c, p)
             h2 == toHost'
             c2 == cps'[p]
             src == remote[p]
             copy == local[p]
             d == due[p]
  <1>3. /\ h2 \in Seq(ToHost) /\ c \in CpsType \union {NoPath}
        /\ c = NoPath => c2 = NoPath /\ Added(toHost, h2, p, <<>>)
        /\ c # NoPath => /\ c2 = r.cps
                         /\ Len(r.out) <= 1 => Added(toHost, h2, p, r.out)
    BY <1>2 DEF PollOK
  <1>4. PathOK(toHost, t, p, remote[p], local[p], c)
    OBVIOUS
  <1>5. c # NoPath => Polled(c, r, remote[p], p)
    <2> SUFFICES ASSUME c # NoPath PROVE Polled(c, r, remote[p], p)
      OBVIOUS
    <2>1. c \in CpsType
      BY <1>3
    <2>2. c.last <= Len(remote[p])
      BY <1>4 DEF PathOK, OffsetRight
    <2> QED BY <2>1, <2>2, PollFile
  <1>6. (\E i \in 1..Len(toHost) : SyncedAt(toHost, i, p)) => Ahead(c, due[p])
    OBVIOUS
  <1> HIDE DEF c, r, h2, c2
  <1>7. c # NoPath => Len(r.out) <= 1
    <2>1. \A b : Len(<<b>>) = 1
      OBVIOUS
    <2>2. Len(<<>>) = 0
      OBVIOUS
    <2>3. c # NoPath => (r.out = <<>> \/ \E b \in ToHost : r.out = <<b>>)
      BY <1>5 DEF Polled
    <2>4. c # NoPath => Len(r.out) = 0 \/ Len(r.out) = 1
      BY <2>1, <2>2, <2>3
    <2> DEFINE n == Len(r.out)
    <2>5. c # NoPath => n = 0 \/ n = 1
      BY <2>4
    <2> HIDE DEF n
    <2>6. c # NoPath => n <= 1
      BY <2>5
    <2> QED BY <2>6 DEF n
  <1>8. Added(toHost, h2, p, IF c = NoPath THEN <<>> ELSE r.out)
    BY <1>3, <1>7
  <1>9. c # NoPath => Polled(c, r, remote[p], p) /\ c2 = r.cps
    BY <1>3, <1>5
  <1>10. /\ src \in Contents(MaxLen) /\ d \in Nat /\ d <= Len(src)
         /\ ReportsRight(toHost, p, src, copy, d)
         /\ (\E i \in 1..Len(toHost) : SyncedAt(toHost, i, p)) => Ahead(c, d)
         /\ PathOK(toHost, t, p, src, copy, c)
         /\ c # NoPath => Polled(c, r, src, p) /\ c2 = r.cps
    BY <1>4, <1>6, <1>9
  <1> HIDE DEF src, copy, d
  <1>11. Answered(toHost, h2, p, src, c, r, c2) /\ DueNow(toHost, p, src, copy, c, d)
    BY <1>8, <1>10 DEF Answered, DueNow
  <1>12. /\ DueNow(h2, p, src, copy, c2, d)
         /\ DoneNow(toHost, p, src, copy, c, d) => DoneNow(h2, p, src, copy, c2, d)
    BY <1>1, <1>3, <1>10, <1>11, DuePolled
  <1> QED BY <1>12 DEF h2, c2, c, src, copy, d, DueNow, DoneNow

LEMMA DueTailer ==
    ASSUME TypeOK, PathInv, NEW p \in Sturdy, DuePath(p), TailerPacket \/ TailerPoll
    PROVE  DuePath(p)' /\ (Finished(p) => Finished(p)')
  <1>1. /\ p \in Paths /\ OnePath(p) /\ remote[p] \in Contents(MaxLen)
        /\ local[p] \in Copies \union {NoFile} /\ cps[p] \in CpsType \union {NoPath}
        /\ toHost \in Seq(ToHost) /\ toTailer \in Seq(ToTailer)
    BY PathTypes
  <1>2. up /\ up' /\ remote' = remote /\ local' = local /\ due' = due
    BY DEF TailerPacket, TailerPoll, files, looperV
  <1>3. PathOK(toHost, toTailer, p, remote[p], local[p], cps[p])
    BY <1>1, <1>2 DEF OnePath
  <1>4. cps \in [Paths -> CpsType \union {NoPath}] /\ due[p] \in Nat
    BY DueTypes DEF TypeOK
  <1>5. /\ due[p] <= Len(remote[p])
        /\ ReportsRight(toHost, p, remote[p], local[p], due[p])
        /\ (\E i \in 1..Len(toHost) : SyncedAt(toHost, i, p)) => Ahead(cps[p], due[p])
    BY <1>2 DEF DuePath
  <1>6. TailsRight(toHost', p, remote'[p], local'[p])
    <2>1. PathInv'
      BY PathTailer
    <2>2. PathOK(toHost', toTailer', p, remote'[p], local'[p], cps'[p])
      BY <1>2, <2>1 DEF PathInv
    <2> QED BY <2>2, TailsOf
  <1>7. CASE TailerPoll
    <2>1. poll_paths(cps)
      BY <1>7 DEF TailerPoll
    <2> QED BY <1>1, <1>2, <1>3, <1>4, <1>5, <1>6, <2>1, DuePoll DEF DuePath, Finished
  <1>8. CASE TailerPacket
    <2> DEFINE m == Head(toTailer)
               table == handle_packet(m)
               t == Tail(toTailer)
    <2>1. poll_paths(table) /\ toTailer # <<>>
      BY <1>8 DEF TailerPacket
    <2>2. m \in ToTailer /\ m = toTailer[1]
      BY <1>1, <2>1, TailFacts
    <2>3. /\ table \in [Paths -> CpsType \union {NoPath}]
          /\ table[p] = IF m.path = p THEN Handled(cps[p], m) ELSE cps[p]
      BY <1>1, <1>4, <2>2, HandleTable
    <2>4. Len(toHost) \in Nat
      BY <1>1
    <2>5. PathOK(toHost, t, p, remote[p], local[p],
                 IF toTailer[1].path = p THEN Handled(cps[p], toTailer[1]) ELSE cps[p])
      BY <1>1, <1>3, <2>1, <2>4, HandlePacket
    <2>6. PathOK(toHost, t, p, remote[p], local[p], table[p])
      BY <2>2, <2>3, <2>5
    <2>7. Ahead(cps[p], due[p]) => table[p] = cps[p]
      BY <1>1, <1>3, <2>1, <2>2, <2>3, AheadHandled
    <2> HIDE DEF table, t, m
    <2>8. (\E i \in 1..Len(toHost) : SyncedAt(toHost, i, p)) => Ahead(table[p], due[p])
      BY <1>5, <2>7
    <2>9. /\ ReportsRight(toHost', p, remote[p], local[p], due[p])
          /\ (\E i \in 1..Len(toHost') : SyncedAt(toHost', i, p)) => Ahead(cps'[p], due[p])
          /\ Holds(toHost, 0, p, remote[p], local[p], due[p]) /\ Ahead(table[p], due[p])
                => /\ Holds(toHost', 0, p, remote[p], local[p], due[p])
                   /\ Ahead(cps'[p], due[p])
      BY <1>1, <1>4, <1>5, <2>1, <2>3, <2>6, <2>8, DuePoll
    <2> QED BY <1>2, <1>5, <1>6, <2>7, <2>9 DEF DuePath, Finished
  <1> QED BY <1>7, <1>8

\* The host reads the report of p: the path is finished.
LEMMA ReportFinishes ==
    ASSUME TypeOK, NEW p \in Sturdy, DuePath(p), toHost # <<>>, SyncedAt(toHost, 1, p)
    PROVE  Finished(p)
  <1>1. 1 \in 1..Len(toHost) /\ 1 - 1 = 0
    BY TailFacts DEF TypeOK
  <1> QED BY <1>1 DEF DuePath, ReportsRight, Finished

LEMMA DueRead ==
    ASSUME TypeOK, PathInv, NEW p \in Sturdy, DuePath(p), toHost # <<>>,
           toHost' = Tail(toHost), remote' = remote, up' = up, cps' = cps, due' = due,
           TailAt(toHost, 1, p) => Agree(remote[p], local'[p], EndOf(toHost[1])),
           ~TailAt(toHost, 1, p) => local'[p] = local[p]
    PROVE  DuePath(p)' /\ (Finished(p) => Finished(p)')
  <1> DEFINE h == toHost
             g == Tail(toHost)
             src == remote[p]
             copy == local[p]
             copy2 == local'[p]
             d == due[p]
  <1>1. h \in Seq(ToHost) /\ h # <<>> /\ d \in Nat /\ Len(h) \in Nat
    BY PathTypes, DueTypes
  <1>2. /\ TailAt(h, 1, p) => Agree(src, copy2, EndOf(h[1]))
        /\ ~TailAt(h, 1, p) => copy2 = copy
        /\ d <= Len(src) /\ TailsRight(h, p, src, copy) /\ ReportsRight(h, p, src, copy, d)
        /\ up /\ (\E i \in 1..Len(h) : SyncedAt(h, i, p)) => Ahead(cps[p], d)
    BY DEF DuePath
  <1>3. g = Tail(h)
    OBVIOUS
  <1> HIDE DEF h, g, src, copy, copy2, d
  <1>4. TailsRight(g, p, src, copy2)
    BY <1>1, <1>2, <1>3, TailsRead
  <1>5. /\ ReportsRight(g, p, src, copy2, d)
        /\ \A i \in 1..Len(g) : SyncedAt(g, i, p) => i + 1 \in 1..Len(h) /\ SyncedAt(h, i + 1, p)
    BY <1>1, <1>2, <1>3, ReportsRead
  <1>6. up /\ (\E i \in 1..Len(g) : SyncedAt(g, i, p)) => Ahead(cps[p], d)
    BY <1>2, <1>5
  <1>7. DuePath(p)'
    BY <1>2, <1>4, <1>5, <1>6 DEF DuePath, g, src, copy2, d
  <1>8. ASSUME Holds(h, 0, p, src, copy, d) PROVE Holds(g, 0, p, src, copy2, d)
    <2>1. 0 \in 0..Len(h)
      BY <1>1
    <2>2. Holds(Tail(h), IF 0 = 0 THEN 0 ELSE 0 - 1, p, src, copy2, d)
      BY <1>1, <1>2, <1>8, <2>1, HoldsRead
    <2> QED BY <1>3, <2>2
  <1>9. Finished(p) => Finished(p)'
    BY <1>8 DEF Finished, h, g, src, copy, copy2, d
  <1> QED BY <1>7, <1>9

\* The tail block of p at the head of the pipe is written.
LEMMA TailWritten ==
    ASSUME TypeOK, PathInv, NEW p \in Sturdy, DuePath(p), packet_tail_block
    PROVE  /\ TailAt(toHost, 1, p) => Agree(remote[p], local'[p], EndOf(toHost[1]))
           /\ ~TailAt(toHost, 1, p) => local'[p] = local[p]
  <1>1. /\ p \in Paths /\ remote[p] \in Contents(MaxLen)
        /\ local[p] \in Copies \union {NoFile}
        /\ local \in [Paths -> Copies \union {NoFile}]
    BY PathTypes DEF TypeOK
  <1> DEFINE m == toHost[1]
             old == IF local[m.path] = NoFile THEN <<>> ELSE local[m.path]
             new == Truncated(old, m.offset) \o m.bits
  <1>2. /\ toHost # <<>> /\ Head(toHost) = m /\ m \in ToHost /\ m.type = "TAIL"
        /\ 1 \in 1..Len(toHost)
    BY HeadOf DEF packet_tail_block
  <1>3. local' = [local EXCEPT ![m.path] = new]
    BY <1>2 DEF packet_tail_block
  <1>4. ~TailAt(toHost, 1, p) => local'[p] = local[p]
    BY <1>1, <1>2, <1>3 DEF TailAt
  <1>5. ASSUME TailAt(toHost, 1, p) PROVE Agree(remote[p], local'[p], EndOf(toHost[1]))
    <2>1. m.path = p
      BY <1>5 DEF TailAt
    <2>2. old \in Seq(Blocks \union {Hole})
      BY <1>1, <2>1, CopyType
    <2>3. old = IF local[p] = NoFile THEN <<>> ELSE local[p]
      BY <2>1
    <2> HIDE DEF old
    <2>4. /\ new \in Copies
          /\ \A src \in Contents(MaxLen) :
                Genuine(m, src) /\ (m.offset # 0 => Agree(src, old, m.offset))
                   => Agree(src, new, EndOf(m))
      BY <1>2, <2>2, WriteBlock
    <2>5. local'[p] = new
      BY <1>1, <1>3, <2>1
    <2>6. /\ Genuine(m, remote[p])
          /\ m.offset = 0 \/ Reached(toHost, 1 - 1, p, remote[p], local[p], m.offset)
      BY <1>2, <1>5 DEF DuePath, TailsRight, m
    <2> HIDE DEF new, m
    <2>7. ASSUME m.offset # 0 PROVE Agree(remote[p], old, m.offset)
      <3>1. Reached(toHost, 0, p, remote[p], local[p], m.offset)
        BY <2>6, <2>7
      <3>2. Agree(remote[p], local[p], m.offset)
        BY <3>1, ReachedNow
      <3>3. local[p] # NoFile
        BY <3>2 DEF Agree
      <3> QED BY <2>3, <3>2, <3>3
    <2> QED BY <1>1, <2>4, <2>5, <2>6, <2>7 DEF m
  <1> QED BY <1>4, <1>5

\* The pipe is emptied, or cut, and the tailer is gone.
LEMMA DueCut ==
    ASSUME TypeOK, PathInv, NEW p \in Sturdy, DuePath(p),
           ~up', Cut(toHost, toHost'), remote' = remote, local'[p] = local[p], due' = due
    PROVE  DuePath(p)' /\ (Finished(p) => Finished(p)')
  <1> DEFINE h2 == toHost'
             src == remote[p]
             copy == local[p]
             d == due[p]
  <1>1. /\ Cut(toHost, h2) /\ Len(toHost) \in Nat
        /\ d <= Len(src) /\ TailsRight(toHost, p, src, copy)
        /\ ReportsRight(toHost, p, src, copy, d)
    BY DueTypes DEF DuePath
  <1> HIDE DEF h2, src, copy, d
  <1>2. ReportsRight(h2, p, src, copy, d) /\ TailsRight(h2, p, src, copy)
    BY <1>1, ReportsCut
  <1>3. ASSUME Holds(toHost, 0, p, src, copy, d) PROVE Holds(h2, 0, p, src, copy, d)
    <2>1. 0 \in 0..Len(h2)
      BY <1>1 DEF Cut
    <2> QED BY <1>1, <1>3, <2>1, HoldsCut
  <1>4. DuePath(p)'
    BY <1>1, <1>2 DEF DuePath, h2, src, copy, d
  <1>5. Finished(p) => Finished(p)'
    BY <1>3 DEF Finished, h2, src, copy, d
  <1> QED BY <1>4, <1>5

\* Nothing of p changes.
LEMMA DueStill ==
    ASSUME NEW p \in Sturdy, DuePath(p), toHost' = toHost, remote'[p] = remote[p],
           local'[p] = local[p], up' = up, cps'[p] = cps[p], due'[p] = due[p]
    PROVE  DuePath(p)' /\ (Finished(p) => Finished(p)')
  BY DEF DuePath, Finished

\* The file of p grows, or stays as it is.
LEMMA RemoteGrows ==
    ASSUME TypeOK, PathInv, NEW q \in Paths, AppendBlock(q) \/ Replace(q) \/ Delete(q),
           NEW p \in Sturdy
    PROVE  /\ remote'[p] \in Contents(MaxLen) /\ Grown(remote[p], remote'[p])
           /\ UNCHANGED <<local, up, cps, toHost, due>>
  <1>1. /\ p \in Paths /\ remote[p] \in Contents(MaxLen)
        /\ remote \in [Paths -> Contents(MaxLen) \union {NoFile}]
    BY PathTypes DEF TypeOK
  <1>2. UNCHANGED <<local, up, cps, toHost, due>>
    BY DEF AppendBlock, Replace, Delete, unchangedByFiles, tailerV, pipes, looperV
  <1>3. PathInv' /\ TypeOK'
    BY PathFiles, TypeFiles
  <1>4. remote'[p] \in Contents(MaxLen)
    BY <1>1, <1>3 DEF PathInv, TypeOK
  <1>5. CASE remote'[p] = remote[p]
    <2>1. Len(remote[p]) \in Nat
      BY <1>1, CopyType
    <2>2. Len(remote[p]) <= Len(remote[p])
      BY <2>1
    <2> QED BY <1>2, <1>4, <1>5, <2>2 DEF Grown
  <1>6. CASE AppendBlock(q) /\ p = q
    <2> DEFINE s == remote[p]
    <2>1. PICK b \in Blocks : remote' = [remote EXCEPT ![q] = Append(@, b)]
      BY <1>6 DEF AppendBlock
    <2>2. remote'[p] = Append(s, b) /\ s \in Seq(Blocks)
      BY <1>1, <1>6, <2>1, CopyType
    <2> HIDE DEF s
    <2>3. Len(s) <= Len(Append(s, b)) /\ \A i \in 1..Len(s) : Append(s, b)[i] = s[i]
      BY <2>2
    <2> QED BY <1>2, <1>4, <2>2, <2>3 DEF Grown, s
  <1>7. remote'[p] = remote[p] \/ (AppendBlock(q) /\ p = q)
    BY <1>1 DEF AppendBlock, Replace, Delete, Sturdy
  <1> QED BY <1>5, <1>6, <1>7

LEMMA DueFiles ==
    ASSUME TypeOK, PathInv, NEW q \in Paths, AppendBlock(q) \/ Replace(q) \/ Delete(q),
           NEW p \in Sturdy, DuePath(p)
    PROVE  DuePath(p)' /\ (Finished(p) => Finished(p)')
  <1> DEFINE src == remote[p]
             src2 == remote'[p]
             copy == local[p]
             d == due[p]
  <1>1. /\ toHost \in Seq(ToHost) /\ src \in Contents(MaxLen) /\ src2 \in Contents(MaxLen)
        /\ copy \in Copies \union {NoFile} /\ Grown(src, src2) /\ d \in Nat
    BY PathTypes, RemoteGrows, DueTypes
  <1>2. UNCHANGED <<local, up, cps, toHost, due>>
    BY RemoteGrows
  <1>3. /\ d <= Len(src) /\ TailsRight(toHost, p, src, copy)
        /\ ReportsRight(toHost, p, src, copy, d)
        /\ up /\ (\E i \in 1..Len(toHost) : SyncedAt(toHost, i, p)) => Ahead(cps[p], d)
    BY DEF DuePath
  <1> HIDE DEF src, src2, copy, d
  <1>4. /\ \A n \in Int : Holds(toHost, n, p, src, copy, d) => Holds(toHost, n, p, src2, copy, d)
        /\ ReportsRight(toHost, p, src2, copy, d)
    BY <1>1, <1>3, HoldsGrow
  <1>5. TailsRight(toHost, p, src2, copy)
    BY <1>1, <1>3, GrowFacts
  <1>6. d <= Len(src2)
    <2>1. Len(src) \in Nat /\ Len(src2) \in Nat /\ Len(src) <= Len(src2)
      BY <1>1, CopyType DEF Grown
    <2> QED BY <1>1, <1>3, <2>1
  <1>7. DuePath(p)'
    BY <1>2, <1>3, <1>4, <1>5, <1>6 DEF DuePath, src2, copy, d
  <1>8. 0 \in Int
    OBVIOUS
  <1>9. Finished(p) => Finished(p)'
    BY <1>2, <1>4, <1>8 DEF Finished, src, src2, copy, d
  <1> QED BY <1>7, <1>9

\* An emptied pipe is a cut one.
LEMMA CutAll ==
    ASSUME NEW h PROVE Cut(h, <<>>)
  <1>1. Len(<<>>) = 0 /\ 1..0 = {}
    OBVIOUS
  <1> QED BY <1>1 DEF Cut

LEMMA DueConnect ==
    ASSUME TypeOK, PathInv, NEW p \in Sturdy, DuePath(p), loop_connect
    PROVE  DuePath(p)'
  <1>1. /\ p \in Paths /\ remote[p] \in Contents(MaxLen) /\ remote[p] # NoFile
    BY PathTypes DEF OnePath
  <1>2. /\ remote' = remote /\ local' = local /\ toHost' = <<>>
        /\ due'[p] = IF p \in newPaths \union oldPaths /\ remote[p] # NoFile
                     THEN Len(remote[p]) ELSE due[p]
    BY <1>1 DEF loop_connect, files
  <1>3. due'[p] <= Len(remote'[p])
    <2>1. Len(remote[p]) \in Nat
      BY <1>1, CopyType
    <2>2. Len(remote[p]) <= Len(remote[p])
      BY <2>1
    <2> QED BY <1>2, <2>2 DEF DuePath
  <1>4. Len(<<>>) = 0 /\ 1..0 = {}
    OBVIOUS
  <1> QED BY <1>2, <1>3, <1>4 DEF DuePath, TailsRight, ReportsRight

\* Every step keeps the reports right; a finished path stays finished until the host is
\* connected anew.
LEMMA DueStep ==
    ASSUME TypeOK, PathInv, DueInv, Next, NEW p \in Sturdy
    PROVE  DuePath(p)' /\ (~loop_connect => (Finished(p) => Finished(p)'))
  <1>1. DuePath(p) /\ p \in Paths /\ toHost \in Seq(ToHost)
    BY PathTypes DEF DueInv
  <1>2. CASE TailerPacket \/ TailerPoll
    BY <1>1, <1>2, DueTailer
  <1>3. CASE \/ open_remote_path \/ (\E q \in Paths : add_remote(q)) \/ child_finished
             \/ loop_refused \/ loop_send
    <2>1. UNCHANGED <<toHost, remote, local, up, cps, due>>
      BY <1>3 DEF open_remote_path, add_remote, child_finished, loop_refused, loop_send,
                  files, tailerV, pipes, looperV
    <2> QED BY <1>1, <2>1, DueStill
  <1>4. CASE packet_eof
    <2>1. /\ ~up' /\ toHost' = <<>> /\ UNCHANGED <<remote, local, due>>
      BY <1>4 DEF packet_eof, disconnect, files, looperV
    <2>2. Cut(toHost, toHost')
      BY <2>1, CutAll
    <2> QED BY <1>1, <2>1, <2>2, DueCut
  <1>5. CASE packet_error \/ packet_synced
    <2>1. /\ toHost # <<>> /\ toHost[1].type \in {"ERROR", "SYNCED"}
          /\ disconnect("synced") \/ consume
          /\ UNCHANGED <<remote, due>>
      BY <1>5, HeadOf DEF packet_error, packet_synced, files, looperV
    <2>2. local'[p] = local[p]
      <3>1. CASE packet_synced
        BY <3>1 DEF packet_synced, files
      <3>2. CASE packet_error
        <4>1. Head(toHost).path # p
          BY <3>2, ErrorElsewhere DEF packet_error
        <4>2. local' = [local EXCEPT ![Head(toHost).path] = NoFile]
          BY <3>2 DEF packet_error
        <4> QED BY <1>1, <4>1, <4>2 DEF TypeOK
      <3> QED BY <1>5, <3>1, <3>2
    <2>3. CASE disconnect("synced")
      <3>1. ~up' /\ toHost' = <<>>
        BY <2>3 DEF disconnect
      <3>2. Cut(toHost, toHost')
        BY <3>1, CutAll
      <3> QED BY <1>1, <2>1, <2>2, <3>1, <3>2, DueCut
    <2>4. CASE consume
      <3>1. toHost' = Tail(toHost) /\ up' = up /\ cps' = cps
        BY <2>4 DEF consume
      <3>2. ~TailAt(toHost, 1, p)
        BY <2>1 DEF TailAt
      <3> QED BY <1>1, <2>1, <2>2, <3>1, <3>2, DueRead
    <2> QED BY <2>1, <2>3, <2>4
  <1>6. CASE packet_offer_block
    <2>1. /\ toHost # <<>> /\ toHost[1].type = "OFFER"
          /\ toHost' = Tail(toHost) /\ UNCHANGED <<remote, local, up, cps, due>>
      BY <1>6, HeadOf DEF packet_offer_block, files, tailerV, looperV
    <2>2. ~TailAt(toHost, 1, p)
      BY <2>1 DEF TailAt
    <2> QED BY <1>1, <2>1, <2>2, DueRead
  <1>7. CASE packet_tail_block
    <2>1. /\ toHost # <<>> /\ toHost' = Tail(toHost) /\ UNCHANGED <<remote, up, cps, due>>
      BY <1>7, HeadOf DEF packet_tail_block, tailerV, looperV
    <2>2. /\ TailAt(toHost, 1, p) => Agree(remote[p], local'[p], EndOf(toHost[1]))
          /\ ~TailAt(toHost, 1, p) => local'[p] = local[p]
      BY <1>1, <1>7, TailWritten
    <2> QED BY <1>1, <2>1, <2>2, DueRead
  <1>8. CASE loop_connect
    BY <1>1, <1>8, DueConnect
  <1>9. ASSUME NEW q \in Paths, AppendBlock(q) \/ Replace(q) \/ Delete(q)
        PROVE  DuePath(p)' /\ (Finished(p) => Finished(p)')
    BY <1>1, <1>9, DueFiles
  <1>10. CASE Disconnect
    <2>1. ~up' /\ UNCHANGED <<remote, local, due>>
      BY <1>10 DEF Disconnect, files, looperV
    <2>2. Cut(toHost, toHost')
      BY <1>1, <1>10, BrokenPipe DEF Cut
    <2> QED BY <1>1, <2>1, <2>2, DueCut
  <1> QED BY <1>2, <1>3, <1>4, <1>5, <1>6, <1>7, <1>8, <1>9, <1>10 DEF Next

\* The step that connects the host counts the connection.
LEMMA Connecting ==
    ASSUME TypeOK, conns' = conns
    PROVE  ~loop_connect
  <1>1. conns \in Nat
    BY TailerAssumption DEF TypeOK
  <1> QED BY <1>1 DEF loop_connect

\* What is finished stays so.
Kept == \A p \in oldPaths \ (Fragile \union late) : Finished(p) => Finished(p)'

LEMMA KeptStep ==
    ASSUME TypeOK, PathInv, DueInv, Next, ~loop_connect
    PROVE  Kept
  BY DueStep DEF Kept, Sturdy, TypeOK

\* A poll with no open path sends nothing.
LEMMA PollNothing ==
    ASSUME TypeOK, Fresh, TailerPacket \/ TailerPoll
    PROVE  Fresh'
  <1>1. toTailer = <<>> /\ toHost = <<>> /\ \A p \in Paths : cps[p] = NoPath
    BY DEF Fresh
  <1>2. TailerPoll
    BY <1>1 DEF TailerPacket
  <1>3. /\ poll_paths(cps) /\ toTailer' = <<>> /\ toHost \in Seq(ToHost)
        /\ cps \in [Paths -> CpsType \union {NoPath}]
        /\ remote \in [Paths -> Contents(MaxLen) \union {NoFile}]
    BY <1>1, <1>2 DEF TailerPoll, TypeOK
  <1> DEFINE h2 == toHost'
  <1>4. PollOK(cps, cps', toHost, h2)
    BY <1>3, PollPaths
  <1>5. h2 \in Seq(ToHost) /\ \A p \in Paths : cps'[p] = NoPath /\ Added(toHost, h2, p, <<>>)
    BY <1>1, <1>4 DEF PollOK
  <1> HIDE DEF h2
  <1>6. h2 = <<>>
    <2>1. SUFFICES ASSUME Len(h2) # 0 PROVE FALSE
      BY <1>5
    <2>2. Len(h2) \in Nat /\ 1 \in 1..Len(h2)
      BY <1>5, <2>1
    <2>3. h2[1] \in ToHost
      BY <1>5, <2>2
    <2>4. h2[1].path \in Paths
      BY <2>3, BlockType
    <2> DEFINE p == h2[1].path
    <2>5. Added(toHost, h2, p, <<>>)
      BY <1>5, <2>4
    <2>6. \A k : <<>> # <<h2[k]>>
      OBVIOUS
    <2>7. \A i \in (Len(toHost) + 1)..Len(h2) : h2[i].path # p
      BY <2>5, <2>6 DEF Added
    <2>8. Len(toHost) = 0 /\ 1 \in (Len(toHost) + 1)..Len(h2)
      BY <1>1, <2>2
    <2> QED BY <2>7, <2>8
  <1> QED BY <1>3, <1>5, <1>6 DEF Fresh, h2

\* The host has one desired path less: if none is left, all that was sent is copied.
LEMMA LastDesired ==
    ASSUME TypeOK, PathInv, DueInv, HostInv, ~follow,
           Next_is("ERROR") \/ Next_is("SYNCED"),
           desired' = desired \ {Head(toHost).path},
           NEW p \in oldPaths \ (Fragile \union late)
    PROVE  Finished(p) \/ (p \in desired' /\ desired' # {})
  <1>1. ht = "connected" /\ toHost # <<>>
    BY DEF Next_is
  <1>2. htOpen \subseteq late
    BY <1>1 DEF HostInv, OpenFresh, Fresh
  <1>3. p \in desired \/ Finished(p)
    BY <1>1, <1>2 DEF HostInv, OldKept
  <1>4. p \in Sturdy
    BY DEF TypeOK, Sturdy
  <1>5. ASSUME p = Head(toHost).path PROVE Finished(p)
    <2>1. Next_is("SYNCED")
      BY <1>4, <1>5, ErrorElsewhere
    <2>2. SyncedAt(toHost, 1, p)
      BY <1>5, <2>1, HeadOf DEF SyncedAt
    <2> QED BY <1>1, <1>4, <2>2, ReportFinishes DEF DueInv
  <1> QED BY <1>3, <1>5

LEMMA HostTailer ==
    ASSUME TypeOK, PathInv, DueInv, HostInv, TailerPacket \/ TailerPoll
    PROVE  HostInv'
  <1>1. UNCHANGED <<files, hostV, looperV, mainV>>
    BY DEF TailerPacket, TailerPoll
  <1>2. OpenFresh'
    BY <1>1, PollNothing DEF HostInv, OpenFresh, hostV, mainV
  <1>3. ~loop_connect
    <2>1. conns' = conns
      BY DEF TailerPacket, TailerPoll, counters
    <2> QED BY <2>1, Connecting
  <1>4. Kept
    <2>1. Next
      BY DEF Next
    <2> QED BY <1>3, <2>1, KeptStep
  <1> QED BY <1>1, <1>2, <1>4 DEF HostInv, NewLate, OldKept, Kept, hostV, looperV, mainV

LEMMA HostPackets ==
    ASSUME TypeOK, PathInv, DueInv, HostInv,
           packet_error \/ packet_synced
    PROVE  HostInv'
  <1> DEFINE q == Head(toHost).path
  <1>1. Next_is("ERROR") \/ Next_is("SYNCED")
    BY DEF packet_error, packet_synced
  <1>2. /\ ht = "connected" /\ toHost # <<>>
        /\ UNCHANGED <<htOpen, newPaths, oldPaths, late, follow>>
        /\ desired' = IF follow THEN desired ELSE desired \ {q}
        /\ IF desired' = {} THEN disconnect("synced") ELSE consume
    BY DEF packet_error, packet_synced, Next_is, looperV
  <1>3. htOpen \subseteq late /\ newPaths \subseteq late
    BY <1>2 DEF HostInv, OpenFresh, Fresh, NewLate
  <1>4. NewLate' /\ OpenFresh'
    BY <1>2, <1>3 DEF NewLate, OpenFresh
  <1>5. ~follow' => syncedSet' = {}
    BY <1>2 DEF HostInv, packet_error, packet_synced
  <1>6. ASSUME ~follow, NEW p \in oldPaths \ (Fragile \union late)
        PROVE  /\ ht' = "connected" => p \in htOpen \union desired' \/ Finished(p)'
               /\ ht' = "synced" => Finished(p)'
    <2>1. desired' = desired \ {q}
      BY <1>2, <1>6
    <2>2. Finished(p) \/ (p \in desired' /\ desired' # {})
      BY <1>1, <1>6, <2>1, LastDesired
    <2>3. Kept
      BY <1>2, KeptStep DEF Next, loop_connect
    <2>4. Finished(p) => Finished(p)'
      BY <1>6, <2>3 DEF Kept
    <2>5. desired' # {} => ht' = "connected"
      BY <1>2 DEF consume
    <2> QED BY <2>2, <2>4, <2>5
  <1>7. OldKept'
    BY <1>2, <1>6 DEF OldKept
  <1> QED BY <1>4, <1>5, <1>7 DEF HostInv

LEMMA HostOthers ==
    ASSUME TypeOK, PathInv, DueInv, HostInv,
           \/ open_remote_path \/ packet_eof \/ packet_offer_block \/ packet_tail_block
           \/ child_finished \/ loop_connect \/ loop_refused \/ loop_send
           \/ \E p \in Paths : \/ add_remote(p) \/ AppendBlock(p) \/ Replace(p) \/ Delete(p)
           \/ Disconnect
    PROVE  HostInv'
  <1>1. ~loop_connect => Kept
    BY KeptStep DEF Next
  <1>2. CASE open_remote_path
    <2>1. /\ desired' = desired \union htOpen /\ htOpen' = {}
          /\ UNCHANGED <<ht, syncedSet, newPaths, oldPaths, late, follow>>
          /\ ht = "connected"
      BY <1>2 DEF open_remote_path, looperV, mainV
    <2>2. Kept
      BY <1>1, <2>1 DEF loop_connect
    <2> QED BY <2>1, <2>2 DEF HostInv, NewLate, OpenFresh, OldKept, Kept
  <1>3. CASE packet_eof
    <2>1. /\ ht = "connected" /\ ht' = "disconnected"
          /\ UNCHANGED <<syncedSet, newPaths, oldPaths, late, follow>>
      BY <1>3 DEF packet_eof, disconnect, looperV
    <2> QED BY <2>1 DEF HostInv, NewLate, OpenFresh, OldKept
  <1>4. CASE packet_offer_block \/ packet_tail_block
    <2>1. /\ ht = "connected" /\ toHost # <<>>
          /\ UNCHANGED <<ht, htOpen, desired, syncedSet, newPaths, oldPaths, late, follow>>
      BY <1>4 DEF packet_offer_block, packet_tail_block, Next_is, hostV, looperV, mainV
    <2>2. Kept
      BY <1>1, <2>1 DEF loop_connect
    <2> QED BY <2>1, <2>2 DEF HostInv, NewLate, OpenFresh, Fresh, OldKept, Kept
  <1>5. CASE child_finished
    <2>1. /\ ht' = "none" /\ UNCHANGED <<syncedSet, late, follow>>
      BY <1>5 DEF child_finished
    <2> QED BY <2>1 DEF HostInv, NewLate, OpenFresh, OldKept
  <1>6. CASE loop_connect
    <2>1. /\ ht' = "connected" /\ toTailer' = <<>> /\ toHost' = <<>> /\ syncedSet' = {}
          /\ cps' = [p \in Paths |-> NoPath]
          /\ htOpen' = newPaths \union oldPaths /\ oldPaths' = newPaths \union oldPaths
          /\ newPaths' = {}
      BY <1>6 DEF loop_connect
    <2>2. Fresh'
      BY <2>1 DEF Fresh
    <2> QED BY <2>1, <2>2 DEF HostInv, NewLate, OpenFresh, OldKept
  <1>7. CASE loop_refused
    <2>1. /\ ht = "none" /\ UNCHANGED <<ht, syncedSet, late, follow>>
      BY <1>7 DEF loop_refused, hostV
    <2> QED BY <2>1 DEF HostInv, NewLate, OpenFresh, OldKept
  <1>8. CASE loop_send
    <2>1. /\ ht # "none" /\ htOpen' = htOpen \union newPaths
          /\ oldPaths' = oldPaths \union newPaths /\ newPaths' = {}
          /\ UNCHANGED <<cps, toTailer, toHost, ht, desired, syncedSet, late, follow>>
      BY <1>8 DEF loop_send, tailerV, pipes, mainV
    <2>2. newPaths \subseteq late
      BY <2>1 DEF HostInv, NewLate
    <2>3. Kept
      BY <1>1, <2>1 DEF loop_connect
    <2> QED BY <2>1, <2>2, <2>3 DEF HostInv, NewLate, OpenFresh, Fresh, OldKept, Kept
  <1>9. ASSUME NEW p \in Paths, add_remote(p) PROVE HostInv'
    <2>1. /\ late' = IF ht = "none" THEN late ELSE late \union {p}
          /\ newPaths' = newPaths \union {p}
          /\ UNCHANGED <<cps, toTailer, toHost, ht, htOpen, desired, syncedSet, oldPaths,
                         follow, conns>>
      BY <1>9 DEF add_remote, tailerV, pipes, hostV, counters
    <2>2. Kept
      <3>1. ~loop_connect
        BY <2>1, Connecting
      <3> QED BY <1>1, <3>1
    <2> QED BY <2>1, <2>2 DEF HostInv, NewLate, OpenFresh, Fresh, OldKept, Kept
  <1>10. ASSUME NEW p \in Paths, AppendBlock(p) \/ Replace(p) \/ Delete(p) PROVE HostInv'
    <2>1. UNCHANGED <<tailerV, pipes, hostV, looperV, mainV, conns>>
      BY <1>10 DEF AppendBlock, Replace, Delete, unchangedByFiles
    <2>2. Kept
      <3>1. ~loop_connect
        BY <2>1, Connecting
      <3> QED BY <1>1, <3>1
    <2> QED BY <2>1, <2>2 DEF HostInv, NewLate, OpenFresh, Fresh, OldKept, Kept, tailerV, pipes,
                              hostV, looperV, mainV
  <1>11. CASE Disconnect
    <2>1. /\ toTailer' = <<>> /\ cps' = [p \in Paths |-> NoPath] /\ toHost \in Seq(ToHost)
          /\ UNCHANGED <<hostV, looperV, mainV, conns>>
      BY <1>11 DEF Disconnect, TypeOK, counters
    <2>2. Fresh => Fresh'
      <3> DEFINE h2 == toHost'
      <3>1. h2 \in Seq(ToHost) /\ Len(h2) \in Nat /\ Len(h2) <= Len(toHost)
        BY <1>11, <2>1, BrokenPipe
      <3> HIDE DEF h2
      <3>2. ASSUME toHost = <<>> PROVE h2 = <<>>
        <4>1. Len(toHost) = 0
          BY <3>2
        <4>2. Len(h2) = 0
          BY <3>1, <4>1
        <4> QED BY <3>1, <4>2
      <3> QED BY <2>1, <3>2 DEF Fresh, h2
    <2>3. Kept
      <3>1. ~loop_connect
        BY <2>1, Connecting
      <3> QED BY <1>1, <3>1
    <2> QED BY <2>1, <2>2, <2>3 DEF HostInv, NewLate, OpenFresh, OldKept, Kept, hostV, looperV,
                                    mainV
  <1> QED BY <1>2, <1>3, <1>4, <1>5, <1>6, <1>7, <1>8, <1>9, <1>10, <1>11

LEMMA HostStep == TypeOK /\ PathInv /\ DueInv /\ HostInv /\ [Next]_vars => HostInv'
  <1>1. TypeOK /\ PathInv /\ DueInv /\ HostInv /\ Next => HostInv'
    BY HostTailer, HostPackets, HostOthers DEF Next
  <1>2. HostInv /\ UNCHANGED vars => HostInv'
    BY DEF HostInv, NewLate, OpenFresh, Fresh, OldKept, Finished, vars, files, tailerV, pipes,
           hostV, looperV, mainV
  <1> QED BY <1>1, <1>2
-----------------------------------------------------------------------------
(* What the host was not sent is not talked about.                         *)

\* Pipes in which no packet is for p.
LEMMA NoneForFacts ==
    ASSUME NEW p
    PROVE  /\ NoneFor(<<>>, p)
           /\ \A q \in Seq(ToHost) : q # <<>> /\ NoneFor(q, p) => NoneFor(Tail(q), p)
           /\ \A q \in Seq(ToTailer) : q # <<>> /\ NoneFor(q, p) => NoneFor(Tail(q), p)
  <1>1. Len(<<>>) = 0 /\ 1..0 = {}
    OBVIOUS
  <1>2. ASSUME NEW S, NEW q \in Seq(S), q # <<>>, NoneFor(q, p) PROVE NoneFor(Tail(q), p)
    <2> DEFINE g == Tail(q)
    <2>1. Len(g) = Len(q) - 1 /\ \A i \in 1..(Len(q) - 1) : i + 1 \in 1..Len(q) /\ g[i] = q[i + 1]
      BY <1>2, TailFacts
    <2> HIDE DEF g
    <2>2. NoneFor(g, p)
      BY <1>2, <2>1 DEF NoneFor
    <2> QED BY <2>2 DEF g
  <1> QED BY <1>1, <1>2 DEF NoneFor

\* A poll of a path that is not open adds nothing for it.
LEMMA NotAdded ==
    ASSUME NEW h \in Seq(ToHost), NEW h2 \in Seq(ToHost), NEW p, NoneFor(h, p),
           Added(h, h2, p, <<>>)
    PROVE  NoneFor(h2, p)
  <1>1. \A k : <<>> # <<h2[k]>>
    OBVIOUS
  <1>2. /\ \A i \in 1..Len(h) : h2[i] = h[i]
        /\ \A i \in (Len(h) + 1)..Len(h2) : h2[i].path # p
    BY <1>1 DEF Added, Extends
  <1>3. Len(h) \in Nat /\ Len(h2) \in Nat
    OBVIOUS
  <1>4. \A i \in 1..Len(h2) : i \in 1..Len(h) \/ i \in (Len(h) + 1)..Len(h2)
    BY <1>3
  <1> QED BY <1>2, <1>4 DEF NoneFor

LEMMA UnknownPolled ==
    ASSUME TypeOK, TailerPacket \/ TailerPoll, NEW p \in Paths, Unknown(p)
    PROVE  Unknown(p)'
  <1>1. /\ toHost \in Seq(ToHost) /\ toTailer \in Seq(ToTailer)
        /\ cps \in [Paths -> CpsType \union {NoPath}]
        /\ remote \in [Paths -> Contents(MaxLen) \union {NoFile}]
    BY DEF TypeOK
  <1>2. p \notin htOpen /\ cps[p] = NoPath /\ NoneFor(toHost, p) /\ NoneFor(toTailer, p)
    BY DEF Unknown
  <1>3. htOpen' = htOpen
    BY DEF TailerPacket, TailerPoll, hostV
  <1>4. ASSUME NEW table \in [Paths -> CpsType \union {NoPath}], table[p] = NoPath,
               poll_paths(table)
        PROVE  cps'[p] = NoPath /\ NoneFor(toHost', p)
    <2> DEFINE h2 == toHost'
    <2>1. PollOK(table, cps', toHost, h2)
      BY <1>1, <1>4, PollPaths
    <2>2. h2 \in Seq(ToHost) /\ cps'[p] = NoPath /\ Added(toHost, h2, p, <<>>)
      BY <1>4, <2>1 DEF PollOK
    <2> HIDE DEF h2
    <2>3. NoneFor(h2, p)
      BY <1>1, <1>2, <2>2, NotAdded
    <2> QED BY <2>2, <2>3 DEF h2
  <1>5. CASE TailerPoll
    <2>1. toTailer' = toTailer /\ poll_paths(cps)
      BY <1>5 DEF TailerPoll
    <2> QED BY <1>1, <1>2, <1>3, <1>4, <2>1 DEF Unknown
  <1>6. CASE TailerPacket
    <2> DEFINE m == Head(toTailer)
    <2>1. toTailer # <<>> /\ toTailer' = Tail(toTailer) /\ poll_paths(handle_packet(m))
      BY <1>6 DEF TailerPacket
    <2>2. m = toTailer[1] /\ 1 \in 1..Len(toTailer) /\ toTailer[1] \in ToTailer
      BY <1>1, <2>1, TailFacts
    <2>3. m \in ToTailer /\ m.path # p
      BY <1>2, <2>2 DEF NoneFor
    <2> HIDE DEF m
    <2>4. /\ handle_packet(m) \in [Paths -> CpsType \union {NoPath}]
          /\ handle_packet(m)[p] = cps[p]
      BY <1>1, <2>3, HandleTable
    <2>5. cps'[p] = NoPath /\ NoneFor(toHost', p)
      BY <1>2, <1>4, <2>1, <2>4
    <2>6. NoneFor(toTailer', p)
      BY <1>1, <1>2, <2>1, NoneForFacts
    <2> QED BY <1>2, <1>3, <2>5, <2>6 DEF Unknown
  <1> QED BY <1>5, <1>6

LEMMA UnknownRead ==
    ASSUME TypeOK, NEW p \in Paths, Unknown(p), htOpen' = htOpen,
           \/ packet_error \/ packet_synced \/ packet_offer_block \/ packet_tail_block
           \/ packet_eof
    PROVE  Unknown(p)'
  <1>1. toHost \in Seq(ToHost) /\ toTailer \in Seq(ToTailer)
    BY DEF TypeOK
  <1>2. p \notin htOpen /\ cps[p] = NoPath /\ NoneFor(toHost, p) /\ NoneFor(toTailer, p)
    BY DEF Unknown
  <1>3. ASSUME NEW state, disconnect(state) PROVE Unknown(p)'
    BY <1>2, <1>3, NoneForFacts DEF disconnect, Unknown
  <1>4. CASE packet_eof
    BY <1>3, <1>4 DEF packet_eof
  <1>5. ~packet_eof => toHost # <<>>
    BY DEF packet_error, packet_synced, packet_offer_block, packet_tail_block, Next_is
  <1>6. ~packet_eof => NoneFor(Tail(toHost), p)
    BY <1>1, <1>2, <1>5, NoneForFacts
  <1>7. CASE packet_error \/ packet_synced
    <2>1. disconnect("synced") \/ consume
      BY <1>7 DEF packet_error, packet_synced
    <2>2. ASSUME consume, ~packet_eof PROVE Unknown(p)'
      BY <1>2, <1>6, <2>2 DEF consume, Unknown
    <2> QED BY <1>3, <1>4, <2>1, <2>2
  <1>8. CASE packet_tail_block /\ ~packet_eof
    BY <1>2, <1>6, <1>8 DEF packet_tail_block, tailerV, Unknown
  <1>9. CASE packet_offer_block /\ ~packet_eof
    <2> DEFINE m == Head(toHost)
    <2>1. /\ toHost' = Tail(toHost) /\ cps' = cps
          /\ toTailer' \in {toTailer, <<>>, Append(toTailer, answer(m))}
      BY <1>9 DEF packet_offer_block, tailerV
    <2>2. m.path # p
      <3>1. m = toHost[1] /\ 1 \in 1..Len(toHost)
        BY <1>9, HeadOf DEF packet_offer_block
      <3> QED BY <1>2, <3>1 DEF NoneFor
    <2>3. answer(m).path # p
      BY <2>2, AnswerPath
    <2> DEFINE a == answer(m)
    <2> HIDE DEF a
    <2>4. NoneFor(Append(toTailer, a), p)
      <3>1. Len(toTailer) \in Nat
        BY <1>1
      <3>2. Len(Append(toTailer, a)) = Len(toTailer) + 1
            /\ \A i \in 1..(Len(toTailer) + 1) :
                  Append(toTailer, a)[i] = IF i <= Len(toTailer) THEN toTailer[i] ELSE a
        BY <1>1
      <3>3. a.path # p
        BY <2>3 DEF a
      <3>4. \A i \in 1..(Len(toTailer) + 1) : i <= Len(toTailer) => i \in 1..Len(toTailer)
        BY <3>1
      <3> QED BY <1>2, <3>2, <3>3, <3>4 DEF NoneFor
    <2>5. NoneFor(toTailer', p)
      BY <1>2, <2>1, <2>4, NoneForFacts DEF a
    <2> QED BY <1>2, <1>6, <1>9, <2>1, <2>5 DEF Unknown
  <1> QED BY <1>4, <1>7, <1>8, <1>9

\* A broken connection leaves nothing new in the pipes.
LEMMA TalkBroken ==
    ASSUME TypeOK, Disconnect
    PROVE  /\ Fresh => Fresh'
           /\ \A p \in Paths : Unknown(p) => Unknown(p)'
  <1>1. /\ toTailer' = <<>> /\ cps' = [p \in Paths |-> NoPath] /\ toHost \in Seq(ToHost)
        /\ htOpen' = htOpen
    BY DEF Disconnect, TypeOK, hostV
  <1> DEFINE h2 == toHost'
  <1>2. /\ h2 \in Seq(ToHost) /\ Len(h2) \in Nat /\ Len(h2) <= Len(toHost)
        /\ \A i \in 1..Len(h2) : i \in 1..Len(toHost) /\ h2[i] = toHost[i]
    BY <1>1, BrokenPipe
  <1> HIDE DEF h2
  <1>3. ASSUME toHost = <<>> PROVE h2 = <<>>
    <2>1. Len(toHost) = 0
      BY <1>3
    <2>2. Len(h2) = 0
      BY <1>2, <2>1
    <2> QED BY <1>2, <2>2
  <1>4. \A p : NoneFor(toHost, p) => NoneFor(h2, p)
    BY <1>2 DEF NoneFor
  <1>5. Fresh => Fresh'
    BY <1>1, <1>3 DEF Fresh, h2
  <1>6. ASSUME NEW p \in Paths, Unknown(p) PROVE Unknown(p)'
    BY <1>1, <1>4, <1>6, NoneForFacts DEF Unknown, h2
  <1> QED BY <1>5, <1>6

LEMMA TalkStep == TypeOK /\ TalkInv /\ [Next]_vars => TalkInv'
  <1> SUFFICES ASSUME TypeOK, TalkInv, [Next]_vars PROVE TalkInv'
    OBVIOUS
  <1> DEFINE Known == \A p \in Paths : p \notin oldPaths => Unknown(p)
  <1>1. (ht # "connected" => Fresh) /\ (ht = "none" => htOpen = {}) /\ Known
    BY DEF TalkInv
  <1>2. CASE TailerPacket \/ TailerPoll
    <2>1. UNCHANGED <<ht, htOpen, oldPaths>>
      BY <1>2 DEF TailerPacket, TailerPoll, hostV, looperV
    <2>2. \A p \in Paths : Unknown(p) => Unknown(p)'
      BY <1>2, UnknownPolled
    <2>3. Fresh => Fresh'
      BY <1>2, PollNothing
    <2> QED BY <1>1, <2>1, <2>2, <2>3 DEF TalkInv
  <1>3. CASE \/ packet_error \/ packet_synced \/ packet_offer_block \/ packet_tail_block
             \/ packet_eof
    <2>1. ht = "connected" /\ UNCHANGED <<htOpen, oldPaths>>
      BY <1>3 DEF packet_error, packet_synced, packet_offer_block, packet_tail_block,
                  packet_eof, Next_is, hostV, looperV
    <2>2. \A p \in Paths : Unknown(p) => Unknown(p)'
      BY <1>3, <2>1, UnknownRead
    <2>3. (ht' # "connected" => Fresh') /\ ht' # "none"
      BY <1>3, <2>1 DEF packet_error, packet_synced, packet_offer_block, packet_tail_block,
                  packet_eof, disconnect, consume, hostV, Fresh
    <2> QED BY <1>1, <2>1, <2>2, <2>3 DEF TalkInv
  <1>4. CASE open_remote_path
    <2>1. /\ ht = "connected" /\ htOpen' = {} /\ UNCHANGED <<ht, oldPaths, cps, toHost>>
      BY <1>4 DEF open_remote_path, tailerV, looperV
    <2>2. \A i \in 1..Len(toTailer') :
             \/ i \in 1..Len(toTailer) /\ toTailer'[i] = toTailer[i]
             \/ toTailer'[i].path \in htOpen
      BY <1>4, OpenRequests
    <2>3. ASSUME NEW p \in Paths, Unknown(p) PROVE Unknown(p)'
      BY <2>1, <2>2, <2>3 DEF Unknown, NoneFor
    <2> QED BY <1>1, <2>1, <2>3 DEF TalkInv
  <1>5. CASE (\E p \in Paths : \/ add_remote(p) \/ AppendBlock(p) \/ Replace(p) \/ Delete(p))
             \/ UNCHANGED vars
    <2>1. UNCHANGED <<ht, htOpen, oldPaths, cps, toHost, toTailer>>
      BY <1>5 DEF add_remote, AppendBlock, Replace, Delete, unchangedByFiles, tailerV, pipes,
                  hostV, looperV, vars
    <2> QED BY <1>1, <2>1 DEF TalkInv, Unknown, Fresh
  <1>6. CASE child_finished \/ loop_refused
    <2>1. /\ ht # "connected" /\ UNCHANGED <<cps, toHost, toTailer>>
          /\ ht' = "none" /\ (htOpen' = {} \/ (htOpen' = htOpen /\ ht = "none"))
      BY <1>6 DEF child_finished, loop_refused, tailerV, pipes, hostV
    <2>2. Fresh' /\ htOpen' = {}
      BY <1>1, <2>1 DEF Fresh
    <2>3. \A p \in Paths : Unknown(p)'
      BY <2>2, NoneForFacts DEF Fresh, Unknown
    <2> QED BY <2>2, <2>3 DEF TalkInv
  <1>7. CASE loop_connect
    <2>1. /\ ht' = "connected" /\ toTailer' = <<>> /\ toHost' = <<>>
          /\ cps' = [p \in Paths |-> NoPath] /\ htOpen' = oldPaths'
      BY <1>7 DEF loop_connect
    <2>2. \A p \in Paths : p \notin oldPaths' => Unknown(p)'
      BY <2>1, NoneForFacts DEF Unknown
    <2> QED BY <2>1, <2>2 DEF TalkInv
  <1>8. CASE loop_send
    <2>1. /\ ht # "none" /\ htOpen' = htOpen \union newPaths
          /\ oldPaths' = oldPaths \union newPaths
          /\ UNCHANGED <<ht, cps, toHost, toTailer>>
      BY <1>8 DEF loop_send, tailerV, pipes
    <2> QED BY <1>1, <2>1 DEF TalkInv, Unknown, Fresh
  <1>9. CASE Disconnect
    <2>1. UNCHANGED <<ht, htOpen, oldPaths>>
      BY <1>9 DEF Disconnect, hostV, looperV
    <2> QED BY <1>1, <1>9, <2>1, TalkBroken DEF TalkInv
  <1> QED BY <1>2, <1>3, <1>4, <1>5, <1>6, <1>7, <1>8, <1>9 DEF Next
-----------------------------------------------------------------------------
(* What the main thread is told.                                           *)

LEMMA DueInvStep == TypeOK /\ PathInv /\ DueInv /\ [Next]_vars => DueInv'
  <1>1. TypeOK /\ PathInv /\ DueInv /\ Next => DueInv'
    BY DueStep DEF DueInv
  <1>2. DueInv /\ UNCHANGED vars => DueInv'
    BY DEF DueInv, DuePath, vars, files, tailerV, pipes, looperV
  <1> QED BY <1>1, <1>2

\* A path that is not followed is reported by the looper alone, with all the paths that
\* it has.
LEMMA Reporting ==
    ASSUME TypeOK, HostInv, Next, ~follow, told' # told
    PROVE  /\ told' = told \union newPaths \union oldPaths
           /\ newPaths' = {} /\ oldPaths' = {}
           /\ (child_finished /\ ht = "synced") \/ loop_refused
  <1>1. \/ packet_synced \/ child_finished \/ loop_refused
    BY DEF Next, TailerPacket, TailerPoll, open_remote_path, packet_eof, packet_error,
           packet_offer_block, packet_tail_block, add_remote, loop_connect, loop_send,
           AppendBlock, Replace, Delete, unchangedByFiles, Disconnect, mainV
  <1>2. CASE packet_synced
    <2>1. /\ desired' # {} /\ Cardinality(desired') = Cardinality(syncedSet')
          /\ syncedSet' = syncedSet
      BY <1>2 DEF packet_synced
    <2>2. syncedSet = {}
      BY DEF HostInv
    <2>3. desired' \subseteq Paths
      BY TypeStep DEF TypeOK
    <2>4. IsFiniteSet(desired')
      BY <2>3, TailerAssumption, FS_Subset
    <2>5. Cardinality(desired') = 0
      BY <2>1, <2>2, FS_EmptySet
    <2> QED BY <2>1, <2>4, <2>5, FS_EmptySet
  <1>3. CASE child_finished
    BY <1>3 DEF child_finished, send_synced_to_main
  <1>4. CASE loop_refused
    BY <1>4 DEF loop_refused, send_synced_to_main
  <1> QED BY <1>1, <1>2, <1>3, <1>4

\* The mode of the session stays; so do the paths that were asked for.
LEMMA SessionStays ==
    ASSUME Next
    PROVE  follow' = follow /\ late \subseteq late' /\ asked \subseteq asked'
  BY DEF Next, TailerPacket, TailerPoll, open_remote_path, packet_eof, packet_error,
         packet_offer_block, packet_tail_block, packet_synced, add_remote, child_finished,
         loop_connect, loop_refused, loop_send, AppendBlock, Replace, Delete,
         unchangedByFiles, Disconnect, mainV

LEMMA AskedStep ==
    ASSUME TypeOK, HostInv, AskedOnce, [Next]_vars PROVE AskedOnce'
  <1>1. CASE UNCHANGED vars
    BY <1>1 DEF AskedOnce, vars, looperV, mainV
  <1>2. CASE Next /\ ~follow /\ told' # told
    <2>1. /\ told' = told \union newPaths \union oldPaths /\ newPaths' = {} /\ oldPaths' = {}
          /\ asked \subseteq asked'
      BY <1>2, Reporting, SessionStays
    <2> QED BY <1>2, <2>1 DEF AskedOnce
  <1>3. CASE Next /\ (follow \/ told' = told)
    <2>1. follow' = follow /\ asked \subseteq asked'
      BY <1>3, SessionStays
    <2>2. ASSUME NEW p \in Paths, add_remote(p) PROVE AskedOnce'
      <3>1. /\ p \notin asked /\ asked' = asked \union {p} /\ newPaths' = newPaths \union {p}
            /\ oldPaths' = oldPaths /\ told' = told
        BY <2>2 DEF add_remote
      <3> QED BY <2>1, <3>1 DEF AskedOnce
    <2>3. ASSUME \A p \in Paths : ~add_remote(p)
          PROVE  newPaths' \union oldPaths' \subseteq newPaths \union oldPaths
      BY <1>3, <2>3 DEF Next, TailerPacket, TailerPoll, open_remote_path, packet_eof,
         packet_error, packet_offer_block, packet_tail_block, packet_synced, child_finished,
         loop_connect, loop_refused, loop_send, AppendBlock, Replace, Delete,
         unchangedByFiles, Disconnect, looperV
    <2>4. ASSUME \A p \in Paths : ~add_remote(p) PROVE AskedOnce'
      BY <1>3, <2>1, <2>3, <2>4 DEF AskedOnce
    <2> QED BY <2>2, <2>4
  <1> QED BY <1>1, <1>2, <1>3

\* A host that was given up is not tried again.
LEMMA GivenUpStays ==
    ASSUME TypeOK, GivenUp, Next PROVE GivenUp'
  <1>1. /\ hostStub /\ ht = "none" /\ newPaths = {} /\ oldPaths = {}
        /\ conns > 0 /\ "late_add" \notin Env /\ conns \in Nat
    BY TailerAssumption DEF GivenUp, TypeOK
  <1>2. /\ ~open_remote_path /\ ~packet_eof /\ ~packet_error /\ ~packet_offer_block
        /\ ~packet_tail_block /\ ~packet_synced /\ ~child_finished
        /\ ~loop_connect /\ ~loop_refused /\ ~loop_send
    BY <1>1 DEF open_remote_path, packet_eof, packet_error, packet_offer_block, Next_is,
       packet_tail_block, packet_synced, child_finished, loop_connect, loop_refused,
       loop_send
  <1>3. \A q \in Paths : ~add_remote(q)
    <2>1. conns # 0
      BY <1>1
    <2> QED BY <1>1, <2>1 DEF add_remote
  <1>4. UNCHANGED <<hostStub, ht, newPaths, oldPaths, conns>>
    BY <1>2, <1>3 DEF Next, TailerPacket, TailerPoll, AppendBlock, Replace, Delete,
       unchangedByFiles, Disconnect, hostV, looperV, mainV, counters
  <1> QED BY <1>4 DEF GivenUp

\* The copy of a path that nobody talks about stays, and the file only grows.
LEMMA UnknownStays ==
    ASSUME TypeOK, PathInv, Next, NEW p \in Sturdy, Unknown(p),
           p \notin newPaths \union oldPaths, Agree(remote[p], local[p], due[p])
    PROVE  Agree(remote'[p], local'[p], due'[p])
  <1>1. /\ p \in Paths /\ remote[p] \in Contents(MaxLen)
        /\ local[p] \in Copies \union {NoFile} /\ toHost \in Seq(ToHost)
        /\ local \in [Paths -> Copies \union {NoFile}] /\ due[p] \in Int
    BY PathTypes, DueTypes DEF TypeOK
  <1>2. due'[p] = due[p]
    BY <1>1 DEF Next, TailerPacket, TailerPoll, open_remote_path, packet_eof, packet_error,
       packet_offer_block, packet_tail_block, packet_synced, add_remote, child_finished,
       loop_connect, loop_refused, loop_send, AppendBlock, Replace, Delete,
       unchangedByFiles, Disconnect, looperV
  <1>3. ASSUME NEW q \in Paths, AppendBlock(q) \/ Replace(q) \/ Delete(q)
        PROVE  Agree(remote'[p], local'[p], due'[p])
    <2> DEFINE src2 == remote'[p]
    <2>1. src2 \in Contents(MaxLen) /\ Grown(remote[p], src2) /\ local' = local
      BY <1>3, RemoteGrows
    <2> HIDE DEF src2
    <2>2. Agree(src2, local[p], due[p])
      BY <1>1, <2>1, GrowFacts
    <2> QED BY <1>2, <2>1, <2>2 DEF src2
  <1>4. ASSUME packet_error \/ packet_tail_block
        PROVE  remote' = remote /\ local'[p] = local[p]
    <2> DEFINE m == Head(toHost)
    <2>1. m.path # p
      <3>1. Next_is("ERROR") \/ Next_is("TAIL")
        BY <1>4 DEF packet_error, packet_tail_block
      <3>2. m = toHost[1] /\ 1 \in 1..Len(toHost)
        BY <3>1, HeadOf
      <3> QED BY <3>2 DEF Unknown, NoneFor
    <2>2. remote' = remote /\ \E s : local' = [local EXCEPT ![m.path] = s]
      BY <1>4 DEF packet_error, packet_tail_block
    <2> HIDE DEF m
    <2> QED BY <1>1, <2>1, <2>2
  <1>5. ASSUME ~packet_error, ~packet_tail_block,
               \A q \in Paths : ~(AppendBlock(q) \/ Replace(q) \/ Delete(q))
        PROVE  UNCHANGED files
    BY <1>5 DEF Next, TailerPacket, TailerPoll, open_remote_path, packet_eof,
       packet_offer_block, packet_synced, add_remote, child_finished, loop_connect,
       loop_refused, loop_send, Disconnect
  <1> QED BY <1>2, <1>3, <1>4, <1>5 DEF files

\* A finished path has its copy when nothing is on its way any more.
LEMMA FinishedAgrees ==
    ASSUME TypeOK, PathInv, NEW p \in Sturdy, Finished(p)
    PROVE  Agree(remote[p], local[p], due[p])
  <1>1. /\ remote[p] \in Contents(MaxLen) /\ local[p] \in Copies \union {NoFile}
        /\ due[p] \in Nat
    BY PathTypes, DueTypes
  <1>2. PICK x \in Int : x >= due[p] /\ Reached(toHost, 0, p, remote[p], local[p], x)
    BY DEF Finished, Holds
  <1>3. due[p] <= x
    BY <1>1, <1>2
  <1>4. Agree(remote[p], local[p], x)
    BY <1>2, ReachedNow
  <1> QED BY <1>1, <1>3, <1>4, AgreeLess

LEMMA ToldStep ==
    ASSUME ~({"late_add", "unreachable"} \subseteq Env),
           TypeOK, PathInv, HostInv, TalkInv, AskedOnce, ToldInv, Next
    PROVE  ToldInv'
  <1> SUFFICES ASSUME ~follow', NEW p \in told' \ (Fragile \union late')
               PROVE  Agree(remote'[p], local'[p], due'[p]) \/ GivenUp'
    BY DEF ToldInv, GivenUp
  <1>1. ~follow /\ p \notin late /\ p \notin Fragile
    BY SessionStays
  <1>2. told' \subseteq Paths
    BY TypeStep DEF TypeOK
  <1>3. p \in Sturdy /\ p \in Paths
    BY <1>1, <1>2 DEF Sturdy
  <1>4. CASE p \in told
    <2>1. Agree(remote[p], local[p], due[p]) \/ GivenUp
      BY <1>1, <1>4 DEF ToldInv
    <2>2. p \notin newPaths \union oldPaths
      BY <1>1, <1>4 DEF AskedOnce
    <2>3. Unknown(p)
      BY <1>3, <2>2 DEF TalkInv
    <2> QED BY <1>3, <2>1, <2>2, <2>3, UnknownStays, GivenUpStays
  <1>5. CASE p \notin told
    <2>1. /\ told' = told \union newPaths \union oldPaths
          /\ newPaths' = {} /\ oldPaths' = {}
          /\ (child_finished /\ ht = "synced") \/ loop_refused
      BY <1>1, <1>5, Reporting
    <2>2. CASE child_finished /\ ht = "synced"
      <3>1. newPaths \subseteq late
        BY <2>2 DEF HostInv, NewLate
      <3>2. p \in oldPaths
        BY <1>1, <1>5, <2>1, <3>1
      <3>3. Finished(p)
        BY <1>1, <2>2, <3>2 DEF HostInv, OldKept
      <3>4. Agree(remote[p], local[p], due[p])
        BY <1>3, <3>3, FinishedAgrees
      <3>5. UNCHANGED <<remote, local, due>>
        BY <2>2 DEF child_finished, files
      <3> QED BY <3>4, <3>5
    <2>3. CASE loop_refused
      <3>1. /\ hostStub' = TRUE /\ ht' = "none"
            /\ conns' = conns + 1 /\ "unreachable" \in Env
        BY <2>3 DEF loop_refused, hostV
      <3>2. conns \in Nat
        BY TailerAssumption DEF TypeOK
      <3> QED BY <2>1, <3>1, <3>2 DEF GivenUp
    <2> QED BY <2>1, <2>2, <2>3
  <1> QED BY <1>4, <1>5

\* A path that is not followed is reported as synced only when its copy has all the blocks
\* that the file had when its host was last connected, or when the host is shown with an
\* error: if the paths are all asked for before the host is connected, or the host can be
\* reached.
THEOREM ToldTheorem ==
    ASSUME ~({"late_add", "unreachable"} \subseteq Env)
    PROVE  Spec => []ToldIsCopied
  <1> DEFINE J == IInv /\ DueInv /\ HostInv /\ TalkInv /\ AskedOnce /\ ToldInv
  <1>1. Init => J
    <2>1. Init => HostInv /\ ToldInv /\ AskedOnce
      BY DEF Init, HostInv, NewLate, OpenFresh, OldKept, ToldInv, AskedOnce
    <2>2. Init => TalkInv
      BY NoneForFacts DEF Init, TalkInv, Fresh, Unknown
    <2>3. ASSUME Init, NEW p \in Sturdy PROVE DuePath(p)
      <3>1. /\ toHost = <<>> /\ ~up /\ due[p] = 0 /\ p \in Paths
            /\ remote[p] \in Contents(MaxLen)
        BY <2>3 DEF Init, Sturdy
      <3>2. Len(remote[p]) \in Nat
        BY <3>1, CopyType
      <3>3. due[p] <= Len(remote[p])
        BY <3>1, <3>2
      <3>4. Len(<<>>) = 0 /\ 1..0 = {}
        OBVIOUS
      <3> QED BY <3>1, <3>3, <3>4 DEF DuePath, TailsRight, ReportsRight
    <2> QED BY <2>1, <2>2, <2>3, PathInit DEF DueInv
  <1>2. J /\ [Next]_vars => J'
    <2>1. ToldInv /\ UNCHANGED vars => ToldInv'
      BY DEF ToldInv, GivenUp, vars, files, hostV, looperV, mainV, counters
    <2>2. J /\ Next => ToldInv'
      BY ToldStep DEF IInv
    <2>3. J /\ [Next]_vars => HostInv' /\ DueInv' /\ TalkInv' /\ AskedOnce'
      BY HostStep, DueInvStep, TalkStep, AskedStep DEF IInv
    <2> QED BY <2>1, <2>2, <2>3, PathStep
  <1>3. J => ToldIsCopied
    BY DEF ToldInv, GivenUp, ToldIsCopied, Agree, CaughtUp
  <1> HIDE DEF J
  <1> QED BY <1>1, <1>2, <1>3, PTL DEF Spec
=============================================================================
