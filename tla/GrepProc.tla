------------------------------ MODULE GrepProc ------------------------------
(***************************************************************************)
(* Background search: grep_proc (grep_proc.cc) together with its sink, the *)
(* text view (textview_curses.cc).                                         *)
(*                                                                         *)
(* The view owns the text.  A search queues requests, start() forks a few  *)
(* children that each scan a copy of the text taken at the fork, and the   *)
(* main loop reads what the children print through pipes and turns it into *)
(* BM_SEARCH bookmarks.  Meanwhile the text keeps changing underneath.     *)
(*                                                                         *)
(* A line of the text is abstracted to the only thing a search tells       *)
(* apart: whether the current pattern matches it.  Line numbers are        *)
(* 0-based, as in the code; sequences are 1-based.                         *)
(***************************************************************************)
EXTENDS Integers, Sequences, FiniteSets

CONSTANTS
    MaxLines,       \* bound: longest text
    MaxOps,         \* bound: operations of the user and of the indexer
    CHUNK_SIZE,     \* lines per queued request (100000 in the code)
    MAX_CHILDREN,   \* min of hardware_concurrency() and 8 in the code
    MAX_LOOPS,      \* lines read from one child per poll (100 in the code)
    Changes         \* which changes of the text the environment makes

ASSUME BoundsAssumption ==
    /\ MaxLines \in Nat /\ MaxOps \in Nat
    /\ CHUNK_SIZE \in Nat \ {0}
    /\ MAX_CHILDREN \in Nat \ {0}
    /\ MAX_LOOPS \in Nat \ {0}
    /\ Changes \subseteq {"append", "grow_last", "partial", "full"}

VARIABLES
    text,                \* the view's lines: does line l match?
    active,              \* tc_search_child != nullptr
    gp_queue,            \* requests not handed to a child yet
    gp_children,         \* the forked children that have not been reaped
    gp_child_queue_size, \* how many requests the children were given
    gp_highest_line,     \* where a request with start -1 begins
    tc_searching,        \* grep_begin calls minus grep_end calls
    bm_search,           \* the BM_SEARCH bookmarks
    lost,                \* history: lines that matched only while unfinished
    ops                  \* operations done so far (for the bound only)

gp == <<gp_queue, gp_children, gp_child_queue_size, gp_highest_line>>
vars == <<text, active, gp, tc_searching, bm_search, lost, ops>>

-----------------------------------------------------------------------------
(* Requests: [start, until) where until is a line or the end of the text.  *)

NoLine == -1

Request ==
    [start : Nat \cup {NoLine}, type : {"line", "eof"}, line : Nat]

UntilLine(l) == [type |-> "line", line |-> l]
UntilEof(n)  == [type |-> "eof",  line |-> n]

MkRequest(s, until) == [start |-> s, type |-> until.type, line |-> until.line]

\* The requests queue_request() makes of one call.  A range is cut in chunks;
\* only the last one keeps the caller's stop condition.  An empty range gives
\* no request at all.
QueueRequest(s, until) ==
    IF s = NoLine
    THEN << MkRequest(s, until) >>
    ELSE LET n == (until.line - s + CHUNK_SIZE - 1) \div CHUNK_SIZE
         IN  [i \in 1..n |->
                MkRequest(s + (i - 1) * CHUNK_SIZE,
                          IF i < n THEN UntilLine(s + i * CHUNK_SIZE)
                                   ELSE until)]

\* The bookmarks grep_begin() erases for those requests.
Erased(s, until) == IF s = NoLine THEN {} ELSE s .. (until.line - 1)

-----------------------------------------------------------------------------
(* The child process.                                                      *)

\* A child: the requests it still has to do, the text and the highest line as
\* they were at the fork, the matching lines it has printed and nobody has
\* read, and the unread "h" line (the largest, NoLine if none).  The order in
\* the pipe is left out: the sink only collects lines, and the highest line is
\* a maximum that nobody looks at before the last child is gone.
Child == [reqs : Seq(Request), snap : Seq(BOOLEAN), high : Nat,
          out : SUBSET Nat, hi : Nat \cup {NoLine}]

Larger(a, b) == IF a < b THEN b ELSE a

\* The lines first..last-1 a request looks at.
First(child, r) == IF r.start = NoLine THEN child.high ELSE r.start

Last(child, r) ==
    LET size == Len(child.snap)
        stop == IF r.type = "eof" \/ r.line > size THEN size ELSE r.line
    IN  Larger(First(child, r), stop)

FoundLines(child, r) ==
    { l \in First(child, r) .. (Last(child, r) - 1) : child.snap[l + 1] }

\* mutant: one line too many is reported as searched.
HighestSeenSkips(child, r) ==
    IF r.type = "eof" THEN Larger(child.hi, Last(child, r) + 1) ELSE child.hi

\* The "h" line of child_loop().  The loop increments the line once more after
\* the source has run out, so the number is that of the line after the last.
HighestSeen(child, r) ==
    IF r.type = "eof" THEN Larger(child.hi, Last(child, r)) ELSE child.hi

\* A child finishes one of its requests and flushes (child_loop, child_term).
ChildStep(i) ==
    LET child == gp_children[i]
        r     == Head(child.reqs)
    IN  /\ child.reqs # << >>
        /\ gp_children' =
             [gp_children EXCEPT
                ![i] = [child EXCEPT
                          !.reqs = Tail(child.reqs),
                          !.out  = child.out \cup FoundLines(child, r),
                          !.hi   = HighestSeen(child, r)]]
        /\ UNCHANGED <<text, active, gp_queue, gp_child_queue_size,
                       gp_highest_line, tc_searching, bm_search, lost, ops>>

-----------------------------------------------------------------------------
(* The parent: starting and ending runs.                                   *)

\* The children start() forks for a queue: round robin.
Fork(q, high, txt) ==
    LET n == IF Len(q) < MAX_CHILDREN THEN Len(q) ELSE MAX_CHILDREN
    IN  [c \in 1..n |->
           [reqs |-> [k \in 1..((Len(q) - c) \div n + 1) |->
                        q[(k - 1) * n + c]],
            snap |-> txt,
            high |-> high,
            out  |-> {},
            hi   |-> NoLine]]

\* start() called with this queue, these children and this highest line.
Start(q, kids, size, high, txt) ==
    /\ gp_highest_line' = high
    /\ IF DOMAIN kids # {} \/ q = << >>
       THEN /\ gp_queue' = q
            /\ gp_children' = kids
            /\ gp_child_queue_size' = size
       ELSE /\ gp_queue' = << >>
            /\ gp_children' = Fork(q, high, txt)
            /\ gp_child_queue_size' = Len(q)

\* A batch read from a child's pipe: all of it, or MAX_LOOPS lines.
IsBatch(b, child) ==
    /\ b = child.out \/ Cardinality(b) = MAX_LOOPS
    /\ Cardinality(b) <= MAX_LOOPS

\* The pipe ran dry before the batch was full.
Drained(b, child) == b = child.out /\ Cardinality(b) < MAX_LOOPS

\* grep_match() for the lines dispatched: each is bookmarked.
GrepMatch(lines) == bm_search' = bm_search \cup lines

\* grep_end(), n times.
GrepEnd(n) == tc_searching' = tc_searching - n

PollReady(child) == child.out # {} \/ child.hi # NoLine \/ child.reqs = << >>

\* mutant: one grep_end() per run instead of one per request.
CleanupEndsOnce(high) ==
    /\ GrepEnd(1)
    /\ Start(gp_queue, << >>, 0, high, text)

\* mutant: requests queued during the run are not started.
CleanupNoStart(high) ==
    /\ GrepEnd(gp_child_queue_size)
    /\ gp_highest_line' = high
    /\ gp_children' = << >>
    /\ gp_child_queue_size' = 0
    /\ gp_queue' = gp_queue

\* cleanup() when the last child has been reaped: grep_end() for every request
\* the children were given, then start() for what was queued meanwhile.
Cleanup(high) ==
    /\ GrepEnd(gp_child_queue_size)
    /\ Start(gp_queue, << >>, 0, high, text)

\* check_poll_set() for a child that poll() reported: dispatch a batch of its
\* lines and, if its pipe is dry and closed, reap it; when it was the last one,
\* end the run.  Children are independent, so taking the ready ones one at a
\* time reaches the same states as the code's loop over all of them.
CheckPollSet(i, b) ==
    LET child == gp_children[i]
        high  == IF Drained(b, child) THEN Larger(gp_highest_line, child.hi)
                                      ELSE gp_highest_line
        left  == IF Drained(b, child) /\ child.reqs = << >>
                 THEN DOMAIN gp_children \ {i}
                 ELSE DOMAIN gp_children
    IN  /\ PollReady(child) /\ IsBatch(b, child)
        /\ GrepMatch(b)
        /\ IF left = {}
           THEN Cleanup(high)
           ELSE /\ gp_highest_line' = high
                /\ gp_children' =
                     [j \in left |->
                        IF j = i
                        THEN [child EXCEPT
                                !.out = child.out \ b,
                                !.hi  = IF Drained(b, child) THEN NoLine
                                        ELSE child.hi]
                        ELSE gp_children[j]]
                /\ UNCHANGED <<gp_queue, gp_child_queue_size, tc_searching>>
        /\ UNCHANGED <<text, active, lost, ops>>

-----------------------------------------------------------------------------
(* The text view: operations that queue requests.                          *)

\* Requests appended to the queue: one grep_begin() each.
Enqueue(reqs, erased) ==
    /\ tc_searching' = tc_searching + Len(reqs)
    /\ bm_search' = bm_search \ erased
    /\ Start(gp_queue \o reqs, gp_children, gp_child_queue_size,
             gp_highest_line, text')

\* search_new_data(start) on a text that has just become text'.
SearchNewData(s) ==
    IF active
    THEN Enqueue(QueueRequest(s, UntilEof(Len(text'))),
                 Erased(s, UntilEof(Len(text'))))
    ELSE UNCHANGED <<gp, tc_searching, bm_search>>

\* invalidate(): every queued or running request is ended, the children are
\* killed and what they printed is lost.  Then reqs is the whole queue of a
\* fresh run.  The bookmarks are cleared (match_reset).
Restart(reqs) ==
    /\ tc_searching' = tc_searching - Len(gp_queue) - gp_child_queue_size
                         + Len(reqs)
    /\ bm_search' = {} /\ lost' = {}
    /\ Start(reqs, << >>, 0, 0, text')

Count == ops < MaxOps /\ ops' = ops + 1

\* mutant: a new pattern does not kill the children of the old one.
ExecuteSearchNoKill(txt, top) ==
    LET reqs == QueueRequest(top, UntilEof(Len(txt)))
                  \o (IF top > 0 THEN QueueRequest(0, UntilLine(top))
                                 ELSE << >>)
    IN  /\ Count
        /\ Len(txt) = Len(text)
        /\ text' = txt
        /\ active' = TRUE
        /\ tc_searching' = tc_searching - Len(gp_queue) + Len(reqs)
        /\ bm_search' = {} /\ lost' = {}
        /\ Start(reqs, gp_children, gp_child_queue_size, 0, txt)

\* execute_search() with a new pattern: which lines match is anew arbitrary.
\* The search begins at the top line of the window and then covers what is
\* above it.
ExecuteSearch(txt, top) ==
    /\ Count
    /\ Len(txt) = Len(text)
    /\ text' = txt
    /\ active' = TRUE
    /\ Restart(QueueRequest(top, UntilEof(Len(txt)))
                 \o (IF top > 0 THEN QueueRequest(0, UntilLine(top))
                                ELSE << >>))

\* mutant: grep_end() is called again for the requests of killed children.
ClearSearchEndsTwice ==
    /\ Count
    /\ active
    /\ active' = FALSE
    /\ text' = text
    /\ tc_searching' = tc_searching - Len(gp_queue) - 2 * gp_child_queue_size
    /\ bm_search' = {} /\ lost' = {}
    /\ Start(<< >>, << >>, 0, 0, text')

\* execute_search("") : the search child goes away.
ClearSearch ==
    /\ Count
    /\ active
    /\ active' = FALSE
    /\ text' = text
    /\ Restart(<< >>)

\* toggle_user_mark(): the marked lines are searched again.
ToggleUserMark(a, b) ==
    /\ Count
    /\ a <= b /\ b < Len(text)
    /\ text' = text
    /\ IF active
       THEN Enqueue(QueueRequest(a, UntilLine(b + 1))
                      \o QueueRequest(NoLine, UntilEof(Len(text))),
                    Erased(a, UntilLine(b + 1)))
       ELSE UNCHANGED <<gp, tc_searching, bm_search>>
    /\ UNCHANGED <<active, lost>>

-----------------------------------------------------------------------------
(* The text changes and the source tells the view (the end of              *)
(* logfile_sub_source::rebuild_index()).                                   *)

Texts(n) == UNION { [1..k -> BOOLEAN] : k \in 0..n }

\* rr_appended_lines: new lines at the end.
AppendLines(new) ==
    /\ "append" \in Changes
    /\ Count
    /\ Len(text) + Len(new) <= MaxLines
    /\ text' = text \o new
    /\ SearchNewData(NoLine)
    /\ UNCHANGED <<active, lost>>

\* rr_appended_lines: the last line was incomplete when it was indexed and its
\* rest has been written since.  It may match now, or match no more (a pattern
\* that ends in $ or in a word boundary); more lines may follow it.  The search
\* goes on behind it: it is not looked at again, and its bookmark stays.
GrowLastLine(now, new) ==
    /\ "grow_last" \in Changes
    /\ Count
    /\ text # << >>
    /\ Len(text) + Len(new) <= MaxLines
    /\ text' = [text EXCEPT ![Len(text)] = now] \o new
    /\ lost' = lost \cup {l \in {Len(text) - 1} : text[l + 1] /\ ~now}
    /\ SearchNewData(NoLine)
    /\ UNCHANGED active

\* s with lines inserted anywhere is t.
InsertedInto(s, t) ==
    \E f \in [1..Len(s) -> 1..Len(t)] :
        /\ \A i \in 1..Len(s) : t[f[i]] = s[i]
        /\ \A i, j \in 1..Len(s) : i < j => f[i] < f[j]

\* rr_partial_rebuild: older lines were found; the lines from row k on have
\* been collated again with the new ones among them.
PartialRebuild(k, tail) ==
    /\ "partial" \in Changes
    /\ Count
    /\ k < Len(text)
    /\ k + Len(tail) \in (Len(text) + 1) .. MaxLines
    /\ InsertedInto(SubSeq(text, k + 1, Len(text)), tail)
    /\ text' = SubSeq(text, 1, k) \o tail
    /\ SearchNewData(k)
    /\ UNCHANGED <<active, lost>>

\* rr_full_rebuild (also text_filters_changed()): redo_search().
FullRebuild(txt) ==
    /\ "full" \in Changes
    /\ Count
    /\ text' = txt
    /\ IF active
       THEN Restart(QueueRequest(0, UntilEof(Len(txt))))
       ELSE UNCHANGED <<gp, tc_searching, bm_search, lost>>
    /\ UNCHANGED active

-----------------------------------------------------------------------------

Init ==
    /\ text \in Texts(MaxLines)
    /\ active = FALSE
    /\ gp_queue = << >>
    /\ gp_children = << >>
    /\ gp_child_queue_size = 0
    /\ gp_highest_line = 0
    /\ tc_searching = 0
    /\ bm_search = {} /\ lost = {}
    /\ ops = 0

SomeChildStep == \E i \in DOMAIN gp_children : ChildStep(i)

SomePoll ==
    \E i \in DOMAIN gp_children :
        \E b \in SUBSET gp_children[i].out : CheckPollSet(i, b)

UserStep ==
    \/ \E txt \in Texts(MaxLines), top \in 0..MaxLines :
          (top < Len(text) \/ top = 0) /\ ExecuteSearch(txt, top)
    \/ ClearSearch
    \/ \E a, b \in 0..(MaxLines - 1) : ToggleUserMark(a, b)

TextStep ==
    \/ \E new \in Texts(MaxLines) : new # << >> /\ AppendLines(new)
    \/ \E now \in BOOLEAN, new \in Texts(1) : GrowLastLine(now, new)
    \/ \E k \in 0..(MaxLines - 1), tail \in Texts(MaxLines) :
          PartialRebuild(k, tail)
    \/ \E txt \in Texts(MaxLines) : FullRebuild(txt)

Next == SomeChildStep \/ SomePoll \/ UserStep \/ TextStep

Spec == Init /\ [][Next]_vars

\* A forked child runs, and the main loop keeps polling.
FairSpec == Spec /\ WF_vars(SomeChildStep) /\ WF_vars(SomePoll)

-----------------------------------------------------------------------------
(* Properties.                                                             *)

\* Every variable holds a value of the kind the code's declarations allow:
\* queues of requests, children with what they were forked with, counters that
\* are never negative (grep_end() ensures tc_searching >= 0).
TypeOK ==
    /\ text \in Seq(BOOLEAN)
    /\ active \in BOOLEAN
    /\ gp_queue \in Seq(Request)
    /\ DOMAIN gp_children \subseteq 1..MAX_CHILDREN
    /\ gp_children \in [DOMAIN gp_children -> Child]
    /\ gp_child_queue_size \in Nat
    /\ gp_highest_line \in Nat
    /\ tc_searching \in Nat
    /\ bm_search \subseteq Nat /\ lost \subseteq Nat
    /\ ops \in Nat

\* grep_begin() and grep_end() balance: the view's counter, which colours the
\* 'hits' field while a search is active, is exactly the number of requests
\* that are queued or in the hands of children, whatever sequence of cleanup(),
\* invalidate() and start() led here.
SearchBalance == tc_searching = Len(gp_queue) + gp_child_queue_size

\* start() leaves nothing behind: requests wait in the queue only while
\* children of an earlier start() are running, and the children's share of the
\* counter is given back when the last of them is gone.
QueueWaits ==
    /\ DOMAIN gp_children = {} => gp_queue = << >> /\ gp_child_queue_size = 0
    /\ ~active => DOMAIN gp_children = {}

\* A bookmark is on a line that matches, or that matched while it was unfinished
\* and has lost its match since: nothing else that a child found in an older copy
\* of the text, and nothing it found for an older pattern, is shown as a hit
\* (search_new_data() never looks at a completed last line again, so that its
\* bookmark is the one kind that goes stale).
HitsAreMatches ==
    \A l \in bm_search : l < Len(text) /\ (text[l + 1] \/ l \in lost)

\* When the search is over ('hits' turns back to black) every matching line
\* has its bookmark, however the text grew while children were running.
SearchComplete ==
    active /\ tc_searching = 0 =>
        \A l \in 0..(Len(text) - 1) : text[l + 1] => l \in bm_search

\* Once user and indexer leave it alone, a search ends: every forked child is
\* reaped and no queued request is forgotten.
SearchEnds == <>[](tc_searching = 0 /\ DOMAIN gp_children = {})
=============================================================================
