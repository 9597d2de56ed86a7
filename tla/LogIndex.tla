------------------------------ MODULE LogIndex ------------------------------
(***************************************************************************)
(* The combined log message index: logfile_sub_source (lss) and the        *)
(* logfiles (lf) it collates, as driven by rebuild_indexes() of the main   *)
(* loop.                                                                   *)
(*                                                                         *)
(* Writers append lines to files, rotate and truncate them; the user hides *)
(* files, moves the lower time bound and shifts a file's clock.  A pass of *)
(* the main loop promotes new log files, drops closed ones, lets every     *)
(* logfile scan what is new and then brings lss_index, the time-ordered    *)
(* index of all lines, and lss_filtered_index, the rows that are shown, up *)
(* to date: by appending, by redoing it from a row on, or from scratch.    *)
(*                                                                         *)
(* A line is its timestamp, 0 if it has none (a continuation line), and    *)
(* whether its end has been written.  Lines and rows count from 1.         *)
(***************************************************************************)
EXTENDS Integers, Sequences, FiniteSets, FiniteSetsExt

CONSTANTS
    Files,              \* log file names
    NoFile,             \* a slot whose file was removed
    TimeOrdered,        \* files whose format has lf_time_ordered
    MaxTime,            \* bound: timestamps are 1..MaxTime
    MaxLines,           \* bound: lines per file
    MaxOps,             \* bound: operations of writers and user
    DEFAULT_INCREMENT,  \* spare capacity of a reallocated index
    Env                 \* which operations writers and user perform

ASSUME EnvAssumption ==
    /\ NoFile \notin Files
    /\ TimeOrdered \subseteq Files
    /\ MaxTime \in Nat /\ MaxLines \in Nat /\ MaxOps \in Nat
    /\ DEFAULT_INCREMENT \in Nat \ {0}
    /\ Env \subseteq {"unfinished", "late_ts", "rotate", "truncate", "hide",
                      "min_time", "adjust", "pause", "deadline"}

VARIABLES
    disk,               \* what the writers have written
    lf,                 \* the logfile objects
    lss_files,          \* the slots: file, lines indexed, visibility
    lss_index,          \* all indexed lines, as <<slot, line>>
    lss_filtered_index, \* the rows of lss_index that are shown
    lss_force_rebuild,
    ba_capacity,        \* capacity of lss_index
    ttt_min_row_time,   \* rows before this time are hidden
    told,               \* what the last step told the view, and from which row
    ops                 \* operations done so far (for the bound only)

lss == <<lss_files, lss_index, lss_filtered_index, lss_force_rebuild,
         ba_capacity>>
vars == <<disk, lf, lss, ttt_min_row_time, told, ops>>

Line == [ts : 0..MaxTime, whole : BOOLEAN]

\* A logfile: "absent" (no object), "ok", "truncated" on disk, or "closed"
\* (truncation noticed, or the file deleted); the lines lf_index was built
\* from; the clock shift; lf_sort_needed.
LogFile == [state : {"absent", "ok", "truncated", "closed"},
            seen : Seq(Line), offset : Nat, sort : BOOLEAN]

Slot == [file : Files \cup {NoFile}, indexed : Nat, visible : BOOLEAN]

Absent == [state |-> "absent", seen |-> << >>, offset |-> 0, sort |-> FALSE]

NotTold == [rr |-> "none", from |-> 0]

-----------------------------------------------------------------------------
(* logfile: scanning.                                                      *)

\* The times of lf_index for these lines (process_prefix).  A line without a
\* timestamp takes the time of the one before; in a time-ordered format so does
\* a line that is older (the skew is only flagged).
LineTimes(f, lines, offset) ==
    LET T[i \in 0..Len(lines)] ==
          IF i = 0 THEN 0
          ELSE IF lines[i].ts = 0 THEN T[i - 1]
          ELSE IF f \in TimeOrdered /\ lines[i].ts + offset < T[i - 1]
               THEN T[i - 1]
               ELSE lines[i].ts + offset
    IN  [i \in 1..Len(lines) |-> T[i]]

Times(f, rec) == LineTimes(f, rec.seen, rec.offset)

\* mutant: the order within a file is not looked at.
OutOfOrderNever(f, rec, k) == FALSE

\* A scan that read lines k..n met one older than its predecessor.
OutOfOrder(f, rec, k) ==
    \E i \in k..Len(rec.seen) : i > 1 /\ Times(f, rec)[i] < Times(f, rec)[i - 1]

\* mutant: the limit may be used up by the line that was rolled back.
ReadToStuck(f, rec) ==
    IF "deadline" \in Env /\ Len(disk[f]) > Len(rec.seen)
    THEN Len(rec.seen) .. Len(disk[f])
    ELSE { Len(disk[f]) }

\* How far one scan may get: to the end, or less if the deadline has passed;
\* the limit is then still more than what was rolled back.
ReadTo(f, rec) ==
    IF "deadline" \in Env /\ Len(disk[f]) > Len(rec.seen)
    THEN (Len(rec.seen) + 1) .. Len(disk[f])
    ELSE { Len(disk[f]) }

\* The outcomes of logfile::rebuild_index() for the file of a slot: the new
\* object and the result.  A scan drops the last line it read, which may have
\* been partial, and reads on from there.  A hidden file is not indexed.
Scans(ld, rec) ==
    LET f    == ld.file
        idle == [lf  |-> [rec EXCEPT !.sort = FALSE],
                 res |-> IF rec.sort THEN "NEW_ORDER" ELSE "NO_NEW_LINES"]
        read == { [rec EXCEPT !.seen = SubSeq(disk[f], 1, n), !.sort = FALSE] :
                    n \in ReadTo(f, rec) }
    IN  IF ld.visible /\ rec.state = "truncated"
        THEN [lf : {[rec EXCEPT !.state = "closed"]},
              res : {"NO_NEW_LINES", "INVALID"}]
        ELSE IF ~ld.visible \/ disk[f] = rec.seen
        THEN { idle }
        ELSE { [lf  |-> r,
                res |-> IF rec.sort \/ OutOfOrder(f, r, Len(rec.seen))
                        THEN "NEW_ORDER" ELSE "NEW_LINES"] : r \in read }

-----------------------------------------------------------------------------
(* logfile_sub_source: collating.                                          *)

\* One round of std::lower_bound with p[2] elements left behind the first p[1];
\* below[i] is what the comparison says of element i.
Bisect(below, p) ==
    LET half == p[2] \div 2
    IN  IF p[2] = 0 THEN p
        ELSE IF below[p[1] + half + 1] THEN <<p[1] + half + 1, p[2] - half - 1>>
             ELSE <<p[1], half>>

\* std::lower_bound: the number of leading elements that are below the value,
\* found by bisection.  There are at most as many rounds as elements.
LowerBound(below) ==
    LET n == Len(below)
        at[k \in 0..n] == IF k = 0 THEN <<0, n>> ELSE Bisect(below, at[k - 1])
    IN  at[n][1]

\* The time of a row, given the slots and the logfiles.
RowTime(slots, lfs, row) ==
    LET f == slots[row[1]].file IN Times(f, lfs[f])[row[2]]

\* The lines of a set that may come first: by time, lines of one file that have
\* the same time in file order.  Lines of different files with the same time
\* come by file offset, which is left open.
First(slots, lfs, S) ==
    { r \in S : \A x \in S :
        \/ RowTime(slots, lfs, r) < RowTime(slots, lfs, x)
        \/ /\ RowTime(slots, lfs, r) = RowTime(slots, lfs, x)
           /\ x[1] = r[1] => r[2] <= x[2] }

\* The orders a full sort or the k-way merge may produce for a set of lines.
Collated(slots, lfs, rows) ==
    LET orders[n \in 0..Cardinality(rows)] ==
          IF n = 0 THEN { << >> }
          ELSE UNION { { Append(q, r) : r \in First(slots, lfs, rows \ Range(q)) } :
                         q \in orders[n - 1] }
    IN  orders[Cardinality(rows)]

\* is_visible() and check_extra_filters() for a row.
Shown(slots, lfs, min, row) ==
    /\ slots[row[1]].visible
    /\ RowTime(slots, lfs, row) >= min

\* The rows k+1.. of an index that are shown, in order.
Filtered(slots, lfs, min, index, k) ==
    LET shown(i) == Shown(slots, lfs, min, index[i])
        pick[i \in k..Len(index)] ==
          IF i = k THEN << >>
          ELSE IF shown(i) THEN Append(pick[i - 1], i) ELSE pick[i - 1]
    IN  pick[Len(index)]

\* The slots that hold a file.
Open(slots) == { i \in DOMAIN slots : slots[i].file # NoFile }

\* The slots with new counts of indexed lines (ld_lines_indexed).
Indexed(slots, counts) ==
    [i \in DOMAIN slots |-> [slots[i] EXCEPT !.indexed = counts[i]]]

\* The line of a slot whose time is compared with the end of the index.
FirstNew(ld) == ld.indexed + 1

\* mutant: after older lines the index is rebuilt after that time.
LowestLineAfter(times, lowest) ==
    LowerBound([l \in DOMAIN times |-> times[l] <= lowest])

\* find_from_time(): the lines of a file before the lowest new time.
LowestLine(times, lowest) ==
    LowerBound([l \in DOMAIN times |-> times[l] < lowest])

\* mutant: a forced rebuild does not clear the index.
ForcedKeeps(index) == index

\* What a forced rebuild leaves of an index.
Forced(index) == << >>

\* mutant: after a partial rebuild only rows past the old end are searched.
SearchStartAtEnd(retval, keptRows, oldRows) ==
    IF retval = "full" THEN 0 ELSE oldRows

\* The row from which the view is told to search.
SearchStart(retval, keptRows, oldRows) ==
    CASE retval = "full"    -> 0
      [] retval = "partial" -> keptRows
      [] retval = "append"  -> oldRows

\* mutant: older lines are appended like any other.
VerdictAppends(full, older, changed) ==
    IF full THEN "full"
    ELSE IF changed THEN "append" ELSE "none"

\* What the collation has become, in the order the code settles it.
Verdict(full, older, changed) ==
    IF full THEN "full"
    ELSE IF older THEN "partial"
    ELSE IF changed THEN "append" ELSE "none"

\* big_array::reserve(): an index for this many lines needs a new array, which
\* is empty and has room to spare.
Reserve(total) == total >= ba_capacity

Capacity(total) == IF Reserve(total) THEN total + DEFAULT_INCREMENT
                                     ELSE ba_capacity

\* total_lines and est_remaining_lines of the open files.
TotalLines(slots) ==
    LET size(i) == IF slots[i].file = NoFile THEN 0 ELSE Len(disk[slots[i].file])
        sum[i \in 0..Len(slots)] == IF i = 0 THEN 0 ELSE sum[i - 1] + size(i)
    IN  sum[Len(slots)]

\* What rebuild_index() can make of the index when the logfiles are lfs now and
\* their scans had results res ("SKIPPED" when not scanned).
Rebuilt(slots, force0, lfs, res, timeLeft) ==
    LET open      == Open(slots)
        times(i)  == Times(slots[i].file, lfs[slots[i].file])
        size(i)   == Len(times(i))
        old       == IF force0 THEN << >> ELSE lss_index
        lost      == \E i \in DOMAIN slots \ open : slots[i].indexed > 0
        result(i) == IF res[i] = "NO_NEW_LINES" /\ slots[i].indexed < size(i)
                     THEN "NEW_LINES" ELSE res[i]
        changed   == { i \in open : result(i) = "NEW_LINES" }
        older     == { i \in changed :
                         /\ old # << >> /\ ~lost
                         /\ size(i) > slots[i].indexed
                         /\ times(i)[FirstNew(slots[i])]
                              < RowTime(slots, lfs, old[Len(old)]) }
        ordered   == \A i \in open : slots[i].file \in TimeOrdered
        reordered == \E i \in open : result(i) \in {"NEW_ORDER", "INVALID"}
        total     == TotalLines(slots)
        full      == force0 \/ lost \/ reordered \/ Reserve(total)
        force     == full \/ (older # {} /\ ~ordered)
        retval    == Verdict(full, older # {} /\ ordered, changed # {})
        lowest    == Min({ times(i)[FirstNew(slots[i])] : i \in older })
        before    == [i \in DOMAIN slots |->
                        IF force THEN 0
                        ELSE IF retval = "partial" /\ i \in open
                             THEN LowestLine(times(i), lowest)
                             ELSE slots[i].indexed]
        rowsBefore == LowerBound(
                        [k \in DOMAIN old |->
                           RowTime(slots, lfs, old[k]) < lowest])
        shownBefore == LowerBound(
                        [k \in DOMAIN lss_filtered_index |->
                           RowTime(slots, lfs, old[lss_filtered_index[k]])
                             < lowest])
        kept      == IF force THEN Forced(old)
                     ELSE IF retval = "partial" THEN SubSeq(old, 1, rowsBefore)
                     ELSE old
        keptShown == IF force THEN Forced(lss_filtered_index)
                     ELSE IF retval = "partial"
                          THEN SubSeq(lss_filtered_index, 1, shownBefore)
                     ELSE lss_filtered_index
        added     == { r \in open \X (1..MaxLines) :
                         /\ r[2] <= size(r[1])
                         /\ force \/ old = << >> \/ r[2] > before[r[1]] }
        same      == [files |-> slots, index |-> old,
                      filtered |-> lss_filtered_index, force |-> FALSE,
                      capacity |-> Capacity(total),
                      told |-> NotTold]
        late      == [same EXCEPT !.files = Indexed(slots, before),
                                  !.index = kept, !.filtered = keptShown,
                                  !.force = TRUE]
        done(new) == [same EXCEPT
                        !.files = Indexed(slots, [i \in DOMAIN slots |->
                                             IF i \in open THEN size(i)
                                                           ELSE before[i]]),
                        !.index = kept \o new,
                        !.filtered =
                            keptShown \o Filtered(slots, lfs, ttt_min_row_time,
                                                  kept \o new, Len(kept)),
                        !.told =
                            [rr   |-> retval,
                             from |-> SearchStart(retval, Len(keptShown),
                                                  Len(lss_filtered_index))]]
    IN  IF kept = << >> /\ ~timeLeft THEN { late }
        ELSE IF retval = "none" THEN { same }
        ELSE { done(new) : new \in Collated(slots, lfs, added) }

\* rebuild_index() once the logfiles have been scanned.
RebuildIndex(slots, force0, lfs, res, timeLeft) ==
    \E r \in Rebuilt(slots, force0, lfs, res, timeLeft) :
        /\ lss_files' = r.files
        /\ lss_index' = r.index
        /\ lss_filtered_index' = r.filtered
        /\ lss_force_rebuild' = r.force
        /\ ba_capacity' = r.capacity
        /\ told' = r.told

-----------------------------------------------------------------------------
(* The main loop: rebuild_indexes().                                       *)

\* insert_file(): the first free slot, or a new one.
InsertFile(slots, f) ==
    LET ld   == [file |-> f, indexed |-> 0, visible |-> TRUE]
        free == DOMAIN slots \ Open(slots)
    IN  IF free = {} THEN Append(slots, ld) ELSE [slots EXCEPT ![Min(free)] = ld]

\* mutant: dropping a file leaves its rows where they are.
RemoveForcesNothing(gone) == FALSE

\* Removing a file asks for a full rebuild.
RemoveForces(gone) == gone # {}

\* remove_file() for the files in gone; free slots at the end are dropped.
RemoveFiles(slots, gone) ==
    LET left == [i \in DOMAIN slots |->
                   IF slots[i].file \in gone
                   THEN [slots[i] EXCEPT !.file = NoFile] ELSE slots[i]]
        used == Open(left) \cup {0}
    IN  SubSeq(left, 1, Max(used))

\* Files that could be promoted: their first line has been read by the text
\* view and has a timestamp.
Promotable ==
    { f \in Files : /\ lf[f].state = "ok"
                    /\ \A i \in DOMAIN lss_files : lss_files[i].file # f
                    /\ disk[f] # << >> }

\* The outcomes of scanning every open file: the logfiles, and a result per slot.
ScanAll(slots, lfs) ==
    LET open    == Open(slots)
        scan(i) == Scans(slots[i], lfs[slots[i].file])
        all     == { s \in [open -> UNION { scan(i) : i \in open }] :
                       \A i \in open : s[i] \in scan(i) }
        now(s)  == [f \in Files |->
                      IF \E i \in open : slots[i].file = f
                      THEN s[CHOOSE i \in open : slots[i].file = f].lf
                      ELSE lfs[f]]
    IN  { [lfs |-> now(s), res |-> [i \in open |-> s[i].res]] : s \in all }

\* One pass: a new log file is promoted (p, NoFile if none); closed ones are
\* removed; unless the view is paused or there is no time for the only file,
\* every file is scanned; then the index is rebuilt.
RebuildIndexes(p, paused, late) ==
    LET gone  == { f \in Files : lf[f].state = "closed" }
        in    == IF p = NoFile THEN lss_files ELSE InsertFile(lss_files, p)
        slots == RemoveFiles(in, gone)
        open  == Open(slots)
        alone == late /\ ~paused /\ Cardinality(open) = 1
        force == lss_force_rebuild
                   \/ RemoveForces({ f \in gone : \E i \in DOMAIN lss_files :
                                        lss_files[i].file = f })
        kept  == [f \in Files |->
                    IF f \in gone THEN Absent
                    ELSE IF f = p
                         THEN [lf[f] EXCEPT !.seen = SubSeq(disk[f], 1, 1)]
                    ELSE lf[f]]
    IN  IF paused \/ alone
        THEN /\ lf' = kept
             /\ RebuildIndex(slots, force, kept,
                             [i \in open |-> "SKIPPED"], ~alone)
        ELSE \E out \in ScanAll(slots, kept) :
               /\ lf' = out.lfs
               /\ RebuildIndex(slots, force, out.lfs, out.res, TRUE)

Pass ==
    /\ \E p \in Promotable \cup {NoFile},
          paused \in (IF "pause" \in Env THEN BOOLEAN ELSE {FALSE}),
          late \in (IF "deadline" \in Env THEN BOOLEAN ELSE {FALSE}) :
            RebuildIndexes(p, paused, late)
    /\ UNCHANGED <<disk, ttt_min_row_time, ops>>

-----------------------------------------------------------------------------
(* Writers and the user.                                                   *)

Count == ops < MaxOps /\ ops' = ops + 1

\* A writer appends a line.  The first line of a log file has a timestamp.
WriteLine(f, line) ==
    /\ Count
    /\ lf[f].state = "ok"
    /\ Len(disk[f]) < MaxLines
    /\ disk[f] = << >> => line.ts > 0
    /\ disk[f] # << >> => disk[f][Len(disk[f])].whole
    /\ ~line.whole => "unfinished" \in Env
    /\ disk' = [disk EXCEPT ![f] = Append(@, line)]
    /\ told' = NotTold
    /\ UNCHANGED <<lf, lss, ttt_min_row_time>>

\* The rest of an unfinished line; its timestamp may only be complete now.
FinishLine(f, ts) ==
    LET n == Len(disk[f])
    IN  /\ Count
        /\ lf[f].state = "ok"
        /\ n > 0 /\ ~disk[f][n].whole
        /\ \/ ts = disk[f][n].ts
           \/ "late_ts" \in Env /\ disk[f][n].ts = 0
        /\ disk' = [disk EXCEPT ![f][n] = [ts |-> ts, whole |-> TRUE]]
        /\ told' = NotTold
        /\ UNCHANGED <<lf, lss, ttt_min_row_time>>

\* The file is deleted (exists() says so) or truncated (only a scan will tell).
LoseFile(f, state) ==
    /\ Count
    /\ lf[f].state = "ok" /\ lf[f].seen # << >>
    /\ \/ state = "closed" /\ "rotate" \in Env
       \/ state = "truncated" /\ "truncate" \in Env
    /\ lf' = [lf EXCEPT ![f].state = state]
    /\ disk' = [disk EXCEPT ![f] = << >>]
    /\ told' = NotTold
    /\ UNCHANGED <<lss, ttt_min_row_time>>

\* The file collection opens a file of that name again.
OpenFile(f) ==
    /\ lf[f].state = "absent"
    /\ lf' = [lf EXCEPT ![f].state = "ok"]
    /\ told' = NotTold
    /\ UNCHANGED <<disk, lss, ttt_min_row_time, ops>>

\* mutant: the shown rows are not picked again.
TextFiltersChangedStale(slots, min) ==
    /\ ttt_min_row_time' = min
    /\ lss_files' = slots
    /\ told' = [rr |-> "full", from |-> 0]
    /\ UNCHANGED <<lss_filtered_index, lss_index, lss_force_rebuild,
                   ba_capacity>>

\* text_filters_changed(), with these slots and this lower bound.
TextFiltersChanged(slots, min) ==
    /\ ttt_min_row_time' = min
    /\ lss_files' = slots
    /\ IF lss_force_rebuild
       THEN /\ told' = NotTold
            /\ UNCHANGED lss_filtered_index
       ELSE /\ told' = [rr |-> "full", from |-> 0]
            /\ lss_filtered_index' = Filtered(slots, lf, min, lss_index, 0)
    /\ UNCHANGED <<lss_index, lss_force_rebuild, ba_capacity>>

\* :hide-file and :show-file (set_visibility(), set_indexing()).
SetVisibility(i) ==
    /\ "hide" \in Env
    /\ Count
    /\ TextFiltersChanged([lss_files EXCEPT ![i].visible = ~@],
                          ttt_min_row_time)
    /\ UNCHANGED <<disk, lf>>

\* :hide-lines-before
SetMinRowTime(t) ==
    /\ "min_time" \in Env
    /\ Count
    /\ TextFiltersChanged(lss_files, t)
    /\ UNCHANGED <<disk, lf>>

\* adjust_content_time(): :adjust-log-time shifts a file's clock.
AdjustContentTime(f) ==
    /\ "adjust" \in Env
    /\ Count
    /\ \E i \in DOMAIN lss_files : lss_files[i].file = f
    /\ lf' = [lf EXCEPT ![f].offset = 1 - @, ![f].sort = TRUE]
    /\ told' = NotTold
    /\ UNCHANGED <<disk, lss, ttt_min_row_time>>

-----------------------------------------------------------------------------

Init ==
    /\ disk = [f \in Files |-> << >>]
    /\ lf = [f \in Files |-> [Absent EXCEPT !.state = "ok"]]
    /\ lss_files = << >>
    /\ lss_index = << >>
    /\ lss_filtered_index = << >>
    /\ lss_force_rebuild = FALSE
    /\ ba_capacity = 0
    /\ ttt_min_row_time = 0
    /\ told = NotTold
    /\ ops = 0

WriterStep ==
    \E f \in Files :
        \/ \E line \in Line : WriteLine(f, line)
        \/ \E ts \in 0..MaxTime : FinishLine(f, ts)
        \/ \E state \in {"closed", "truncated"} : LoseFile(f, state)
        \/ OpenFile(f)

UserStep ==
    \/ \E i \in DOMAIN lss_files : lss_files[i].file # NoFile /\ SetVisibility(i)
    \/ \E t \in 0..MaxTime : t # ttt_min_row_time /\ SetMinRowTime(t)
    \/ \E f \in Files : AdjustContentTime(f)

Next == Pass \/ WriterStep \/ UserStep

Spec == Init /\ [][Next]_vars

\* A pass that is neither paused nor short of time.
FullPass ==
    /\ \E p \in Promotable \cup {NoFile} :
          /\ Promotable # {} => p # NoFile
          /\ RebuildIndexes(p, FALSE, FALSE)
    /\ UNCHANGED <<disk, ttt_min_row_time, ops>>

-----------------------------------------------------------------------------
(* Properties.                                                             *)

\* The time a row of the index has now.
TimeOf(row) == RowTime(lss_files, lf, row)

\* Every row is a line that its logfile has, every slot counts no more lines
\* than its file has, and the shown rows are rows.
TypeOK ==
    /\ disk \in [Files -> Seq(Line)]
    /\ lf \in [Files -> LogFile]
    /\ lss_files \in Seq(Slot)
    /\ \A i \in Open(lss_files) :
          lss_files[i].indexed <= Len(lf[lss_files[i].file].seen)
    /\ \A k \in DOMAIN lss_index :
          LET row == lss_index[k]
          IN  /\ row[1] \in Open(lss_files)
              /\ row[2] \in 1..Len(lf[lss_files[row[1]].file].seen)
    /\ lss_filtered_index \in Seq(1..Len(lss_index))
    /\ lss_force_rebuild \in BOOLEAN
    /\ ba_capacity \in Nat /\ ttt_min_row_time \in Nat

\* The index is in time order, whichever way it was brought up to date: by
\* appending, from a row on or from scratch.  While a shifted file waits to be
\* sorted it need not be.
IndexInOrder ==
    (\A f \in Files : ~lf[f].sort) =>
        \A j, k \in DOMAIN lss_index :
            j < k => TimeOf(lss_index[j]) <= TimeOf(lss_index[k])

\* Every line a slot counts as indexed is in the index, once.
IndexExact ==
    /\ { lss_index[k] : k \in DOMAIN lss_index }
         = { r \in Open(lss_files) \X (1..MaxLines) :
               r[2] <= lss_files[r[1]].indexed }
    /\ \A j, k \in DOMAIN lss_index : lss_index[j] = lss_index[k] => j = k

\* The view shows the rows that pass the filters, each once and in order, and
\* no other.  (Shifting a clock does not filter again until the next pass.)
FilteredExact ==
    (\A f \in Files : ~lf[f].sort) /\ ~lss_force_rebuild =>
        lss_filtered_index
          = Filtered(lss_files, lf, ttt_min_row_time, lss_index, 0)

\* What the view shows.
ViewRows ==
    [k \in DOMAIN lss_filtered_index |->
        LET row == lss_index[lss_filtered_index[k]]
        IN  <<lss_files[row[1]].file, row[2]>>]

\* The view is told of every change of its rows: rows below the one it is told
\* to search from still show the lines they did, and when it is told nothing
\* its rows are the same.  Search hits, and the column indexes of the SQL
\* tables, are kept by row on the strength of this.
RowsKept ==
    LET n == IF told'.rr = "none" THEN Len(lss_filtered_index) ELSE told'.from
    IN  lss_force_rebuild' \/ SubSeq(ViewRows', 1, n) = SubSeq(ViewRows, 1, n)

ViewIsTold == [][RowsKept]_vars

\* What is written to a file that stays is eventually in the index, although
\* passes may be paused or run out of time, and what was lost with a file is
\* eventually out of it.
AllIndexed ==
    <>[](\A f \in Files :
            \/ lf[f].state = "absent"
            \/ disk[f] = << >> /\ lf[f].state = "ok"
            \/ \E i \in Open(lss_files) :
                  /\ lss_files[i].file = f
                  /\ lss_files[i].visible =>
                        /\ lf[f].state = "ok"
                        /\ lss_files[i].indexed = Len(disk[f]))
=============================================================================
