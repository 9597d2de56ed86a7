----------------------------- MODULE FilterState -----------------------------
(***************************************************************************)
(* Text filters over a growing log file: text_filter and                   *)
(* logfile_filter_state (textview_curses.cc), the line_filter_observer     *)
(* that a logfile calls while it scans, and the rows logfile_sub_source    *)
(* shows as a result.                                                      *)
(*                                                                         *)
(* Filters decide on whole messages: a message matches when one of its     *)
(* lines does, and then all of its lines are marked in tfs_mask.  Messages *)
(* arrive line by line, the last line may be unfinished and is read again  *)
(* by the next scan, and the user adds, deletes and switches filters at    *)
(* any time.  The counters below exist to give the same marks anyway.      *)
(*                                                                         *)
(* There is one file in a time-ordered format, so a row of the index is a  *)
(* line.  Line numbers are 0-based, as in the code; sequences are 1-based. *)
(***************************************************************************)
EXTENDS Integers, Sequences, FiniteSets

CONSTANTS
    Patterns,   \* the regular expressions of filters
    MAX_FILTERS,\* filters at a time (32 in the code)
    Types,      \* the types of filter the user makes
    MaxLines,   \* bound: lines in the file
    MaxOps,     \* bound: operations of the writer and of the user
    Env         \* which of them happen

ASSUME EnvAssumption ==
    /\ IsFiniteSet(Patterns)
    /\ MAX_FILTERS \in Nat
    /\ Types \subseteq {"IN", "IN+", "OUT", "OUT+"}
    /\ MaxLines \in Nat /\ MaxOps \in Nat
    /\ Env \subseteq {"continued", "unfinished", "late_ts", "filters",
                      "session"}

VARIABLES
    disk,           \* the lines that have been written
    seen,           \* the lines lf_index was built from
    filters,        \* the filter stack, by lf_index; NoFilter if unused
    apply,          \* tss_apply_filters
    state,          \* the logfile_filter_state of the file, per filter
    shown,          \* lss_filtered_index: the rows that are shown
    ops             \* operations done so far (for the bound only)

vars == <<disk, seen, filters, apply, state, shown, ops>>

Filters == 0..(MAX_FILTERS - 1)

\* A line: does it start a message, what patterns match it, is it finished.
Line == [msg : BOOLEAN, hit : SUBSET Patterns, whole : BOOLEAN]

Filter == [pattern : Patterns, type : Types, enabled : BOOLEAN]
NoFilter == [type |-> "none", enabled |-> FALSE]

\* tfs_* of one filter: lines decided and hits counted; the message being
\* collected (matched, lines, mhits); the same for the last one that ended;
\* the lines whose bit is set in tfs_mask.
FilterRec == [count : Nat, hits : Int, matched : BOOLEAN, lines : Nat,
              mhits : Nat,
              last : [matched : BOOLEAN, lines : Nat, hits : Nat],
              mask : SUBSET Nat]

Cleared == [count |-> 0, hits |-> 0, matched |-> FALSE, lines |-> 0,
            mhits |-> 0,
            last |-> [matched |-> FALSE, lines |-> 0, hits |-> 0],
            mask |-> {}]

\* The filters in the stack.
InStack(stack) == { f \in Filters : stack[f] # NoFilter }

-----------------------------------------------------------------------------
(* text_filter.                                                            *)

\* mutant: the lines of a message that ended stay collected.
EndOfMessageKeeps(s, size) ==
    LET n    == IF s.lines < size - s.count THEN s.lines ELSE size - s.count
        them == s.count .. (s.count + n - 1)
    IN  [s EXCEPT !.count = @ + n,
                  !.hits  = @ + s.mhits,
                  !.mask  = IF s.matched THEN @ \cup them ELSE @ \ them]

\* end_of_message() with size lines in the file: the lines collected are
\* marked or unmarked alike.
EndOfMessage(s, size) ==
    LET n    == IF s.lines < size - s.count THEN s.lines ELSE size - s.count
        them == s.count .. (s.count + n - 1)
    IN  [count   |-> s.count + n,
         hits    |-> s.hits + s.mhits,
         matched |-> FALSE,
         lines   |-> 0,
         mhits   |-> 0,
         last    |-> [matched |-> s.matched, lines |-> s.lines,
                      hits |-> s.mhits],
         mask    |-> IF s.matched THEN s.mask \cup them ELSE s.mask \ them]

\* mutant: only the last line of a message decides.
AddLineForgets(s, filter, line, size) ==
    LET e == IF line.msg THEN EndOfMessage(s, size) ELSE s
    IN  [e EXCEPT !.matched = filter.pattern \in line.hit,
                  !.lines = @ + 1,
                  !.mhits = IF filter.pattern \in line.hit THEN @ + 1 ELSE @]

\* add_line(): a new message ends the one before.
AddLine(s, filter, line, size) ==
    LET e == IF line.msg THEN EndOfMessage(s, size) ELSE s
    IN  [e EXCEPT !.matched = @ \/ filter.pattern \in line.hit,
                  !.lines = @ + 1,
                  !.mhits = IF filter.pattern \in line.hit THEN @ + 1 ELSE @]

\* revert_to_last(): the last message is collected again, without the lines
\* that will be read again; if none is left it is as if it had not begun.
RevertToLast(s, rollback) ==
    LET n == s.last.lines
        k == IF n > 0 THEN n - rollback ELSE 0
    IN  [s EXCEPT !.hits    = @ - (IF s.last.matched THEN n ELSE 0),
                  !.count   = @ - n,
                  !.mask    = @ \ ((s.count - n) .. (s.count - 1)),
                  !.matched = s.last.matched /\ k > 0,
                  !.lines   = k,
                  !.mhits   = s.last.hits]

-----------------------------------------------------------------------------
(* line_filter_observer.                                                   *)

\* logline_new_lines() for the lines from+1.. of a file, size[i] being the
\* size of the file when line i is observed.  Lines a filter has decided
\* before are not shown to it again.
NewLines(s, filter, lines, from, size) ==
    LET after[i \in from..Len(lines)] ==
          IF i = from THEN s
          ELSE IF i - 1 >= after[i - 1].count
               THEN AddLine(after[i - 1], filter, lines[i], size[i])
               ELSE after[i - 1]
    IN  after[Len(lines)]

\* A scan that reads the file again from line from+1 on: logline_restart(),
\* logline_new_lines() for each line read, logline_eof().
Scanned(s, filter, lines, from) ==
    EndOfMessage(NewLines(RevertToLast(s, Len(seen) - from), filter, lines,
                          from, [i \in 1..Len(lines) |-> i]),
                 Len(lines))

\* get_min_count(): the lines every filter has decided.
MinCount(stack, st) ==
    CHOOSE m \in 0..Len(seen) :
        /\ \A f \in InStack(stack) : m <= st[f].count
        /\ m = Len(seen) \/ \E f \in InStack(stack) : m = st[f].count

\* reobserve_from(): the other lines are observed again, then every filter is
\* told of the end of the file.
Reobserved(stack, st) ==
    [f \in Filters |->
       IF f \in InStack(stack)
       THEN EndOfMessage(NewLines(st[f], stack[f], seen, MinCount(stack, st),
                                  [i \in 1..Len(seen) |-> Len(seen)]),
                         Len(seen))
       ELSE st[f]]

\* The enabled filters of a type (get_enabled_mask).
Enabled(stack, type) ==
    { f \in Filters : stack[f].type = type /\ stack[f].enabled }

\* mutant: one OUT+ filter is enough to hide a line.
ExcludedByAny(stack, marks) ==
    \/ Enabled(stack, "IN") # {} /\ marks \cap Enabled(stack, "IN") = {}
    \/ ~(Enabled(stack, "IN+") \subseteq marks)
    \/ marks \cap Enabled(stack, "OUT") # {}
    \/ marks \cap Enabled(stack, "OUT+") # {}

\* excluded(), given the filters whose bit is set for the line.
Excluded(stack, marks) ==
    \/ Enabled(stack, "IN") # {} /\ marks \cap Enabled(stack, "IN") = {}
    \/ ~(Enabled(stack, "IN+") \subseteq marks)
    \/ marks \cap Enabled(stack, "OUT") # {}
    \/ /\ Enabled(stack, "OUT+") # {}
       /\ Enabled(stack, "OUT+") \subseteq marks

\* The rows in a range that pass the filters.
Passing(stack, on, st, rows) ==
    { l \in rows : on => ~Excluded(stack, { f \in Filters : l \in st[f].mask }) }

-----------------------------------------------------------------------------
(* The main loop.                                                          *)

\* mutant: what the line read again matches is of no interest.
RollbackMatchedNever(from) == FALSE

\* The line that was dropped and read again, from+1, matches a filter that had
\* not decided it.
RollbackMatched(from) ==
    /\ seen # << >>
    /\ \E f \in InStack(filters) :
          /\ filters[f].pattern \in disk[from + 1].hit
          /\ from >= RevertToLast(state[f], 1).count

\* A pass: the logfile drops its last line and reads on to the end, and the
\* new rows are added to the shown ones; or, if the line that was read again
\* matched, all rows are picked again (NEW_ORDER).
Pass ==
    LET from  == IF seen = << >> THEN 0 ELSE Len(seen) - 1
        now   == [f \in Filters |->
                    IF f \in InStack(filters)
                    THEN Scanned(state[f], filters[f], disk, from) ELSE state[f]]
        old   == IF RollbackMatched(from) THEN 0 ELSE Len(seen)
    IN  /\ disk # seen
        /\ seen' = disk
        /\ state' = now
        /\ shown' = (shown \cap 0..(old - 1))
                      \cup Passing(filters, apply, now, old..(Len(disk) - 1))
        /\ UNCHANGED <<disk, filters, apply, ops>>

Count == ops < MaxOps /\ ops' = ops + 1

\* mutant: a filter finds the state of the one that had its index before.
StateInUseDirty(stack) == state

\* clear_deleted_filter_state(): the state of filters that are gone is cleared.
StateInUse(stack) ==
    [f \in Filters |-> IF f \in InStack(stack) THEN state[f] ELSE Cleared]

\* text_filters_changed() with a new stack: the state of deleted filters
\* is cleared, the file is observed again and all rows are picked again.
TextFiltersChanged(stack, on) ==
    LET now == Reobserved(stack, StateInUse(stack))
    IN  /\ filters' = stack
        /\ apply' = on
        /\ state' = now
        /\ shown' = Passing(stack, on, now, 0..(Len(seen) - 1))

\* next_index(): the lowest index that is not in use, if there is one.
NextIndex(stack) ==
    { f \in Filters \ InStack(stack) : 0..(f - 1) \subseteq InStack(stack) }

\* :filter-in, :filter-out and their -and variants.
AddFilter(f, p, type) ==
    /\ "filters" \in Env
    /\ Count
    /\ f \in NextIndex(filters)
    /\ \A g \in InStack(filters) : filters[g].pattern # p
    /\ TextFiltersChanged([filters EXCEPT ![f] = [pattern |-> p, type |-> type,
                                                  enabled |-> TRUE]], apply)
    /\ UNCHANGED <<disk, seen>>

\* :delete-filter
DeleteFilter(f) ==
    /\ "filters" \in Env
    /\ Count
    /\ f \in InStack(filters)
    /\ TextFiltersChanged([filters EXCEPT ![f] = NoFilter], apply)
    /\ UNCHANGED <<disk, seen>>

\* :enable-filter and :disable-filter
SetFilterEnabled(f) ==
    /\ "filters" \in Env
    /\ Count
    /\ f \in InStack(filters)
    /\ TextFiltersChanged([filters EXCEPT ![f].enabled = ~@], apply)
    /\ UNCHANGED <<disk, seen>>

\* :toggle-filtering
ToggleApplyFilters ==
    /\ "filters" \in Env
    /\ Count
    /\ TextFiltersChanged(filters, ~apply)
    /\ UNCHANGED <<disk, seen>>

-----------------------------------------------------------------------------
(* The writer.                                                             *)

WriteLine(line) ==
    /\ Count
    /\ Len(disk) < MaxLines
    /\ disk = << >> => line.msg
    /\ disk # << >> => disk[Len(disk)].whole
    /\ ~line.msg => "continued" \in Env
    /\ ~line.whole => "unfinished" \in Env
    /\ disk' = Append(disk, line)
    /\ UNCHANGED <<seen, filters, apply, state, shown>>

\* The rest of an unfinished line: more filters may match it now, and its
\* timestamp may only be complete now.
FinishLine(line) ==
    LET n == Len(disk)
    IN  /\ Count
        /\ n > 0 /\ ~disk[n].whole
        /\ line.whole
        /\ disk[n].hit \subseteq line.hit
        /\ \/ line.msg = disk[n].msg
           \/ "late_ts" \in Env /\ line.msg
        /\ disk' = [disk EXCEPT ![n] = line]
        /\ UNCHANGED <<seen, filters, apply, state, shown>>

-----------------------------------------------------------------------------

\* A session may have restored filters before the file is opened.
Stacks ==
    IF "session" \in Env
    THEN { s \in [Filters -> {NoFilter} \cup Filter] :
             \A f, g \in InStack(s) : s[f].pattern = s[g].pattern => f = g }
    ELSE { [f \in Filters |-> NoFilter] }

Init ==
    /\ disk = << >>
    /\ seen = << >>
    /\ filters \in Stacks
    /\ apply = TRUE
    /\ state = [f \in Filters |-> Cleared]
    /\ shown = {}
    /\ ops = 0

UserStep ==
    \/ \E f \in Filters, p \in Patterns, type \in Types : AddFilter(f, p, type)
    \/ \E f \in Filters : DeleteFilter(f) \/ SetFilterEnabled(f)
    \/ ToggleApplyFilters

WriterStep == \E line \in Line : WriteLine(line) \/ FinishLine(line)

Next == Pass \/ UserStep \/ WriterStep

Spec == Init /\ [][Next]_vars

-----------------------------------------------------------------------------
(* Properties.                                                             *)

\* The lines of the message that line l is part of.
MessageOf(l) ==
    { k \in 0..(Len(seen) - 1) :
        \A i \in (IF k < l THEN k ELSE l) + 1 .. (IF k < l THEN l ELSE k) :
            ~seen[i + 1].msg }

\* Some line of l's message matches filter f.
Matches(f, l) == \E k \in MessageOf(l) : filters[f].pattern \in seen[k + 1].hit

\* Every variable holds a value of the kind the declarations allow; the counts
\* are of lines the file has, and nothing is left half collected between scans.
TypeOK ==
    /\ disk \in Seq(Line) /\ seen \in Seq(Line)
    /\ filters \in [Filters -> {NoFilter} \cup Filter]
    /\ apply \in BOOLEAN
    /\ state \in [Filters -> FilterRec]
    /\ \A f \in Filters : /\ state[f].lines = 0
                          /\ state[f].last.lines <= state[f].count
                          /\ state[f].count <= Len(seen)
    /\ shown \subseteq 0..(Len(seen) - 1)

\* Between scans every filter has decided every line, and the lines it has
\* marked are exactly those of the messages in which one of the lines matches.
MaskExact ==
    \A f \in InStack(filters) :
        /\ state[f].count = Len(seen)
        /\ state[f].mask = { l \in 0..(Len(seen) - 1) : Matches(f, l) }

\* The rows shown are those of the messages that match one IN filter if there
\* is any, all IN+ filters, no OUT filter, and not all OUT+ filters.
ShownExact ==
    apply =>
        shown = { l \in 0..(Len(seen) - 1) :
                    /\ \/ Enabled(filters, "IN") = {}
                       \/ \E f \in Enabled(filters, "IN") : Matches(f, l)
                    /\ \A f \in Enabled(filters, "IN+") : Matches(f, l)
                    /\ \A f \in Enabled(filters, "OUT") : ~Matches(f, l)
                    /\ \/ Enabled(filters, "OUT+") = {}
                       \/ \E f \in Enabled(filters, "OUT+") : ~Matches(f, l) }

\* A row that matches an enabled OUT filter by itself is not shown.
OutIsHidden ==
    apply => \A l \in shown, f \in Enabled(filters, "OUT") :
                 filters[f].pattern \notin seen[l + 1].hit
=============================================================================
