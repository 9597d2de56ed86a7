# TLA+ models of flnav

flnav is a terminal log viewer. It follows many log files at once, collates
their lines in one time-ordered view, filters them, and searches them in the
background while they grow. It mirrors files of other hosts, unpacks archives
into a cache that all its processes share, and does such work in service
threads. This directory holds TLA+ models of the parts in which that is hard to
get right, the TLC configurations that check them, and TLAPS proofs of what
matters most about the search, the index, the filters, the remote files, the
archive cache and the services.

`tlc -config X.cfg M` checks one run; `tlapm M.tla` checks the proofs of the
module `M`, one of `GrepProcProofs`, `GrepCompleteProofs`, `LogIndexProofs`,
`FilterStateProofs`, `Induction`, `TailerProofs`, `ArchiveCacheProofs` and
`ServicesProofs`.
`PROJECT.json` lists runs, mutants, findings, hazards and theorems, and maps
each definition to the source lines it models.

## 1. The system

Most of the state below belongs to one process. Its main thread runs a loop:
poll the terminal and the pipes of search children, process the messages on its
port, handle keys and commands, and call `rebuild_indexes()`. Concurrency comes
from forked search children, from threads that scan files in parallel, from
service threads (`isc`), from the tailer on a remote host, from other flnav
processes that share the archive cache, and from the writers of the log files,
which respect nothing.

| Part | State | Operations | Interaction |
|---|---|---|---|
| background search, `grep_proc.*` | queue of requests, forked children, highest line seen | `queue_request`, `start`, `child_loop`, `check_poll_set`, `cleanup`, `invalidate` | forks over a copy of the view's text; calls back `grep_begin`, `grep_match`, `grep_end` of the view |
| text view, `textview_curses.*` | search bookmarks, count of active searches, current pattern | `execute_search`, `search_new_data`, `redo_search`, `toggle_user_mark` | owns the `grep_proc`; called by the log index when rows change |
| log index, `logfile_sub_source.*` | slots of files, time-ordered index, filtered index, force flag | `rebuild_index`, `text_filters_changed`, `insert_file`, `remove_file` | reads the logfiles; tells the view what changed and from which row |
| log file, `logfile.*` | lines with times, offset, observers | `rebuild_index`, `reobserve_from`, `adjust_content_time` | reads through a line buffer; calls the filter observer for each line |
| main loop, `lnav.indexing.cc` | the active files | `rebuild_indexes`, `update_active_files` | promotes, closes and scans files, then rebuilds the index |
| text filters, `filter_observer.*`, `cmds.filtering.cc`, part of `textview_curses.cc` | filter stack; per file and filter: count, hits, message being collected, mask | `add_line`, `end_of_message`, `revert_to_last`, the filter commands | called by scans; masks read by the log index |
| line buffer, `line_buffer.*` | file range, preloaded range, future | `load_next_line`, `preload` | loader thread |
| services, `base/isc.*` | message ports, looping flags, lists of children | `send`, `send_and_wait`, `process_for`, `stop`, `cleanup_children` | threads of the URL loader, the tailer and its hosts; the web server asks the main thread |
| archive manager, `archive_manager.cc` | cache directory with lock files and `.done` markers | `extract`, `walk_archive_files`, `cleanup_cache` | other flnav processes share the cache |
| remote tailer, `tailer/tailer.main.c`, `tailer/tailer.looper.*` | per path: client state, offset, size; per host: desired, synced, new and existing paths; local copies | `poll_paths`, the packets of `host_tailer::loop_body`, `add_remote`, `child_finished` | packets over ssh; the main thread waits in `rescan_files()` for what is reported |
| piper, log watch, forensics (`session_trace`, `ssh_flow`, `log_gaps`, `ioc_matcher`), file collection, session data, SQL tables, formats, user interface | | | |

What is hard, and what makes each part correct:

* **Search.** Children print matches against the text as it was at the fork,
  in any order and late; requests are queued while a run is active; the user
  changes the pattern in the middle; the text is appended to or renumbered. It
  is correct if the `tc_searching` counter is exact, nothing queued is
  forgotten, no bookmark is on a line that does not match, none is missing
  when the search is over, and the search does end. (Of lines that are searched
  while they are unfinished the code does not keep this up, see section 3.)
* **Index.** Files are scanned in pieces, the last line is always provisional,
  files disappear, clocks shift, passes are cut short by a deadline. It is
  correct if the index is exactly the lines of the files, in time order, the
  shown rows are exactly those that pass, and the view hears of every row that
  changes.
* **Filters.** Filters decide on messages, but lines come one at a time and
  the last one is read twice or more. They are correct if the marks, the rows
  shown and the hit counts are those of the whole messages.
* **Remote files.** The tailer offers hashes of blocks to find out how much of
  an old local copy is right, connections break between any two packets, files
  are replaced meanwhile. It is correct if what the tailer takes as copied is
  copied, followed files end up in their copies, and the main thread is told of
  every path it waits for, when it has been copied.
* **Archive cache.** Processes fail or die in the middle of an extraction, and
  others clean the cache. It is correct if a marker always stands for a complete
  directory, and whoever opens an archive gets an answer.
* **Services.** Senders, timeouts, exceptions and the end of the program race
  with threads that take their whole queue at once. They are correct if a
  message is run once and in order, an answer means that the message was run, a
  thread that ends is joined and reported once, and leaving the program ends them all.

The hazards, with the line where each bites, are in `PROJECT.json`.

## 2. The modules

| Module | Models |
|---|---|
| `GrepProc` | search children, the parent's bookkeeping, the view's bookmarks |
| `GrepProcProofs` | the inductive invariants of `GrepProc` and their proofs |
| `GrepCompleteProofs` | the proof that a search which is over has found every match |
| `LogIndex` | logfiles, the collated index and the filtered index, a pass of the main loop |
| `MCLogProgress` | `LogIndex` with the fairness of the main loop |
| `LogIndexProofs` | what one call of `rebuild_index()` does, and the inductive invariant of `LogIndex`, proved |
| `FilterState` | the filter stack, the per-message state of filters, the rows shown |
| `Induction` | induction over numbers, in a form the provers can use |
| `FilterStateProofs` | the loop invariants and the inductive invariant of `FilterState` and their proofs |
| `Tailer` | the remote tailer, the service of a host, the service of all hosts, and what the main thread is told |
| `TailerProofs` | the inductive invariants of `Tailer` and their proofs |
| `CacheEntry` | abstract: what the archive cache promises for one archive |
| `ArchiveCache` | the lock file, the marker and the directory of one archive; implements `CacheEntry` |
| `ArchiveCacheProofs` | the inductive invariant of `ArchiveCache` and the refinement, proved |
| `Services` | threads, message ports and supervisors |
| `ServicesProofs` | the inductive invariant of `Services` and its proof |

Operators whose comment begins with "mutant:" are not part of a model. Each is
a plausible mistake in the definition that follows it and is used to see that
the property it belongs to would notice.

### GrepProc

`gp_queue`, `gp_children`, `gp_child_queue_size`, `gp_highest_line`,
`tc_searching` and `bm_search` are the members of those names; `active` is
whether the view has a search child. `text` is the view's text, with a line
reduced to "the current pattern matches it". When the last line, read while
unfinished, is read again, it may match or not whatever it did before
(`GrowLastLine`: `foo$` matches a line that only ends in `foo` for now). `lost` is
a history variable: the lines that matched until they were completed. Nothing
erases their bookmarks but the next search of them.

| Action | Code |
|---|---|
| `ChildStep` | one request of `child_loop()`, up to its flush |
| `CheckPollSet` | `check_poll_set()` for one ready child: a batch of at most `MAX_LOOPS` lines, `dispatch_line()`, reaping, `cleanup()` with its `start()` |
| `ExecuteSearch`, `ClearSearch` | `execute_search()` with a pattern or an empty one |
| `ToggleUserMark` | `toggle_user_mark()` with its search of the marked lines |
| `AppendLines`, `GrowLastLine`, `PartialRebuild`, `FullRebuild` | the ends of `logfile_sub_source::rebuild_index()`: `search_new_data()`, `search_new_data(row)`, `redo_search()` |

A child's unread output is a set of lines and the largest "h" line: the sink
only collects lines into a set, and nobody reads the highest line before the
last child is gone, so the order in one pipe cannot be observed. Polling one
ready child at a time reaches the states that the loop over all of them
reaches. Killed children lose what they printed, as in the code.

### LogIndex

`lss_files`, `lss_index`, `lss_filtered_index`, `lss_force_rebuild`,
`ba_capacity` and `ttt_min_row_time` are the members of those names; `lf` are
the logfile objects and `disk` is what has been written. `told` is what the
last step reported to the view. A pass (`Pass`) is one atomic step because all
of it runs on the main thread between two polls; within it every file's scan
may end early, at the file's end, or find it truncated, in any combination.
The order of lines with equal times from different files is left open. The
binary searches of the code are modelled as bisections (`LowerBound`) and not
as "the first such row", since they run over data whose order is in question.

Writers: `WriteLine`, `FinishLine`, `LoseFile`, `OpenFile`. User:
`SetVisibility`, `SetMinRowTime`, `AdjustContentTime`.

### FilterState

One time-ordered file, so that a row is a line. `filters` is the filter stack
by `lf_index`, `state` the `tfs_*` arrays of the file by filter, with
`tfs_mask` turned round: the set of lines whose bit is set. `Pass` is a scan
with its `logline_restart()`, `logline_new_lines()` and `logline_eof()` and the
filtering of new rows, or of all rows when the line that was read again
matched. `AddFilter`, `DeleteFilter`, `SetFilterEnabled`, `ToggleApplyFilters`
each end in `text_filters_changed()`, which reobserves the file.

### Tailer

One host and regular files. A file is a sequence of blocks, and the hash of a
range is the range itself. `cps` is the tailer's `client_path_state` of each
path (`state`, `offset`, `size`, the size in `cps_last_stat` as `last`, and
whether the last path state was an error); `ht`, `desired`, `syncedSet` and
`initDone` are `ht_state` and the members of its `connected` state; `newPaths`
and `oldPaths` the two lists of `remote_path_queue`; `told`, `stubs` and
`hostStub` what the main thread knows. Packets in the two pipes keep their
order; a broken connection loses what is on its way to the tailer and any tail
of what is on its way back. `due` is a history variable: how many blocks each file
had when its host was last connected, which is what a report of the file as synced
must stand for (`CaughtUp`); what is appended after that may or may not be in the
copy.

| Action | Code |
|---|---|
| `TailerPacket`, `TailerPoll` | a round of `main()` with or without a packet, each with its `poll_paths()` |
| `open_remote_path`, `packet_eof`, `packet_error`, `packet_offer_block`, `packet_tail_block`, `packet_synced` | the packets of `host_tailer::loop_body()`, each with the end of the service when the state is no longer `connected` |
| `add_remote`, `loop_connect`, `loop_refused`, `loop_send`, `child_finished` | `tailer::looper` |
| `AppendBlock`, `Replace`, `Delete`, `Disconnect` | the remote host and the network |

Messages to the main thread are applied at once: it only collects them in sets.
The order in which `poll_paths()` visits the paths, and the one in which queued
paths are opened, is left open: any order may occur, of which the code takes the
order of the requests. The packets that one visit sends stay together.

### ArchiveCache and CacheEntry

`lck` is the inode that the name of the lock file stands for, so that a lock
file which is unlinked and created again is another lock. `dir` has, for each
file of the archive, whether it is complete or which process is writing it.
Whoever has an inode open (`fd`) holds its lock unless it waits for it (`lock`).
`pc` and `cl` are the steps of `walk_archive_files()` and of `cleanup_cache()`;
each system call is a step, and a process may die before any of them. `mixed`
is a history variable: a removal, which takes no lock, was going on while some
process had the archive open; it is cleared when nobody is at work and no
marker is there, since the next opening then starts anew.

`CacheEntry` says what users may rely on: an entry is `Gone`, `Ready`, or being
built by one client, and only a `Ready` entry is handed out. `ActsAsEntry` is
the refinement: a marker maps to `Ready`, a process that writes without a marker
to that client, and the steps are those of `CacheEntry` or leave it alone, for
as long as `mixed` is false.

### Services

The main thread, `tailer::looper` as its service, host tailers as children of
that, and threads of the web server. `queue` and `batches` are `mp_messages`
and the `tmp_msgs` of each running `process_for()`: the main thread has several
of them when a message runs a command that calls `rescan_files()` (`nest`,
`unnest`). `kids` is `s_service_list`, `todo` and `joining` where a loop over it
stands. Messages are sent from the work of a thread and from its callbacks, and
the looper and its hosts send to the main thread too. `sent`, `ran`, `finished`
and `gaveUp` are histories for the properties.

A service that waits may wake for any reason, as the code looks at no predicate.
The same `process_for()` is the wait of `send_and_wait()`, so that this too comes
back with its answer (`return`) or, by the timeout or a spurious wakeup, without
(`return_early`). The message then still refers to a reply port on a stack frame
that is gone. What its late `reply_port.send()` hits is left open in `answer`:
nothing that matters, or the reply port of a later wait of the same thread, which
is then answered by the wrong message.

## 3. The runs

`CHECK_DEADLOCK FALSE` is in every configuration: the bounds on operations,
a log nobody writes to, and threads that have all ended make stopping
legitimate. Where stopping too early would be the fault, a liveness property
says so.

Passing runs:

| Run | Shows |
|---|---|
| `GrepHits` | appended text, a last line that grows and matches or not, full rebuilds, new patterns: counter exact, nothing forgotten, and a bookmark is on a line that matches or on one that matched until it was completed |
| `GrepComplete` | appended text, partial and full rebuilds: every search ends, and then no match is missing |
| `LogCollate` | one file in time order and one not; growth, rotation, hiding, a moving time bound, paused passes, shifted clocks, unfinished lines: index exact and in order, shown rows exact |
| `LogPressure` | truncation, rotation, hiding, late passes, an index array that moves often: the same, the view is told of every changed row, and everything written is eventually indexed |
| `FilterSwitch` | four types of filter added, deleted, switched, their indexes reused, over messages of one line: marks and shown rows exact |
| `FilterMessages` | multi-line messages and unfinished lines under filters that stay: marks exact, a line that matches an OUT filter hidden |
| `TailerMirror` | one growing file over any old copy, connections refused and broken: the local copy is right up to the tailer's offset; a file reported as synced has all the blocks it had when its host was connected; a followed file is eventually in its copy, that is, a prefix of it |
| `TailerPaths` | two files, one replaced or deleted, one added late, broken connections: a path reported as synced has all the blocks it had when its host was connected, or an error is shown; `rescan_files()` does not wait for ever for the paths it had from the start |
| `ArchiveOpen` | two processes, errors, deaths and cleaning: a marker stands for a complete directory, `CacheEntry` is implemented, everyone gets an answer |
| `ServiceThreads` | sends, answers, waits that come back early, exceptions, ends and quitting in any interleaving: messages run once and in order, an answer means that the message was run to its end while its caller was there, threads are joined and reported once and none outlives the thread that started it, messages and answers come, leaving the program ends every thread |

Runs in which the code does what a document of the repository denies. Each is a
short trace:

| Run | What happens |
|---|---|
| `LogLateTimestamp` | the last line, read as a continuation while unfinished, has a timestamp of its own when complete. The number of lines did not change, so nothing compares its time, and the row stays out of order. `IndexInOrder` holds in the passing runs, where unfinished lines keep their time. |
| `TailerReplaced` | a remote file is replaced on its device by one that is not shorter. `tailer.main.c:461` asks for device "and" inode to differ, so nothing is noticed and the local copy keeps the old contents. |

### Known limits

These are not covered by a passing run. The first group can be seen by changing
one constant of a configuration, or adding one invariant:

* `GrepHits` with `"partial"` in `Changes`: `search_new_data(row)` after a
  partial rebuild (`logfile_sub_source.cc:1699`) does not stop children that
  scan the old numbering. The request for the rows from `row` on erases their
  bookmarks first, then an old child's line arrives and stays
  (`HitsAreMatches`, also when the search is over).
* `GrepComplete` with `"grow_last"` in `Changes`: a child reports the
  unfinished last line as seen, the next request starts after it, and its match
  is never found.
* `GrepHits` without `lost` in `HitsAreMatches`: a line that matched while it was
  unfinished (`foo$`, `id=1\b`) matches no longer when it is complete, and
  `search_new_data(-1)` continues behind it and erases nothing: its bookmark
  stays until the text is searched anew.
* `LogCollate` with `ViewIsTold`: older lines in a file of an unordered format
  rebuild the index (`logfile_sub_source.cc:1164`) but are reported as appended,
  so that rows change under hits and column indexes.
* `LogCollate` with `"truncate"` in `Env` besides `"adjust"`, three files, two
  lines and six operations: a file whose clock was shifted is truncated before
  the next pass. Its scan closes it and returns no new lines
  (`logfile.cc:1440`) before `lf_sort_needed` is looked at, so the index, out of
  order since the shift, is rebuilt in part: `std::lower_bound` over the rows and
  `find_from_time()` in the file cut at different places and a row is in the index
  twice (`IndexExact`) until the pass after that drops the file.
* `FilterMessages` with `ShownExact`: a late line of a message matches an OUT
  filter and the marks change for the whole message, but the rows shown before
  are picked again only if the line that was read again matches
  (`logfile.cc:1754`).
* `FilterMessages` with `"filters"` in `Env`: after any
  `text_filters_changed()` an unfinished line that is completed is not decided
  again (`textview_curses.cc:129`), and `OutIsHidden` fails.
* `FilterMessages` with `"late_ts"` in `Env`: an unfinished continuation that
  matched becomes a message of its own and the message before keeps its mark
  (`MaskExact`).
* The hits of a filter are not the lines that match it: `revert_to_last()` takes
  lines off the count but restores the hits of the line that will be read again
  (`textview_curses.cc:67`).
* `TailerPaths` with `asked` in place of `asked \ late`: a followed path that is
  added after the first synchronisation is never reported as synced
  (`c_initial_sync_done` is set once per connection), so `rescan_files()` waits
  for it; a path that is not followed and is added while the host is ending is
  reported as synced without having been fetched.
* `TailerPaths` with `late` paths in `ToldIsCopied`: `child_finished()` reports all
  paths of a host that is synced (`tailer.looper.cc:1158`), also one whose message
  is still queued for the `host_tailer` that has just ended.
* `TailerPaths` with `"unreachable"` in `Env` besides `"late_add"`: when the
  host is refused and a new path is not followed, all paths of the host are
  reported as synced (`send_synced_to_main()`); a path added after that connects
  to the host, whose first offer removes the error of the host, and the paths
  given up before stay reported without a copy or an error (`ToldIsCopied`).
  The headless mode, the only one that does not follow, has all its paths at the
  start.
* `ArchiveOpen` without `~mixed`: after an error the directory is removed when
  the lock is already dropped (`archive_manager.cc:394`), and `cleanup_cache()`
  takes no lock, unlinks the lock file, and removes an entry that was refreshed
  after its scan. A process that is inside then marks or walks an incomplete
  directory.
* `ServiceThreads` with no exception for `gaveUp` in `AnswerMeansRun`: a
  `send_and_wait()` that comes back early (`isc.hh:84`) leaves its message to run
  with references to the caller's frame, and the late answer may end a later wait
  of that thread before its message has run. The property says that the harm stays
  with that thread: nobody else is answered by it.
* `Services`: a callback that throws, or a service that ends, leaves a
  `send_and_wait()` caller waiting for its timeout of 48 hours (`stranded`);
  messages queued at the end are never run; nested processing runs later
  messages of the main thread before earlier ones.

In the tailer, an old local copy that is longer than the remote file and begins
with it keeps its tail (so `FollowConverges` speaks of a prefix), and an
acknowledgement that is under way when a file is replaced can leave a hole in
the copy; files that are replaced are therefore excluded from `PrefixMirrored`.

### Bounds

Every bound is a constant with a name. They are chosen so that each mechanism
is exercised in full:

* `MaxLines = 3`, `CHUNK_SIZE = 2`: a range of two chunks, the last one short;
  `MAX_CHILDREN = 2` with up to three requests: round robin; `MAX_LOOPS = 2`:
  output that takes more than one poll and output that fills a batch exactly.
  `MaxOps` of 3 or 4: a search, a change of the text while it runs, and another
  request queued behind it.
* two files, two or three lines each and three timestamps: a line before,
  between and after what the other file has; `DEFAULT_INCREMENT` of 1 or 2
  makes the index array move several times, 5 makes it move once.
* two filters of any of the four types over two patterns; or one filter over
  messages of up to four lines, each of which may be unfinished for any number
  of passes.
* remote files of up to three blocks of two kinds with offers of one and buffers
  of two: an offer that is the whole copy, a copy that is shorter, equal,
  different or longer, a tail in two blocks; three connections, so that two
  break or are refused. Two paths, one of them replaced or deleted, with a late
  request and two connections.
* two processes, an archive of two files and three openings: one dies or fails
  half-way, another waits for the lock, and one opens again after the cache was
  cleaned.
* one service with one child, one web thread, three messages and early returns in
  all (`MaxSends`) and nested processing of depth one: a message behind the one that nests, one that arrives
  while it does, and one sent while a batch is run.

No symmetry is declared: slots are ordered and `TimeOrdered` tells files apart
in `LogCollate`, most runs have temporal properties, and all are small enough
without.

### Fairness

`GrepComplete`: weak fairness of "some child works" and of "some ready child is
polled". Children are processes that the system schedules, and the main loop
polls for as long as flnav runs. Nothing is assumed about which child is
served. `LogPressure`: the main loop calls `rebuild_indexes()` for ever, and
infinitely often without a pause and with time left; the other passes may be
late. `MCLogProgress` counts passes with a bit so that a pass which
changes nothing is a step too. The bounds on operations stand for "user and
writers leave it alone from some point on".

`TailerMirror`, `TailerPaths`: weak fairness of a round of the tailer with and
without a packet, of the host's service reading a packet or opening paths, and
of the looper: these are loops of processes and threads that run for as long as
the connection stands, and ssh delivers what it does not lose with the
connection. No path has to be asked for, no file has to change. The last
connection of the bound neither breaks nor is refused: "from some point on the
host stays reachable". `ArchiveOpen`: each process that has begun goes on,
including past a lock that is free again and again, which with at most three
openings needs only weak fairness. `ServiceThreads`: each thread is scheduled and
a wait that was notified comes back; nobody has to send, throw or quit, and no
wait has to reach its timeout.

## 4. The proofs

`GrepProcProofs` proves, for every text length, number of operations, chunk
size, number of children and batch size (`BoundsAssumption` of `GrepProc`):

* `TypeTheorem`: `Spec => []TypeOK`. This includes that `grep_end()` never
  takes `tc_searching` below zero, which the code `ensure()`s.
* `BalanceTheorem`: `Spec => []SearchBalance`.
* `QueueTheorem`: `Spec => []QueueWaits`.
* `HitsTheorem`: `Spec => []HitsAreMatches` if no partial rebuild occurs
  (`"partial" \notin Changes`). The assumption is needed, and so is the exception
  that `HitsAreMatches` makes for a line that lost its match when it was completed:
  see the known limits. What is shown is that this is the only way to a wrong
  bookmark.

None of the first three is inductive alone. `TypeOK` needs the balance to know
that subtracting the ended requests leaves a natural number. The balance needs
`QueueWaits` because `cleanup()` gives back `gp_child_queue_size` and calls
`start()`, which resets it. So the invariant is
`IInv == TypeOK /\ SearchBalance /\ QueueWaits`. Lemmas state what
`QueueRequest` and `Fork` return and what `Start` preserves, and then there is
one lemma per action.

For hits, `HitInv` says of every child that the lines it has printed, and the
lines it will find in its copy, match in the present text too or are in `lost`.
Appending keeps that, and growing, which changes one line, puts it in `lost` if it
must; a new pattern and a full rebuild kill the children. A
partial rebuild moves lines, and there it fails.

`ArchiveCacheProofs` proves, for every set of processes, number of files,
number of openings and set of faults (`ArchiveAssumption`):

* `CacheTypes`: `Spec => []TypeOK`, with nobody beyond the files of the entry.
* `MarkerTheorem`: `Spec => []MarkerIsWhole`.
* `EntryTheorem`: `Spec => ActsAsEntry`, the refinement of `CacheEntry`.

That a marker stands for a complete directory is not inductive: it depends on
who is between the lock and the marker. The invariant is
`IInv == TypeOK /\ InRange /\ (~mixed => Undisturbed)`, where `Undisturbed` has
four parts: those past the lock are one process that holds the inode which the
name stands for (`LockExcludes`); while something is removed nobody opens and
there is no marker (`NoOverlap`); what an extraction is past is complete and
not yet marked (`Written`); and those who found or made the marker still have it
(`Marked`). The interesting step is the end of an overlap: `mixed` becomes false
only when nobody is at work and there is no marker (`FreshStart`), which gives
all four at once. For the refinement `LockExcludes` makes the builder unique, so
that the mapping's choice is that process (`EntryIs`); then each action is a
step of `CacheEntry` or leaves its variables alone (`StepMaps`).

`GrepCompleteProofs` extends `GrepProcProofs` and proves
`CompleteTheorem`: `Spec => []SearchComplete` if no unfinished last line grows
(`"grow_last" \notin Changes`, needed: see the known limits). That every match is
marked when nothing is searched says nothing about the way there, so the
invariant says where a match is while it is not marked. `CompleteInv`: every line
that matches is `Accounted` for, that is, bookmarked, or held by a child that has
printed it or will find it in its copy of the text, or asked for by number in a
queued request, or beyond every highest line the children can still report while
a request that continues from there (start -1) is queued. In addition no child
reports a line past the end of the text, and children have requests. The lemmas
follow the code: `queue_request()` covers a range with its chunks, round robin
hands each request to a child, a fork turns a request by number or by "continue"
into lines of the child's copy, and then there is one lemma per action. When the
counter is zero there is no child and no request, and only "bookmarked" is left.

`TailerProofs` proves, for every finite set of paths, every length of files, size
of offers and buffers, and any number of connections (`TailerAssumption`):

* `TypeCorrect`: `Spec => []TypeOK`, so that no offer, acknowledgement, block or
  copy reaches further than a file can.
* `PrefixTheorem`: `Spec => []PrefixMirrored`.
* `ToldTheorem`: `Spec => []ToldIsCopied` if paths are not added late to a host
  that can become unreachable (see the known limits).

`PrefixMirrored` speaks of empty pipes; the invariant must say what full ones will
do. `PathOK` says it of one path: each tail block in the pipe holds what the file
has there and begins where the copy is right up to, once the blocks before it
have been written (`Reached`); the tailer's offset is reached at the end of the
pipe; at most one offer or answer is under way, only in the state OFFERED, with no
tail block in the pipe; and an acknowledgement stands for a range in which the copy
is right. It is stated of plain sequences and values and not of the variables, so
that one lemma serves each way in which a pipe or a file changes: a packet taken
(`TakePacket`, `TakeOffer`, `WriteBlock`), an answer read (`HandlePacket`), the
packets of a poll added (`PathPolled`), a file grown (`GrowSource`). That a broken
connection keeps a prefix of the pipe harms nothing, since a new connection starts
with empty pipes and an unknown offset.

`ToldIsCopied` speaks of the end of a session and of the state at its beginning, so
its invariant follows a file in between. `DueInv`: every report of a path in the
pipe stands behind blocks that bring the copy to at least the blocks that were due,
and no tail block behind it cuts the copy below them (`Holds`); while the connection
stands the tailer is past them as well and offers nothing again (`Ahead`), so that
what is sent later is right too, and a broken connection, which keeps a prefix of the
pipe, keeps the reports with what they stand on. `HostInv`: the paths sent to a host
stay queued or desired until they are finished in this sense (`OldKept`), so that a
host which ends because nothing is desired has all of them. After the report the copy
has to stay as it is: `TalkInv` says that only paths which the looper has are talked
about, `AskedOnce` that the looper never has a reported path again. Then `ToldInv`:
the copy of a reported path agrees with the file in the blocks that were due, or the
host was given up for good.

`ServicesProofs` proves, for every set of hosts and web threads, number of
messages and depth of nested processing:

* `TypeCorrect`: `Spec => []TypeOK`.
* `MessagesDelivered`: `Spec => []Delivered`.
* `AnswersMeanRun`: `Spec => []AnswerMeansRun`.
* `ChildrenKnown`: `Spec => []NoOrphans`.
* `ChildrenStopped`: `Spec => []ChildrenEndFirst`.

A port is seen as one sequence of sequences, the batches being run and the queue
behind them (`held`), and every step of the code does one of five things to it: a
message is sent, the queue is taken, a message is begun, an inner batch ends, or
all is dropped when the service ends. `Delivered` then needs, for each port, that
what was sent is what ran and what is held, none of it twice, and that messages of
one sender lie in their order, except across the batches of nested processing.
`AnswerMeansRun` needs that the message of a thread which never came back early is
there once, and that such a thread has no answer at its port when it does not wait
(`OneAnswer`). The last two rest on `TreeInv`, which relates the states of
a service, the list of its supervisor and the loop over that list: a service is
told to stop and joined before its supervisor goes on.

`FilterStateProofs` proves, for any number of lines, patterns, filters and
operations:

* `TypeCorrect`: `Spec => []TypeOK`: whatever the writer and the user do, no
  filter counts a line the file has not, or remembers a longer message than it
  has decided, or is left collecting between scans.
* `MaskTheorem`: `Spec => []MaskExact`, if no unfinished continuation becomes a
  message of its own, and filters are switched only over whole messages of one
  line (`MarksKept`).
* `ShownTheorem`: `Spec => []ShownExact`, if messages have one line and filters
  are not switched while lines are unfinished (`RowsPicked`).
* `HiddenTheorem`: `Spec => []OutIsHidden`, under `MarksKept`.

The conditions are on `Env`. Without them the code does something else: see the
known limits. `FilterSwitch` runs under both, `FilterMessages` under `MarksKept`.

The heart of the component is a loop over the lines of the file, which the model
has as the recursive function in `NewLines`. The library's induction theorems take
an operator, which the installed provers cannot instantiate; `Induction` restates
induction of sets of numbers, and any formula defines such a set. With it
`NewLinesChain` shows that the recursion is well founded and that `NewLines` is
the end of a chain of states, one per line, which is the loop of the code
(`logline_new_lines()`). Two loop invariants are carried along it. `Counting`, that
nothing is collected which the file has not, needs nothing of the filter but its
type. `Collecting` says that the lines before the message being collected are
decided and those after its start are of one message, one of whose lines matches if
and only if `tfs_message_matched` is set. Between scans a filter is `Decided`: it
has counted all lines, the lines marked are those of the messages with a match, and
what it remembers of the last message is right, so that `revert_to_last()` restores
`Collecting` at the line that is read again. `Inv` adds that the file has changed
since the scan only at the end (`Grown`), that lines are such as the environment
writes (`Written`), and that unused filters are clear. For the rows, the step to
show is that a row which is not picked again keeps its marks (`MarksSame`).

`LogIndexProofs` proves, for any number of files, lines, times and operations and
any growth of the index array (`EnvAssumption`):

* `TypeCorrect`: `Spec => []TypeOK`.
* `ExactTheorem`: `Spec => []IndexExact`.
* `OrderTheorem`: `Spec => []IndexInOrder`.
* `FilteredTheorem`: `Spec => []FilteredExact`.
* `ToldTheorem`: `Spec => ViewIsTold`, if all formats are time-ordered
  (`TimeOrdered = Files`).

All are under `Benign`, a condition on `Env`: an unfinished line does not get its
timestamp when it is finished (`"late_ts"`), and shifted files are not truncated
(not both of `"adjust"` and `"truncate"`). Both are needed: the run
`LogLateTimestamp` shows the first, the known limits describe the second, and
they give the reason for time-ordered formats as well. `LogCollate` and
`LogPressure` run under `Benign`; `LogPressure`, which has `ViewIsTold`, also has
time-ordered formats only.

The argument has three layers. First, the recursive operators, each as the values
of a loop that `Induction` provides (`Iterates`): `LineTimes` (the times of the
first lines depend on those lines alone, and never fall in a time-ordered format),
`LowerBound` (where the comparison is monotone the bisection finds the boundary),
`Filtered` (the rows shown of two parts are those of the first and then of the
second) and `Collated` (every outcome is a sorted enumeration of the rows).

Second, one call of `rebuild_index()`. `RebuiltIs` says that from a state that is
`Ready` it empties the index and asks for a full rebuild (`Emptied`), leaves all
as it is (`Unmoved`), or completes the index (`Complete`: every scanned line of
every open file, once, in order, with the rows that are shown) and tells the view
a row before which nothing changed (`Announced`). The hard case is the partial
rebuild, in which three bisections must agree: the cut of the index, the cut of
the filtered index, and the line of each file from which the merge starts. They do
since the index is in order and no new line of a file is older than its first new
line (`Calm`, `PartialParts`, `FilteredCut`).

Third, the invariant `Inv`, which makes every pass `Ready`. A slot counts all
lines its logfile has scanned, or none of one line, which is the state of a file
that was promoted in a paused pass (`Caught`); a pending full rebuild finds an
empty index; a free slot counts nothing; what a logfile has read is the beginning
of what was written; and the claims about order and shown rows hold while no
shifted file waits to be sorted (`Quiet`). A shift leaves only the lines of the
index certain; the scan that consumes the flag reports `NEW_ORDER`, and all is
redone.

Only model-checked: liveness (`SearchEnds`, `AllIndexed`, `FollowConverges`,
`RescanEnds`, `OpenEnds`, and the four of `Services`), which the prover does
not reach.

## 5. What is not modelled

* `GrepProc`: the failure of `pipe()` and `fork()`, the second `grep_proc`
  over line metadata, the error pipe, match offsets within a line.
* `LogIndex`: format detection and the change of a format while a file is
  small, ignored lines, time cutoffs of a file, hiding of duplicate files,
  memory-level races of the scanning threads, the sequential path taken on a
  single core, the upper time bound (it is the mirror of the lower one),
  SQL filters and marks.
* `FilterState`: the SQL filter (`lf_index` 0), filters on several files at
  once (their state is per file), time order among files (`LogIndex`). The
  matching of an unfinished line is assumed monotone: completing it does not
  lose a match.
* `Tailer`: links, directories and globs (children of a path), previews, path
  completion, the transfer of the program by `for_host()`, the announcement of the
  tailer (it removes an error of its host, as an offer does), a file that cannot be
  opened or read, failing writes of the local copy, several hosts (they share
  nothing but the looper's thread). All paths of a session are followed or none,
  as `loo_follow` is set from the headless mode of the program (`lnav.cc:3979`).
* `ArchiveCache`: several archives (an entry each), the name of an entry (a hash
  of the file's name and its first 1024 bytes, so that two archives can share
  one), failures of `create_directories()`, of opening or locking the lock file
  and of creating the marker, whose results the code ignores or throws.
* `Services`: `stop_child()`, used once at exit; the descriptor that wakes the main
  loop's poll; what else a late `reply_port.send()` may overwrite.
* Parts without a module: see `PROJECT.json`. Formats, SQL tables and the user
  interface are parsing, presentation and terminal I/O; third-party code is
  left aside.

## 6. Plan

1. The line buffer's preload protocol (`line_buffer.cc`): a loader thread fills
   an alternate buffer while the main thread moves the range, and the file is
   truncated or grows meanwhile; and the piper's rotation.
2. Log watch expressions under the rollback of the last line: how often an
   event is published.
3. Pure algorithms of the forensics code (`log_gaps`, `session_trace`,
   `ssh_flow`, `ioc_matcher`) against reference definitions.
4. Composition of `GrepProc` with `LogIndex`: hits on the rows the index
   really produces; `text_mark()` on a late row.
5. An abstract index (the sorted, filtered lines of all files) which
   `LogIndex` implements between passes; likewise an abstract search for
   `GrepProc`.
