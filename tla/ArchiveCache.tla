---------------------------- MODULE ArchiveCache ----------------------------
(***************************************************************************)
(* The cache of unpacked archives, seen for one archive.  Everyone who     *)
(* opens the archive runs walk_archive_files(): it takes a file lock on    *)
(* <entry>.lck, trusts <entry>.done when it is there, unpacks the archive  *)
(* otherwise, drops the lock and walks the directory.  An extraction that  *)
(* fails removes the directory after the lock is dropped, and              *)
(* cleanup_cache() removes entries that were not used for a while without  *)
(* taking the lock at all.  Processes may die at any step; the kernel then *)
(* drops their locks.                                                      *)
(***************************************************************************)
EXTENDS Integers

CONSTANTS
    Procs,      \* processes that open the archive
    Entries,    \* number of files in the archive
    MaxOpens,   \* bound on the number of openings
    Faults,     \* what can go wrong, see FaultKinds
    Gone, Ready \* states of the abstract entry

FaultKinds == {"crash", "error", "cleanup"}

ASSUME ArchiveAssumption ==
    /\ Entries \in Nat \ {0} /\ MaxOpens \in Nat
    /\ Faults \subseteq FaultKinds
    /\ {"absent", "whole"} \cap Procs = {}
    /\ {Gone, Ready} \cap Procs = {} /\ Gone # Ready

VARIABLES
    lck,     \* inode that <entry>.lck names, 0 when there is none
    inode,   \* the last inode that was given to a lock file
    done,    \* <entry>.done: "none", "fresh" or "expired" by its mtime
    dir,     \* each file: "absent", "whole" or the process that writes it
    pc,      \* step of each process in walk_archive_files()
    fd,      \* inode each process has open as <entry>.lck, 0 for none
    at,      \* file each process is at
    cl,      \* step of cleanup_cache()
    clAt,    \* file cleanup_cache() is at
    mixed,   \* a removal overlapped an opening and is not made good yet
    opens    \* openings so far

disk == <<lck, inode, done, dir>>
vars == <<disk, pc, fd, at, cl, clAt, mixed, opens>>

Files == 1..Entries

Idle    == {"idle", "ok", "err"}
Locked  == {"check", "refresh", "undo", "header", "data", "unlock", "fail",
            "throw"}
Steps   == Idle \union Locked \union {"lock", "walk", "remove"}

Opening(p) == pc[p] \in Locked \union {"lock", "walk"}
Removing   == cl \in {"lck", "dir"} \/ \E p \in Procs : pc[p] = "remove"
Quiet      == cl \in {"idle", "scanned"} /\ \A p \in Procs : pc[p] \in Idle

Whole == \A f \in Files : dir[f] = "whole"
Empty == \A f \in Files : dir[f] = "absent"

go(p, step) == pc' = [pc EXCEPT ![p] = step]

\* Part of every step: has a removal overlapped an opening since the entry
\* was last without a marker and without anyone at work?
overlap ==
    mixed' = \/ Removing' /\ \E p \in Procs : Opening(p)'
             \/ mixed /\ ~(Quiet' /\ done' = "none")
-----------------------------------------------------------------------------
(* walk_archive_files() and extract()                                       *)

\* file_lock(): open <entry>.lck, create it when it is missing.
Open(p) ==
    /\ pc[p] \in Idle /\ opens < MaxOpens /\ opens' = opens + 1
    /\ inode' = IF lck # 0 THEN inode ELSE inode + 1
    /\ lck' = IF lck # 0 THEN lck ELSE inode'
    /\ fd' = [fd EXCEPT ![p] = lck']
    /\ go(p, "lock")
    /\ UNCHANGED <<done, dir, at, cl, clAt>> /\ overlap

\* mutant: the failure of lockf() is taken for success
lockf_ignored(p) ==
    /\ pc[p] = "lock" /\ go(p, "check")
    /\ UNCHANGED <<disk, fd, at, cl, clAt, opens>> /\ overlap

\* file_lock::guard: lockf(F_LOCK) waits until nobody holds the inode, that is
\* until everyone who has it open waits for it too.
Lock(p) ==
    /\ pc[p] = "lock"
    /\ \A q \in Procs : pc[q] # "lock" => fd[q] # fd[p]
    /\ go(p, "check")
    /\ UNCHANGED <<disk, fd, at, cl, clAt, opens>> /\ overlap

\* mutant: a directory with files in it is taken for a complete one
directory_is_enough(p) ==
    /\ pc[p] = "check"
    /\ go(p, IF Empty THEN "header" ELSE "unlock")
    /\ at' = [at EXCEPT ![p] = 1]
    /\ UNCHANGED <<disk, fd, cl, clAt, opens>> /\ overlap

\* fs::exists(done_path), and how many files the directory has.
Check(p) ==
    /\ pc[p] = "check"
    /\ go(p, IF done = "none" THEN "header"
             ELSE IF Empty THEN "undo" ELSE "refresh")
    /\ at' = [at EXCEPT ![p] = 1]
    /\ UNCHANGED <<disk, fd, cl, clAt, opens>> /\ overlap

\* "archive has already been extracted!": the marker gets the current time;
\* fs::last_write_time() throws when it has gone in the meantime.
Refresh(p) ==
    /\ pc[p] = "refresh"
    /\ \/ done = "none" /\ go(p, "throw") /\ UNCHANGED done
       \/ done # "none" /\ go(p, "unlock") /\ done' = "fresh"
    /\ UNCHANGED <<lck, inode, dir, fd, at, cl, clAt, opens>> /\ overlap

\* "archive cache has been damaged, re-extracting"
Undo(p) ==
    /\ pc[p] = "undo"
    /\ done' = "none" /\ go(p, "header")
    /\ UNCHANGED <<lck, inode, dir, fd, at, cl, clAt, opens>> /\ overlap

\* mutant: ARCHIVE_EOF is not recognised and the last entry is written again
end_not_seen(p) ==
    /\ pc[p] = "header"
    /\ dir' = [dir EXCEPT ![IF at[p] <= Entries THEN at[p] ELSE Entries] = p]
    /\ go(p, "data")
    /\ UNCHANGED <<lck, inode, done, fd, at, cl, clAt, opens>> /\ overlap

\* archive_write_header() replaces a file that exists.
WriteHeader(p) ==
    /\ pc[p] = "header" /\ at[p] <= Entries
    /\ dir' = [dir EXCEPT ![at[p]] = p]
    /\ go(p, "data")
    /\ UNCHANGED <<lck, inode, done, fd, at, cl, clAt, opens>> /\ overlap

\* copy_data(), archive_write_finish_entry(): the data goes to the file this
\* process created, whether or not the directory still has it.
FinishEntry(p) ==
    /\ pc[p] = "data"
    /\ dir' = [dir EXCEPT ![at[p]] = IF @ = p THEN "whole" ELSE @]
    /\ at' = [at EXCEPT ![p] = @ + 1]
    /\ go(p, "header")
    /\ UNCHANGED <<lck, inode, done, fd, cl, clAt, opens>> /\ overlap

\* All entries are there: create <entry>.done.
Mark(p) ==
    /\ pc[p] = "header" /\ at[p] > Entries
    /\ done' = "fresh" /\ go(p, "unlock")
    /\ UNCHANGED <<lck, inode, dir, fd, at, cl, clAt, opens>> /\ overlap

\* An Err of extract(): the archive cannot be read, or the disk is full.
Fail(p) ==
    /\ "error" \in Faults
    /\ pc[p] \in {"header", "data"}
    /\ go(p, "fail")
    /\ UNCHANGED <<disk, fd, at, cl, clAt, opens>> /\ overlap

closed(p) == fd' = [fd EXCEPT ![p] = 0]

\* mutant: the error paths of extract() leave the lock file open and locked
keeps_lock(p) ==
    /\ \/ pc[p] = "unlock" /\ go(p, "walk") /\ closed(p)
       \/ pc[p] = "fail" /\ go(p, "remove") /\ UNCHANGED fd
       \/ pc[p] = "throw" /\ go(p, "err") /\ UNCHANGED fd
    /\ at' = [at EXCEPT ![p] = 1]
    /\ UNCHANGED <<disk, cl, clAt, opens>> /\ overlap

\* The guard and the lock file are destroyed when extract() returns or throws.
Unlock(p) ==
    /\ \/ pc[p] = "unlock" /\ go(p, "walk")
       \/ pc[p] = "fail" /\ go(p, "remove")
       \/ pc[p] = "throw" /\ go(p, "err")
    /\ closed(p) /\ at' = [at EXCEPT ![p] = 1]
    /\ UNCHANGED <<disk, cl, clAt, opens>> /\ overlap

\* fs::remove_all(tmp_path) after an error, one file at a time.
Remove(p) ==
    /\ pc[p] = "remove"
    /\ \/ /\ at[p] <= Entries
          /\ dir' = [dir EXCEPT ![at[p]] = "absent"]
          /\ at' = [at EXCEPT ![p] = @ + 1]
          /\ UNCHANGED pc
       \/ at[p] > Entries /\ go(p, "err") /\ UNCHANGED <<dir, at>>
    /\ UNCHANGED <<lck, inode, done, fd, cl, clAt, opens>> /\ overlap

\* The directory is walked and its files are handed to the caller.
Walk(p) ==
    /\ pc[p] = "walk" /\ go(p, "ok")
    /\ UNCHANGED <<disk, fd, at, cl, clAt, opens>> /\ overlap

\* The process dies and the kernel closes its lock file.
Crash(p) ==
    /\ "crash" \in Faults
    /\ pc[p] \notin Idle
    /\ closed(p) /\ go(p, "idle")
    /\ UNCHANGED <<disk, at, cl, clAt, opens>> /\ overlap
-----------------------------------------------------------------------------
(* cleanup_cache()                                                          *)

\* Time passes: the entry was not used for amc_cache_ttl.
Expire ==
    /\ done = "fresh" /\ done' = "expired"
    /\ UNCHANGED <<lck, inode, dir, pc, fd, at, cl, clAt, opens>> /\ overlap

\* The first loop: the marker of the entry is older than the limit.
Scan ==
    /\ "cleanup" \in Faults
    /\ cl = "idle" /\ done = "expired" /\ cl' = "scanned"
    /\ UNCHANGED <<disk, pc, fd, at, clAt, opens>> /\ overlap

\* The second loop: remove the marker, the lock file, then the directory.
RemoveDone ==
    /\ cl = "scanned" /\ done' = "none" /\ cl' = "lck"
    /\ UNCHANGED <<lck, inode, dir, pc, fd, at, clAt, opens>> /\ overlap

RemoveLock ==
    /\ cl = "lck" /\ lck' = 0 /\ cl' = "dir" /\ clAt' = 1
    /\ UNCHANGED <<inode, done, dir, pc, fd, at, opens>> /\ overlap

RemoveDir ==
    /\ cl = "dir"
    /\ \/ /\ clAt <= Entries
          /\ dir' = [dir EXCEPT ![clAt] = "absent"] /\ clAt' = clAt + 1
          /\ UNCHANGED cl
       \/ clAt > Entries /\ cl' = "idle" /\ UNCHANGED <<dir, clAt>>
    /\ UNCHANGED <<lck, inode, done, pc, fd, at, opens>> /\ overlap

\* The process that cleans up dies.
CleanupCrash ==
    /\ "crash" \in Faults
    /\ cl # "idle" /\ cl' = "idle"
    /\ UNCHANGED <<disk, pc, fd, at, clAt, opens>> /\ overlap
-----------------------------------------------------------------------------
Init ==
    /\ lck = 0 /\ inode = 0
    /\ done = "none" /\ dir = [f \in Files |-> "absent"]
    /\ pc = [p \in Procs |-> "idle"]
    /\ fd = [p \in Procs |-> 0] /\ at = [p \in Procs |-> 1]
    /\ cl = "idle" /\ clAt = 1
    /\ mixed = FALSE /\ opens = 0

\* What a process does without a fault once it has begun.
Proceed(p) ==
    \/ Lock(p) \/ Check(p) \/ Refresh(p) \/ Undo(p) \/ WriteHeader(p)
    \/ FinishEntry(p) \/ Mark(p) \/ Unlock(p) \/ Remove(p) \/ Walk(p)

Clean == Scan \/ RemoveDone \/ RemoveLock \/ RemoveDir

Next ==
    \/ \E p \in Procs : Open(p) \/ Proceed(p) \/ Fail(p) \/ Crash(p)
    \/ Expire \/ Clean \/ CleanupCrash

Spec == Init /\ [][Next]_vars

\* A running process is scheduled; faults, openings and time are not owed.
FairSpec == Spec /\ \A p \in Procs : WF_vars(Proceed(p))
-----------------------------------------------------------------------------
(* Properties                                                               *)

\* Types, and that nobody is beyond the end of the directory: archive_manager.cc
\* moves over the files of an entry in extract(), remove_all() and cleanup_cache().
TypeOK ==
    /\ lck \in Nat /\ inode \in Nat /\ lck <= inode
    /\ done \in {"none", "fresh", "expired"}
    /\ dir \in [Files -> Procs \union {"absent", "whole"}]
    /\ pc \in [Procs -> Steps] /\ fd \in [Procs -> Nat]
    /\ at \in [Procs -> 1..(Entries + 1)]
    /\ cl \in {"idle", "scanned", "lck", "dir"} /\ clAt \in 1..(Entries + 1)
    /\ mixed \in BOOLEAN /\ opens \in Nat

\* Whatever processes died or failed before, a marker stands for a complete
\* directory and whoever got past the lock walks a complete one, unless a
\* removal that does not take the lock (remove_all() after an error,
\* cleanup_cache()) overlapped an opening: extract() writes .done last and a
\* directory without it is never trusted.
MarkerIsWhole ==
    ~mixed => /\ done # "none" => Whole
              /\ \A p \in Procs : pc[p] = "walk" => Whole

builders == {p \in Procs : pc[p] \in {"header", "data", "fail"}}

entryState ==
    IF done # "none" THEN Ready
    ELSE IF builders # {} THEN CHOOSE p \in Procs : p \in builders ELSE Gone

clientState ==
    [p \in Procs |-> IF pc[p] \in {"idle", "err"} THEN "idle"
                     ELSE IF pc[p] = "ok" THEN "served" ELSE "asking"]

Entry == INSTANCE CacheEntry WITH
    Clients <- Procs, entry <- entryState, client <- clientState

\* The same as a refinement: the marker, the lock and the directory together
\* behave as one entry that is built by one client and published at once, until
\* a removal overlaps an opening.
ActsAsEntry == Entry!Init /\ [][Entry!Next \/ mixed \/ mixed']_(Entry!vars)

\* Everyone who opens the archive gets an answer: the lock is dropped on every
\* path of extract() and by the kernel when its holder dies.
OpenEnds == \A p \in Procs : pc[p] \notin Idle ~> pc[p] \in Idle
=============================================================================
