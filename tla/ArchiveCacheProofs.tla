------------------------- MODULE ArchiveCacheProofs -------------------------
(***************************************************************************)
(* Proofs about ArchiveCache for any number of processes, files and        *)
(* openings and any set of faults: types, the meaning of the marker, and   *)
(* that the cache implements CacheEntry as long as no removal overlaps an  *)
(* opening.                                                                *)
(***************************************************************************)
EXTENDS ArchiveCache, TLAPS

\* The lock excludes: those past it hold the inode that <entry>.lck names.
LockExcludes ==
    /\ \A p, q \in Procs : pc[p] \in Locked /\ pc[q] \in Locked => p = q
    /\ \A p \in Procs : pc[p] \in Locked \union {"lock"} => lck # 0 /\ fd[p] = lck

\* Nobody opens while someone removes, and then there is no marker.
NoOverlap == Removing => done = "none" /\ \A p \in Procs : ~Opening(p)

\* What an extraction has written so far is complete and not yet marked.
Written ==
    \A p \in Procs :
        /\ pc[p] \in {"header", "data", "fail"} => done = "none"
        /\ pc[p] \in {"header", "data"} =>
              \A f \in Files : f < at[p] => dir[f] = "whole"
        /\ pc[p] = "data" => dir[at[p]] = p

\* Those who found or made the marker still have it.
Marked ==
    /\ done # "none" => Whole
    /\ \A p \in Procs : /\ pc[p] \in {"refresh", "unlock", "walk"} => done # "none"
                        /\ pc[p] \notin {"undo", "throw"}

Undisturbed == LockExcludes /\ NoOverlap /\ Written /\ Marked

InRange == \A p \in Procs : pc[p] = "data" => at[p] \in Files

IInv == TypeOK /\ InRange /\ (~mixed => Undisturbed)
-----------------------------------------------------------------------------
(* Types                                                                    *)

USE DEF Files

\* The initial state is typed and has nobody at work (archive_manager.cc
\* starts from whatever directory is there; an empty one here).
LEMMA TypeInit == Init => TypeOK /\ InRange
  <1> SUFFICES ASSUME Init PROVE TypeOK /\ InRange
    OBVIOUS
  <1> USE ArchiveAssumption DEF Init
  <1>1. at \in [Procs -> 1..(Entries + 1)] /\ clAt \in 1..(Entries + 1)
    OBVIOUS
  <1>2. pc \in [Procs -> Steps] /\ fd \in [Procs -> Nat]
    BY DEF Steps, Idle
  <1>3. dir \in [Files -> Procs \union {"absent", "whole"}]
    OBVIOUS
  <1>4. InRange
    BY DEF InRange
  <1>5. /\ lck \in Nat /\ inode \in Nat /\ lck <= inode /\ opens \in Nat
        /\ done = "none" /\ cl = "idle" /\ mixed = FALSE
    OBVIOUS
  <1> HIDE DEF Init
  <1> QED
    BY <1>1, <1>2, <1>3, <1>4, <1>5 DEF TypeOK

\* Every step of an opening or of cleanup_cache() keeps the types.
LEMMA TypeStep ==
  ASSUME TypeOK, InRange, [Next]_vars
  PROVE  TypeOK' /\ InRange'
  <1> USE ArchiveAssumption
      DEF TypeOK, InRange, go, disk, overlap, Steps, Idle, Locked
  <1>1. ASSUME NEW p \in Procs, Open(p) PROVE TypeOK' /\ InRange'
    BY <1>1 DEF Open
  <1>2. ASSUME NEW p \in Procs, Lock(p) PROVE TypeOK' /\ InRange'
    BY <1>2 DEF Lock
  <1>3. ASSUME NEW p \in Procs, Check(p) PROVE TypeOK' /\ InRange'
    BY <1>3 DEF Check
  <1>4. ASSUME NEW p \in Procs, Refresh(p) PROVE TypeOK' /\ InRange'
    BY <1>4 DEF Refresh
  <1>5. ASSUME NEW p \in Procs, Undo(p) PROVE TypeOK' /\ InRange'
    BY <1>5 DEF Undo
  <1>6. ASSUME NEW p \in Procs, WriteHeader(p) PROVE TypeOK' /\ InRange'
    BY <1>6 DEF WriteHeader
  <1>7. ASSUME NEW p \in Procs, FinishEntry(p) PROVE TypeOK' /\ InRange'
    BY <1>7 DEF FinishEntry
  <1>8. ASSUME NEW p \in Procs, Mark(p) PROVE TypeOK' /\ InRange'
    BY <1>8 DEF Mark
  <1>9. ASSUME NEW p \in Procs, Fail(p) PROVE TypeOK' /\ InRange'
    BY <1>9 DEF Fail
  <1>10. ASSUME NEW p \in Procs, Unlock(p) PROVE TypeOK' /\ InRange'
    <2> USE <1>10 DEF Unlock, closed
    <2>1. CASE pc[p] = "unlock"
      BY <2>1
    <2>2. CASE pc[p] = "fail"
      BY <2>2
    <2>3. CASE pc[p] = "throw"
      BY <2>3
    <2> QED
      BY <2>1, <2>2, <2>3
  <1>11. ASSUME NEW p \in Procs, Remove(p) PROVE TypeOK' /\ InRange'
    <2> USE <1>11 DEF Remove
    <2>1. CASE at[p] <= Entries
      <3>1. at' \in [Procs -> 1..(Entries + 1)] /\ InRange'
        BY <2>1
      <3>2. dir' \in [Files -> Procs \union {"absent", "whole"}]
        BY <2>1
      <3> QED
        BY <2>1, <3>1, <3>2
    <2>2. CASE at[p] > Entries
      BY <2>2
    <2> QED
      BY <2>1, <2>2
  <1>12. ASSUME NEW p \in Procs, Walk(p) PROVE TypeOK' /\ InRange'
    BY <1>12 DEF Walk
  <1>13. ASSUME NEW p \in Procs, Crash(p) PROVE TypeOK' /\ InRange'
    BY <1>13 DEF Crash, closed
  <1>14. CASE Expire
    BY <1>14 DEF Expire
  <1>15. CASE Scan
    BY <1>15 DEF Scan
  <1>16. CASE RemoveDone
    BY <1>16 DEF RemoveDone
  <1>17. CASE RemoveLock
    BY <1>17 DEF RemoveLock
  <1>18. CASE RemoveDir
    BY <1>18 DEF RemoveDir
  <1>19. CASE CleanupCrash
    BY <1>19 DEF CleanupCrash
  <1>20. CASE UNCHANGED vars
    BY <1>20 DEF vars
  <1> QED
    BY <1>1, <1>2, <1>3, <1>4, <1>5, <1>6, <1>7, <1>8, <1>9, <1>10,
       <1>11, <1>12, <1>13, <1>14, <1>15, <1>16, <1>17, <1>18, <1>19, <1>20
       DEF Next, Proceed, Clean

-----------------------------------------------------------------------------
(* The marker                                                               *)

\* In every step: the flag tells whether a removal and an opening overlap
\* (remove_all() and cleanup_cache() do not take the lock).
LEMMA OverlapSeen ==
  ASSUME Next, ~mixed'
  PROVE  overlap /\ (Removing' => \A p \in Procs : ~Opening(p)')
  <1>1. overlap
    BY DEF Next, Proceed, Clean, Open, Lock, Check, Refresh, Undo, WriteHeader,
       FinishEntry, Mark, Fail, Unlock, Remove, Walk, Crash, Expire, Scan,
       RemoveDone, RemoveLock, RemoveDir, CleanupCrash
  <1> QED
    BY <1>1 DEF overlap

\* Once nobody is at work and there is no marker, a fresh start is as good as
\* an empty cache, whatever is left in the directory.
LEMMA FreshStart ==
  ASSUME Next, mixed, ~mixed'
  PROVE  Undisturbed'
  <1>1. Quiet' /\ done' = "none"
    BY OverlapSeen DEF overlap
  <1> QED
    BY <1>1, OverlapSeen DEF Quiet, Undisturbed, LockExcludes, NoOverlap, Written, Marked,
       Removing, Idle, Locked

\* Without an overlap every step keeps what the extraction relies on.
LEMMA Step ==
  ASSUME IInv, ~mixed, Next, ~mixed'
  PROVE  Undisturbed'
  <1>0. TypeOK /\ InRange /\ Undisturbed /\ overlap
        /\ (Removing' => \A p \in Procs : ~Opening(p)')
    BY OverlapSeen DEF IInv
  <1> HIDE DEF Files
  <1> USE <1>0, ArchiveAssumption DEF disk, go
  <1>1. ASSUME NEW p \in Procs, Open(p) PROVE Undisturbed'
    <2> USE <1>1 DEF Open
    <2>1. LockExcludes'
      BY DEF TypeOK, Undisturbed, LockExcludes, Locked
    <2>2. NoOverlap'
      BY DEF Undisturbed, TypeOK, NoOverlap, Removing
    <2>3. Written'
      BY DEF TypeOK, Undisturbed, Written
    <2>4. Marked'
      BY DEF TypeOK, Undisturbed, Marked, Whole
    <2> QED
      BY <2>1, <2>2, <2>3, <2>4 DEF Undisturbed
  <1>2. ASSUME NEW p \in Procs, Lock(p) PROVE Undisturbed'
    <2> USE <1>2 DEF Lock
    <2>1. LockExcludes'
      BY DEF TypeOK, Undisturbed, LockExcludes
    <2>2. NoOverlap'
      BY DEF Undisturbed, TypeOK, NoOverlap, Removing
    <2>3. Written'
      BY DEF TypeOK, Undisturbed, Written
    <2>4. Marked'
      BY DEF TypeOK, Undisturbed, Marked, Whole
    <2> QED
      BY <2>1, <2>2, <2>3, <2>4 DEF Undisturbed
  <1>3. ASSUME NEW p \in Procs, Check(p) PROVE Undisturbed'
    <2> USE <1>3 DEF Check
    <2>1. LockExcludes'
      BY DEF TypeOK, Undisturbed, LockExcludes, Locked
    <2>2. NoOverlap'
      BY DEF Undisturbed, TypeOK, NoOverlap, Removing
    <2>3. Written'
      BY DEF TypeOK, Undisturbed, Written, Files
    <2>4. Marked'
      BY DEF TypeOK, Undisturbed, Marked, Whole, Empty, Files
    <2> QED
      BY <2>1, <2>2, <2>3, <2>4 DEF Undisturbed
  <1>4. ASSUME NEW p \in Procs, Refresh(p) PROVE Undisturbed'
    <2> USE <1>4 DEF Refresh
    <2>1. LockExcludes'
      BY DEF TypeOK, Undisturbed, LockExcludes, Locked
    <2>2. NoOverlap'
      BY DEF Undisturbed, TypeOK, NoOverlap, Removing
    <2>3. Written'
      BY DEF TypeOK, Undisturbed, Written
    <2>4. Marked'
      BY DEF TypeOK, Undisturbed, Marked, Whole
    <2> QED
      BY <2>1, <2>2, <2>3, <2>4 DEF Undisturbed
  <1>5. ASSUME NEW p \in Procs, Undo(p) PROVE Undisturbed'
    <2> USE <1>5 DEF Undo
    <2>1. LockExcludes'
      BY DEF TypeOK, Undisturbed, LockExcludes, Locked
    <2>2. NoOverlap'
      BY DEF TypeOK, NoOverlap, Removing
    <2>3. Written'
      BY DEF TypeOK, Undisturbed, Written, Marked
    <2>4. Marked'
      BY DEF TypeOK, Undisturbed, Marked, Whole
    <2> QED
      BY <2>1, <2>2, <2>3, <2>4 DEF Undisturbed
  <1>6. ASSUME NEW p \in Procs, WriteHeader(p) PROVE Undisturbed'
    <2> USE <1>6 DEF WriteHeader
    <2>1. LockExcludes'
      BY DEF TypeOK, Undisturbed, LockExcludes, Locked
    <2>2. NoOverlap'
      BY DEF Undisturbed, TypeOK, NoOverlap, Removing
    <2>3. Written'
      BY DEF TypeOK, Undisturbed, Written, LockExcludes, Locked, Files
    <2>4. Marked'
      BY DEF TypeOK, Undisturbed, Marked, Written, Whole, Files
    <2> QED
      BY <2>1, <2>2, <2>3, <2>4 DEF Undisturbed
  <1>7. ASSUME NEW p \in Procs, FinishEntry(p) PROVE Undisturbed'
    <2> USE <1>7 DEF FinishEntry
    <2>1. LockExcludes'
      BY DEF TypeOK, Undisturbed, LockExcludes, Locked
    <2>2. NoOverlap'
      BY DEF Undisturbed, TypeOK, NoOverlap, Removing
    <2>3. Written'
      BY DEF TypeOK, Undisturbed, Written, Files
    <2>4. Marked'
      BY DEF TypeOK, Undisturbed, Marked, Whole
    <2> QED
      BY <2>1, <2>2, <2>3, <2>4 DEF Undisturbed
  <1>8. ASSUME NEW p \in Procs, Mark(p) PROVE Undisturbed'
    <2> USE <1>8 DEF Mark
    <2>1. LockExcludes'
      BY DEF TypeOK, Undisturbed, LockExcludes, Locked
    <2>2. NoOverlap'
      BY DEF Undisturbed, TypeOK, NoOverlap, Removing, Opening, Locked
    <2>3. Written'
      BY DEF TypeOK, Undisturbed, Written, LockExcludes, Locked
    <2>4. Marked'
      BY DEF TypeOK, Undisturbed, Marked, Written, Whole, Files
    <2> QED
      BY <2>1, <2>2, <2>3, <2>4 DEF Undisturbed
  <1>9. ASSUME NEW p \in Procs, Fail(p) PROVE Undisturbed'
    <2> USE <1>9 DEF Fail
    <2>1. LockExcludes'
      BY DEF TypeOK, Undisturbed, LockExcludes, Locked
    <2>2. NoOverlap'
      BY DEF Undisturbed, TypeOK, NoOverlap, Removing
    <2>3. Written'
      BY DEF TypeOK, Undisturbed, Written
    <2>4. Marked'
      BY DEF TypeOK, Undisturbed, Marked, Whole
    <2> QED
      BY <2>1, <2>2, <2>3, <2>4 DEF Undisturbed
  <1>10. ASSUME NEW p \in Procs, Unlock(p) PROVE Undisturbed'
    <2> USE <1>10 DEF Unlock, closed
    <2>1. LockExcludes'
      BY DEF TypeOK, Undisturbed, LockExcludes, Locked
    <2>2. NoOverlap'
      BY DEF Undisturbed, TypeOK, NoOverlap, Removing, Written
    <2>3. Written'
      BY DEF TypeOK, Undisturbed, Written
    <2>4. Marked'
      BY DEF TypeOK, Undisturbed, Marked, Whole
    <2> QED
      BY <2>1, <2>2, <2>3, <2>4 DEF Undisturbed
  <1>11. ASSUME NEW p \in Procs, Remove(p) PROVE Undisturbed'
    <2> USE <1>11 DEF Remove
    <2>1. LockExcludes'
      BY DEF TypeOK, Undisturbed, LockExcludes, Locked
    <2>2. NoOverlap'
      BY DEF Undisturbed, TypeOK, NoOverlap, Removing
    <2>3. Written'
      BY DEF TypeOK, Undisturbed, Written, NoOverlap, Removing, Opening, Locked
    <2>4. Marked'
      BY DEF TypeOK, Undisturbed, Marked, Whole, NoOverlap, Removing, Opening, Locked
    <2> QED
      BY <2>1, <2>2, <2>3, <2>4 DEF Undisturbed
  <1>12. ASSUME NEW p \in Procs, Walk(p) PROVE Undisturbed'
    <2> USE <1>12 DEF Walk
    <2>1. LockExcludes'
      BY DEF TypeOK, Undisturbed, LockExcludes, Locked
    <2>2. NoOverlap'
      BY DEF Undisturbed, TypeOK, NoOverlap, Removing
    <2>3. Written'
      BY DEF TypeOK, Undisturbed, Written
    <2>4. Marked'
      BY DEF TypeOK, Undisturbed, Marked, Whole
    <2> QED
      BY <2>1, <2>2, <2>3, <2>4 DEF Undisturbed
  <1>13. ASSUME NEW p \in Procs, Crash(p) PROVE Undisturbed'
    <2> USE <1>13 DEF Crash, closed
    <2>1. LockExcludes'
      BY DEF TypeOK, Undisturbed, LockExcludes, Locked
    <2>2. NoOverlap'
      BY DEF Undisturbed, TypeOK, NoOverlap, Removing
    <2>3. Written'
      BY DEF TypeOK, Undisturbed, Written
    <2>4. Marked'
      BY DEF TypeOK, Undisturbed, Marked, Whole
    <2> QED
      BY <2>1, <2>2, <2>3, <2>4 DEF Undisturbed
  <1>14. CASE Expire
    <2> USE <1>14 DEF Expire
    <2>1. LockExcludes'
      BY DEF TypeOK, Undisturbed, LockExcludes
    <2>2. NoOverlap'
      BY DEF Undisturbed, TypeOK, NoOverlap, Removing
    <2>3. Written'
      BY DEF TypeOK, Undisturbed, Written
    <2>4. Marked'
      BY DEF TypeOK, Undisturbed, Marked, Whole
    <2> QED
      BY <2>1, <2>2, <2>3, <2>4 DEF Undisturbed
  <1>15. CASE Scan
    <2> USE <1>15 DEF Scan
    <2>1. LockExcludes'
      BY DEF TypeOK, Undisturbed, LockExcludes
    <2>2. NoOverlap'
      BY DEF Undisturbed, TypeOK, NoOverlap, Removing
    <2>3. Written'
      BY DEF TypeOK, Undisturbed, Written
    <2>4. Marked'
      BY DEF TypeOK, Undisturbed, Marked, Whole
    <2> QED
      BY <2>1, <2>2, <2>3, <2>4 DEF Undisturbed
  <1>16. CASE RemoveDone
    <2> USE <1>16 DEF RemoveDone
    <2>1. LockExcludes'
      BY DEF TypeOK, Undisturbed, LockExcludes
    <2>2. NoOverlap'
      BY DEF TypeOK, NoOverlap, Removing
    <2>3. Written'
      BY DEF TypeOK, Undisturbed, Written
    <2>4. Marked'
      BY DEF TypeOK, Undisturbed, Marked, Whole, NoOverlap, Removing, Opening, Locked
    <2> QED
      BY <2>1, <2>2, <2>3, <2>4 DEF Undisturbed
  <1>17. CASE RemoveLock
    <2> USE <1>17 DEF RemoveLock
    <2>1. LockExcludes'
      <3>1. \A p \in Procs : pc[p] \notin Locked \union {"lock"}
        BY DEF Undisturbed, NoOverlap, Removing, Opening
      <3> QED
        BY <3>1 DEF LockExcludes
    <2>2. NoOverlap'
      BY DEF Undisturbed, TypeOK, NoOverlap, Removing
    <2>3. Written'
      BY DEF TypeOK, Undisturbed, Written
    <2>4. Marked'
      BY DEF TypeOK, Undisturbed, Marked, Whole
    <2> QED
      BY <2>1, <2>2, <2>3, <2>4 DEF Undisturbed
  <1>18. CASE RemoveDir
    <2> USE <1>18 DEF RemoveDir
    <2>1. LockExcludes'
      BY DEF TypeOK, Undisturbed, LockExcludes
    <2>2. NoOverlap'
      BY DEF Undisturbed, TypeOK, NoOverlap, Removing
    <2>3. Written'
      BY DEF TypeOK, Undisturbed, Written, NoOverlap, Removing, Opening, Locked
    <2>4. Marked'
      BY DEF TypeOK, Undisturbed, Marked, Whole, NoOverlap, Removing, Opening, Locked
    <2> QED
      BY <2>1, <2>2, <2>3, <2>4 DEF Undisturbed
  <1>19. CASE CleanupCrash
    <2> USE <1>19 DEF CleanupCrash
    <2>1. LockExcludes'
      BY DEF TypeOK, Undisturbed, LockExcludes
    <2>2. NoOverlap'
      BY DEF Undisturbed, TypeOK, NoOverlap, Removing
    <2>3. Written'
      BY DEF TypeOK, Undisturbed, Written
    <2>4. Marked'
      BY DEF TypeOK, Undisturbed, Marked, Whole
    <2> QED
      BY <2>1, <2>2, <2>3, <2>4 DEF Undisturbed
  <1> QED
    BY <1>1, <1>2, <1>3, <1>4, <1>5, <1>6, <1>7, <1>8, <1>9, <1>10, <1>11,
       <1>12, <1>13, <1>14, <1>15, <1>16, <1>17, <1>18, <1>19
    DEF Next, Proceed, Clean

\* The inductive invariant holds in every state of the cache.
LEMMA Inductive == Spec => []IInv
  <1>1. Init => IInv
    <2> SUFFICES ASSUME Init PROVE IInv
      OBVIOUS
    <2>1. Undisturbed
      BY DEF Init, Undisturbed, LockExcludes, NoOverlap, Written, Marked,
         Removing, Locked
    <2> QED
      BY <2>1, TypeInit DEF IInv
  <1>2. IInv /\ [Next]_vars => IInv'
    <2> SUFFICES ASSUME IInv, [Next]_vars PROVE IInv'
      OBVIOUS
    <2>1. TypeOK' /\ InRange'
      BY TypeStep DEF IInv
    <2>2. ASSUME Next, ~mixed' PROVE Undisturbed'
      BY <2>2, FreshStart, Step
    <2>3. ASSUME UNCHANGED vars, ~mixed' PROVE Undisturbed'
      BY <2>3 DEF vars, disk, IInv, Undisturbed, LockExcludes, NoOverlap,
         Written, Marked, Removing, Opening, Whole
    <2> QED
      BY <2>1, <2>2, <2>3 DEF IInv
  <1> QED
    BY <1>1, <1>2, PTL DEF Spec

\* Types, and that neither extract() nor a removal moves past the last file.
THEOREM CacheTypes == Spec => []TypeOK
  BY Inductive, PTL DEF IInv

\* Whatever dies or fails, the .done marker stands for a complete directory and
\* walk_archive_files() walks a complete one, unless a removal, which does not
\* take the lock, overlapped an opening.
THEOREM MarkerTheorem == Spec => []MarkerIsWhole
  <1>1. IInv => MarkerIsWhole
    BY DEF IInv, MarkerIsWhole, Undisturbed, Marked
  <1> QED
    BY <1>1, Inductive, PTL
-----------------------------------------------------------------------------
(* The refinement                                                           *)

\* What the abstract entry is, by the marker and the extraction under way.
EntryMeans ==
    /\ done # "none" => entryState = Ready
    /\ done = "none" /\ builders = {} => entryState = Gone
    /\ \A p \in builders : done = "none" => entryState = p

\* While nothing overlaps there is at most one extraction: the lock excludes.
LEMMA EntryIs == LockExcludes => EntryMeans
  <1> SUFFICES ASSUME LockExcludes PROVE EntryMeans
    OBVIOUS
  <1>1. ASSUME NEW p \in builders, done = "none" PROVE entryState = p
    <2>1. \A q \in Procs : q \in builders => q = p
      BY <1>1 DEF builders, LockExcludes, Locked
    <2> QED
      BY <1>1, <2>1 DEF builders, entryState
  <1> QED
    BY <1>1 DEF EntryMeans, entryState

\* The abstract client of each process by the step it is at.
LEMMA ClientOf ==
  ASSUME NEW p \in Procs, NEW step, NEW s,
         pc' = [pc EXCEPT ![p] = step], TypeOK,
         s = IF step \in {"idle", "err"} THEN "idle"
             ELSE IF step = "ok" THEN "served" ELSE "asking"
  PROVE  clientState' = [clientState EXCEPT ![p] = s]
  BY DEF clientState, TypeOK

\* Every step of walk_archive_files() and of cleanup_cache() is a step of the
\* entry or changes nothing of it.
LEMMA StepMaps ==
  ASSUME IInv, IInv', Next, ~mixed, ~mixed'
  PROVE  Entry!Next \/ UNCHANGED <<entryState, clientState>>
  <1> DEFINE Mapped == Entry!Next \/ UNCHANGED <<entryState, clientState>>
             Same == builders' = builders /\ done' = done /\ clientState' = clientState
  <1>a. TypeOK /\ LockExcludes /\ NoOverlap /\ Written /\ Marked
    BY DEF IInv, Undisturbed
  <1>b. LockExcludes' /\ NoOverlap'
    BY DEF IInv, Undisturbed
  <1>c. EntryMeans
    BY <1>a, EntryIs
  <1>d. EntryMeans'
    BY <1>b, EntryIs, PTL
  <1>e. Same => Mapped
    BY DEF entryState
  <1> USE <1>a DEF go
  <1>1. ASSUME NEW p \in Procs, Open(p) PROVE Mapped
    <2>1. /\ clientState[p] # "asking" /\ builders' = builders /\ done' = done
          /\ clientState' = [clientState EXCEPT ![p] = "asking"]
      BY <1>1, ClientOf DEF Open, Idle, builders, clientState, TypeOK
    <2>2. entryState' = entryState
      BY <2>1 DEF entryState
    <2> QED
      BY <2>1, <2>2 DEF Entry!Next, Entry!Ask, Entry!become
  <1>2. ASSUME NEW p \in Procs, Check(p), done = "none" PROVE Mapped
    <2>1. /\ builders = {} /\ p \in builders' /\ done' = "none"
          /\ clientState' = clientState /\ clientState[p] = "asking"
      BY <1>2 DEF Check, LockExcludes, Locked, builders, clientState, TypeOK, disk
    <2> QED
      BY <1>2, <2>1, <1>c, <1>d DEF EntryMeans, Entry!Next, Entry!Build
  <1>3. ASSUME NEW p \in Procs, Check(p), done # "none" PROVE Mapped
    <2>1. Same
      BY <1>3 DEF Check, builders, clientState, TypeOK, disk
    <2> QED
      BY <2>1, <1>e
  <1>4. ASSUME NEW p \in Procs, Mark(p) PROVE Mapped
    <2>1. /\ p \in builders /\ done = "none" /\ done' # "none"
          /\ clientState' = clientState
      BY <1>4 DEF Mark, Written, builders, clientState, TypeOK
    <2> QED
      BY <2>1, <1>c, <1>d DEF EntryMeans, Entry!Next, Entry!Publish
  <1>5. ASSUME NEW p \in Procs, Walk(p) PROVE Mapped
    <2>1. /\ done # "none" /\ done' = done /\ clientState[p] = "asking"
          /\ clientState' = [clientState EXCEPT ![p] = "served"]
      BY <1>5, ClientOf DEF Walk, Marked, clientState, TypeOK, disk
    <2> QED
      BY <2>1, <1>c, <1>d DEF EntryMeans, Entry!Next, Entry!Serve, Entry!become
  <1>6. ASSUME NEW p \in Procs, Unlock(p), pc[p] = "fail" PROVE Mapped
    <2>1. /\ p \in builders /\ builders' = {} /\ done = "none" /\ done' = done
          /\ clientState' = clientState
      BY <1>6 DEF Unlock, closed, LockExcludes, Locked, Written, builders,
         clientState, TypeOK, disk
    <2> QED
      BY <2>1, <1>c, <1>d DEF EntryMeans, Entry!Next, Entry!Abandon, builders
  <1>7. ASSUME NEW p \in Procs, Crash(p) PROVE Mapped
    <2>1. /\ clientState[p] = "asking" /\ done' = done
          /\ builders' = builders \ {p}
          /\ clientState' = [clientState EXCEPT ![p] = "idle"]
      BY <1>7, ClientOf DEF Crash, closed, Idle, builders, clientState, TypeOK, disk
    <2>2. \A q \in builders : p \in builders => q = p
      BY DEF builders, LockExcludes, Locked
    <2>3. entryState' = IF entryState = p THEN Gone ELSE entryState
      BY <2>1, <2>2, <1>c, <1>d, ArchiveAssumption DEF EntryMeans, builders
    <2> QED
      BY <2>1, <2>3 DEF Entry!Next, Entry!GiveUp, Entry!become
  <1>8. ASSUME NEW p \in Procs, Remove(p), at[p] > Entries PROVE Mapped
    <2>0. \A q \in Procs : ~Opening(q)
      BY <1>8 DEF Remove, NoOverlap, Removing
    <2>1. /\ done' = done /\ builders = {} /\ builders' = {}
      BY <1>8, <2>0 DEF Remove, Opening, Locked, builders, TypeOK
    <2>3. /\ clientState[p] = "asking"
          /\ clientState' = [clientState EXCEPT ![p] = "idle"]
      <3>1. pc[p] = "remove" /\ pc' = [pc EXCEPT ![p] = "err"]
        BY <1>8, ArchiveAssumption DEF Remove, TypeOK
      <3>2. clientState[p] = "asking"
        BY <3>1 DEF clientState
      <3> QED
        BY <3>1, <3>2, ClientOf
    <2>2. entryState' = entryState /\ entryState # p
      BY <2>1, <1>c, <1>d, ArchiveAssumption DEF EntryMeans
    <2> QED
      BY <2>2, <2>3 DEF Entry!Next, Entry!GiveUp, Entry!become
  <1>9. CASE RemoveDone
    <2>1. builders' = {} /\ builders' = builders /\ done' = "none"
          /\ clientState' = clientState
      BY <1>9, <1>b DEF RemoveDone, NoOverlap, Removing, Opening, Locked, builders,
         clientState
    <2> QED
      BY <2>1, <1>c, <1>d DEF EntryMeans, Entry!Next, Entry!Evict
  <1>10. ASSUME NEW p \in Procs,
                \/ Lock(p) \/ Refresh(p) \/ WriteHeader(p) \/ FinishEntry(p) \/ Fail(p)
         PROVE Mapped
    <2>1. builders' = builders /\ clientState' = clientState
      BY <1>10 DEF Lock, Refresh, WriteHeader, FinishEntry, Fail, builders,
         clientState, TypeOK
    <2>2. done' = "none" <=> done = "none"
      BY <1>10 DEF Lock, Refresh, WriteHeader, FinishEntry, Fail, disk
    <2> QED
      BY <2>1, <2>2 DEF entryState
  <1>11. ASSUME NEW p \in Procs, Unlock(p), pc[p] # "fail" PROVE Mapped
    <2>1. Same
      BY <1>11 DEF Unlock, closed, Marked, builders, clientState, TypeOK, disk
    <2> QED
      BY <2>1, <1>e
  <1>12. ASSUME NEW p \in Procs, Remove(p), ~(at[p] > Entries) PROVE Mapped
    <2>1. Same
      BY <1>12 DEF Remove, builders, clientState
    <2> QED
      BY <2>1, <1>e
  <1>13. ASSUME NEW p \in Procs, Undo(p) PROVE Mapped
    BY <1>13 DEF Undo, Marked
  <1>14. CASE Expire
    <2>1. builders' = builders /\ clientState' = clientState
      BY <1>14 DEF Expire, builders, clientState
    <2> QED
      BY <1>14, <2>1 DEF entryState, Expire
  <1>15. CASE Scan \/ RemoveLock \/ RemoveDir \/ CleanupCrash
    <2>1. Same
      BY <1>15 DEF Scan, RemoveLock, RemoveDir, CleanupCrash, builders, clientState, disk
    <2> QED
      BY <2>1, <1>e
  <1> QED
    BY <1>1, <1>2, <1>3, <1>4, <1>5, <1>6, <1>7, <1>8, <1>9, <1>10, <1>11,
       <1>12, <1>13, <1>14, <1>15
    DEF Next, Proceed, Clean

\* The lock file, the marker and the directory implement one entry that is
\* built by one client and published at once, until a removal, which does not
\* take the lock, overlaps an opening.
THEOREM EntryTheorem == Spec => ActsAsEntry
  <1>1. Init => Entry!Init
    BY DEF Init, Entry!Init, entryState, clientState, builders
  <1>2. IInv /\ IInv' /\ [Next]_vars
          => [Entry!Next \/ mixed \/ mixed']_(Entry!vars)
    <2> SUFFICES ASSUME IInv, IInv', [Next]_vars
                 PROVE  [Entry!Next \/ mixed \/ mixed']_(Entry!vars)
      OBVIOUS
    <2>1. CASE Next
      BY <2>1, StepMaps DEF Entry!vars
    <2>2. CASE UNCHANGED vars
      BY <2>2 DEF vars, disk, Entry!vars, entryState, clientState, builders
    <2> QED
      BY <2>1, <2>2
  <1> QED
    BY <1>1, <1>2, Inductive, PTL DEF Spec, ActsAsEntry
=============================================================================
