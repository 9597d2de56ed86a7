----------------------------- MODULE CacheEntry -----------------------------
(***************************************************************************)
(* What the cache of unpacked archives promises its users, for one         *)
(* archive: the entry is built by one client at a time, becomes visible    *)
(* only as a whole, and only a visible entry is handed out.  A client      *)
(* whose attempt fails takes its half-built entry with it.  ArchiveCache   *)
(* implements this with a lock file, a marker file and a directory.        *)
(***************************************************************************)
CONSTANTS
    Clients,  \* those who open the archive
    Gone,     \* no entry
    Ready     \* the complete entry can be handed out

VARIABLES
    entry,    \* Gone, Ready or the client that builds it
    client    \* "idle", "asking" or "served"

vars == <<entry, client>>

become(c, state) == client' = [client EXCEPT ![c] = state]

Ask(c) == client[c] # "asking" /\ become(c, "asking") /\ UNCHANGED entry

Build(c) ==
    /\ client[c] = "asking" /\ entry = Gone
    /\ entry' = c /\ UNCHANGED client

Publish(c) == entry = c /\ entry' = Ready /\ UNCHANGED client

Serve(c) ==
    /\ client[c] = "asking" /\ entry = Ready
    /\ become(c, "served") /\ UNCHANGED entry

\* The attempt breaks off while the client still waits: the entry is free.
Abandon(c) == entry = c /\ entry' = Gone /\ UNCHANGED client

\* The client fails, or dies and takes a half-built entry with it.
GiveUp(c) ==
    /\ client[c] = "asking" /\ become(c, "idle")
    /\ entry' = IF entry = c THEN Gone ELSE entry

Evict == entry = Ready /\ entry' = Gone /\ UNCHANGED client

Init == entry = Gone /\ client = [c \in Clients |-> "idle"]

Next ==
    \/ \E c \in Clients :
          Ask(c) \/ Build(c) \/ Publish(c) \/ Serve(c) \/ Abandon(c) \/ GiveUp(c)
    \/ Evict
=============================================================================
