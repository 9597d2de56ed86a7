------------------------------- MODULE Tailer -------------------------------
(***************************************************************************)
(* Remote files.  lnav starts a small program, the tailer, on a remote     *)
(* host through ssh and mirrors the files it is asked for into a local     *)
(* directory.  Four parties take part:                                     *)
(*   - the main thread asks for paths and waits in rescan_files() until    *)
(*     every one of them is reported as synced or as failed;               *)
(*   - tailer::looper, a service, keeps the paths of each host, connects   *)
(*     to a host and connects again when the connection is lost;           *)
(*   - tailer::looper::host_tailer, a service per connected host, answers  *)
(*     the offers of the tailer and writes the local copies;               *)
(*   - the tailer itself polls the files, offers the hash of a block to    *)
(*     learn whether an old local copy can be kept, and sends the rest.    *)
(* One host and regular files are modelled.  A file is the sequence of its *)
(* blocks; the hash of a range is the range itself.                        *)
(***************************************************************************)
EXTENDS Integers, Sequences, FiniteSets, SequencesExt

CONSTANTS
    Paths,      \* the remote paths
    Modes,      \* values of loo_follow: TRUE in the user interface
    Fragile,    \* those that may be replaced or deleted
    Blocks,     \* what a block of a file can hold
    Hole,       \* a block that ftruncate() made and nobody wrote
    NoFile,     \* no such file
    NoPath,     \* a path the tailer does not monitor
    FIRST,      \* blocks in the first offer (32 KiB in the code)
    BUFFER,     \* blocks in the tailer's buffer (4 MiB in the code)
    MaxLen,     \* bound on the length of a remote file
    MaxOps,     \* bound on the changes made to the remote files
    MaxConns,   \* bound on the connection attempts
    Env         \* what the environment does, see EnvKinds

EnvKinds == {"append", "disconnect", "unreachable", "cached", "late_add"}

\* client_path_state: offset is -1 before anything is known to be copied.
CpsType == [state : {"INIT", "OFFERED", "TAILING", "SYNCED"},
            offset : -1..MaxLen, size : 0..MaxLen, last : 0..MaxLen,
            err : BOOLEAN]

ASSUME TailerAssumption ==
    /\ IsFiniteSet(Paths) /\ Fragile \subseteq Paths /\ Modes \subseteq BOOLEAN
    /\ Hole \notin Blocks /\ NoFile \notin Seq(Blocks \union {Hole})
    /\ NoPath \notin CpsType
    /\ {FIRST, BUFFER} \subseteq Nat \ {0}
    /\ {MaxLen, MaxOps, MaxConns} \subseteq Nat
    /\ Env \subseteq EnvKinds

VARIABLES
    remote,     \* the files of the host
    local,      \* their copies below ht_local_path
    up,         \* the tailer runs and its ssh connection is alive
    cps,        \* client_path_state of each path, NoPath until it is opened
    toTailer,   \* packets on the way to the tailer
    toHost,     \* packets on the way to the host_tailer
    ht,         \* "none" (not in l_remotes) or ht_state
    htOpen,     \* paths in messages queued for the host_tailer
    desired,    \* conn.c_desired_paths
    syncedSet,  \* conn.c_synced_desired_paths
    initDone,   \* conn.c_initial_sync_done
    newPaths,   \* rpq_new_paths of the host
    oldPaths,   \* rpq_existing_paths of the host
    due,        \* history: blocks each file had when its host was connected
    asked,      \* the main thread's remote files (fc_other_files)
    late,       \* those it asked for while the host was connected
    told,       \* fc_synced_files
    stubs,      \* paths with an error in fc_name_to_stubs
    hostStub,   \* an error for the host itself in fc_name_to_stubs
    follow,     \* loo_follow of every path of the session
    ops, conns  \* counters of the bounded actions

files    == <<remote, local>>
tailerV  == <<up, cps>>
pipes    == <<toTailer, toHost>>
hostV    == <<ht, htOpen, desired, syncedSet, initDone>>
looperV  == <<newPaths, oldPaths, due>>
mainV    == <<asked, late, told, stubs, hostStub, follow>>
counters == <<ops, conns>>
vars == <<files, tailerV, pipes, hostV, looperV, mainV, counters>>

Contents(n) == UNION {[1..k -> Blocks] : k \in 0..n}
-----------------------------------------------------------------------------
(* The tailer: create_client_path_state(), poll_paths(), main().            *)

create_client_path_state ==
    [state |-> "INIT", offset |-> -1, size |-> 0, last |-> 0, err |-> FALSE]

\* Copies s cut or extended to n blocks, as ftruncate() does.
Truncated(s, n) == [i \in 1..n |-> IF i <= Len(s) THEN s[i] ELSE Hole]

error(p)  == [type |-> "ERROR", path |-> p]
synced(p) == [type |-> "SYNCED", path |-> p]

\* set_client_path_state_error(): tell the client once and start again.
path_error(c, p) ==
    [cps |-> [c EXCEPT !.err = TRUE, !.offset = -1, !.state = "INIT"],
     out |-> IF c.err THEN <<>> ELSE <<error(p)>>]

\* The length of an offer: the first block, or all that the client has.
offer_length(c, at, avail) ==
    LET want == IF c.size = 0 THEN FIRST
                ELSE IF at < c.size THEN c.size - at
                ELSE BUFFER
    IN  IF want < avail THEN want ELSE avail

\* A file with data past the client's offset: an offer while the client's
\* copy is being compared, a tail block afterwards.
send_block(c, p) ==
    LET at    == IF c.offset < 0 THEN 0 ELSE c.offset
        avail == Len(remote[p]) - at
        n     == IF c.state = "INIT" THEN offer_length(c, at, avail)
                 ELSE IF BUFFER < avail THEN BUFFER ELSE avail
        block == [type |-> IF c.state = "INIT" THEN "OFFER" ELSE "TAIL",
                  path |-> p, offset |-> at,
                  bits |-> SubSeq(remote[p], at + 1, at + n)]
    IN  [cps |-> IF c.state = "INIT" THEN [c EXCEPT !.state = "OFFERED"]
                 ELSE [c EXCEPT !.state = "TAILING", !.offset = at + n],
         out |-> <<block>>]

\* mutant: a file is reported as synced after its first tail block.
report_first_block(c, p) ==
    IF c.state = "OFFERED" THEN [cps |-> c, out |-> <<>>]
    ELSE IF c.offset < Len(remote[p]) /\ ~(c.state = "TAILING" /\ c.offset > 0)
    THEN send_block(c, p)
    ELSE IF c.state # "SYNCED" THEN
        [cps |-> [c EXCEPT !.state = "SYNCED"], out |-> <<synced(p)>>]
    ELSE [cps |-> c, out |-> <<>>]

\* A regular file in poll_paths(): a block, or the news that all was sent.
poll_regular(c, p) ==
    IF c.state = "OFFERED" THEN [cps |-> c, out |-> <<>>]
    ELSE IF c.offset < Len(remote[p]) THEN send_block(c, p)
    ELSE IF c.state # "SYNCED" THEN
        [cps |-> [c EXCEPT !.state = "SYNCED"], out |-> <<synced(p)>>]
    ELSE [cps |-> c, out |-> <<>>]

\* One path in poll_paths().  A file that shrank was replaced; a new file on
\* the same device that is not shorter goes unnoticed, as the code compares
\* device "and" inode.  The state is PS_OK again after the switch.
poll_file(c, p) ==
    IF remote[p] = NoFile THEN
        LET r == path_error(c, p) IN [r EXCEPT !.cps.last = 0]
    ELSE IF c.offset >= 0 /\ Len(remote[p]) < c.last THEN
        LET r == path_error(c, p)
        IN  [cps |-> [r.cps EXCEPT !.last = Len(remote[p])],
             out |-> <<error(p)>> \o r.out]
    ELSE [poll_regular(c, p) EXCEPT !.cps.err = FALSE,
                                    !.cps.last = Len(remote[p])]

\* poll_paths(): every open path in turn.  The order of the paths is left open; the
\* packets of one path stay together.
poll_paths(table) ==
    LET open == {p \in Paths : table[p] # NoPath}
        r    == [p \in open |-> poll_file(table[p], p)]
        new  == {m \in open \X (1..2) : m[2] <= Len(r[m[1]].out)}
    IN  /\ cps' = [p \in Paths |-> IF p \in open THEN r[p].cps ELSE NoPath]
        /\ \E f \in Bijection(1..Cardinality(new), new) :
              /\ \A i, j \in DOMAIN f : i < j /\ f[i][1] = f[j][1] =>
                    /\ f[i][2] < f[j][2]
                    /\ \A k \in i..j : f[k][1] = f[i][1]
              /\ toHost' = toHost \o [i \in DOMAIN f |-> r[f[i][1]].out[f[i][2]]]

\* mutant: an acknowledgement counts for all that the client has.
ack_everything(m) ==
    [cps EXCEPT ![m.path] =
        CASE m.type = "OPEN" -> create_client_path_state
          [] m.type = "NEED" -> [@ EXCEPT !.state = "TAILING"]
          [] m.type = "ACK" -> [@ EXCEPT !.offset = m.size, !.state = "INIT"]]

\* mutant: the offset is that of the next block but one.
ack_too_far(m) ==
    [cps EXCEPT ![m.path] =
        CASE m.type = "OPEN" -> create_client_path_state
          [] m.type = "NEED" -> [@ EXCEPT !.state = "TAILING"]
          [] m.type = "ACK" -> [@ EXCEPT !.offset = m.offset + m.len + 1,
                                         !.state = "INIT"]]

\* A packet read by main().
handle_packet(m) ==
    LET c == cps[m.path] IN
    [cps EXCEPT ![m.path] =
        CASE m.type = "OPEN" /\ c = NoPath -> create_client_path_state
          [] m.type = "NEED" /\ c # NoPath -> [c EXCEPT !.state = "TAILING"]
          [] m.type = "ACK" /\ c # NoPath ->
                IF m.len = 0 THEN [c EXCEPT !.state = "TAILING"]
                ELSE [c EXCEPT !.offset = m.offset + m.len,
                               !.state = "INIT", !.size = m.size]
          [] OTHER -> c]

\* One round of main(): a packet that has arrived, then poll_paths().
TailerPacket ==
    /\ up /\ toTailer # <<>>
    /\ poll_paths(handle_packet(Head(toTailer)))
    /\ toTailer' = Tail(toTailer)
    /\ UNCHANGED <<files, up, hostV, looperV, mainV, counters>>

TailerPoll ==
    /\ up
    /\ poll_paths(cps)
    /\ UNCHANGED <<files, up, toTailer, hostV, looperV, mainV, counters>>
-----------------------------------------------------------------------------
(* host_tailer: one action per packet of loop_body(), and open_remote_path().*)

Next_is(type) == ht = "connected" /\ toHost # <<>> /\ Head(toHost).type = type

\* The state leaves "connected": its descriptors are closed, the tailer reads
\* the end of its input and exits.
disconnect(state) ==
    /\ ht' = state /\ up' = FALSE
    /\ cps' = [p \in Paths |-> NoPath]
    /\ toTailer' = <<>> /\ toHost' = <<>>

consume == toHost' = Tail(toHost) /\ UNCHANGED <<ht, up, cps, toTailer>>

open_remote_path ==
    /\ ht = "connected" /\ htOpen # {}
    /\ desired' = desired \union htOpen
    /\ \E f \in Bijection(1..Cardinality(htOpen), htOpen) :
          toTailer' = toTailer \o [i \in DOMAIN f |-> [type |-> "OPEN", path |-> f[i]]]
    /\ htOpen' = {}
    /\ UNCHANGED <<files, tailerV, toHost, ht, syncedSet, initDone, looperV,
                   mainV, counters>>

\* The end of the connection, with an error for the host if the tailer or its
\* ssh exited with one.
packet_eof ==
    /\ ht = "connected" /\ ~up /\ toHost = <<>>
    /\ disconnect("disconnected")
    /\ hostStub' \in {hostStub, TRUE}
    /\ UNCHANGED <<files, htOpen, desired, syncedSet, initDone, looperV, asked,
                   late, told, stubs, follow, counters>>

packet_error ==
    /\ Next_is("ERROR")
    /\ LET p == Head(toHost).path IN
       /\ stubs' = IF p \in desired THEN stubs \union {p} ELSE stubs
       /\ desired' = IF follow THEN desired ELSE desired \ {p}
       /\ local' = [local EXCEPT ![p] = NoFile]
    /\ IF desired' = {} THEN disconnect("synced") ELSE consume
    /\ UNCHANGED <<remote, htOpen, syncedSet, initDone, looperV, asked,
                   late, told, hostStub, follow, counters>>

\* The answer to an offer: is the local copy the same there?
answer(m) ==
    LET p == m.path
        end  == m.offset + Len(m.bits)
        same == /\ end <= Len(local[p])
                /\ SubSeq(local[p], m.offset + 1, end) = m.bits
    IN  IF \/ local[p] = NoFile
           \/ Len(local[p]) = m.offset
           \/ ~same
        THEN [type |-> "NEED", path |-> p]
        ELSE [type |-> "ACK", path |-> p, offset |-> m.offset,
              len |-> Len(m.bits), size |-> Len(local[p])]

\* An offer for a path that is no longer desired is not answered.
packet_offer_block ==
    /\ Next_is("OFFER")
    /\ LET m == Head(toHost) IN
       IF m.path \in desired
       THEN /\ toTailer' = IF up THEN Append(toTailer, answer(m)) ELSE <<>>
            /\ hostStub' = FALSE
       ELSE UNCHANGED <<toTailer, hostStub>>
    /\ toHost' = Tail(toHost)
    /\ UNCHANGED <<files, tailerV, hostV, looperV, asked, late, told, stubs,
                   follow, counters>>

packet_tail_block ==
    /\ Next_is("TAIL")
    /\ LET m   == Head(toHost)
           old == IF local[m.path] = NoFile THEN <<>> ELSE local[m.path]
       IN  local' = [local EXCEPT ![m.path] =
                        Truncated(old, m.offset) \o m.bits]
    /\ toHost' = Tail(toHost)
    /\ UNCHANGED <<remote, tailerV, toTailer, hostV, looperV, mainV, counters>>

packet_synced ==
    /\ Next_is("SYNCED")
    /\ LET p == Head(toHost).path
       IN  /\ desired' = IF follow THEN desired ELSE desired \ {p}
           /\ syncedSet' = IF follow /\ p \in desired
                           THEN syncedSet \union {p} ELSE syncedSet
    /\ IF desired' = {}
       THEN disconnect("synced") /\ UNCHANGED <<initDone, told>>
       ELSE /\ consume
            /\ IF ~initDone /\ Cardinality(desired') = Cardinality(syncedSet')
               THEN initDone' = TRUE /\ told' = told \union desired'
               ELSE UNCHANGED <<initDone, told>>
    /\ UNCHANGED <<files, htOpen, looperV, asked, late, stubs, hostStub, follow,
                   counters>>
-----------------------------------------------------------------------------
(* tailer::looper: add_remote(), child_finished(), loop_body().             *)

\* The main thread finds a remote path and sends it to the looper.
add_remote(p) ==
    /\ p \notin asked
    /\ conns = 0 \/ ("late_add" \in Env /\ (ht = "none" => conns < MaxConns))
    /\ asked' = asked \union {p}
    /\ late' = IF ht = "none" THEN late ELSE late \union {p}
    /\ newPaths' = newPaths \union {p}
    /\ UNCHANGED <<files, tailerV, pipes, hostV, oldPaths, due, told,
                   stubs, hostStub, follow, counters>>

\* mutant: only the paths that were not sent to the host are reported.
report_new_paths == told' = IF follow THEN told ELSE told \union newPaths

\* send_synced_to_main() reports every path that is not followed.
send_synced_to_main ==
    told' = IF follow THEN told ELSE told \union newPaths \union oldPaths

\* mutant: the paths of a host are forgotten when the connection is lost.
forget_paths ==
    /\ ht \in {"disconnected", "synced"}
    /\ send_synced_to_main /\ newPaths' = {} /\ oldPaths' = {}
    /\ ht' = "none" /\ htOpen' = {}
    /\ UNCHANGED <<files, tailerV, pipes, desired, syncedSet, initDone, due,
                   asked, late, stubs, hostStub, follow, counters>>

\* cleanup_children() joins a host_tailer that no longer loops.
child_finished ==
    /\ ht \in {"disconnected", "synced"}
    /\ IF ht = "synced"
       THEN send_synced_to_main /\ newPaths' = {} /\ oldPaths' = {}
       ELSE UNCHANGED <<told, newPaths, oldPaths>>
    /\ ht' = "none" /\ htOpen' = {}
    /\ UNCHANGED <<files, tailerV, pipes, desired, syncedSet, initDone, due,
                   asked, late, stubs, hostStub, follow, counters>>

\* loop_body() with no host_tailer for the host: connect, and send all paths.
loop_connect ==
    /\ ht = "none" /\ newPaths \union oldPaths # {}
    /\ conns < MaxConns
    /\ ht' = "connected" /\ up' = TRUE
    /\ cps' = [p \in Paths |-> NoPath]
    /\ toTailer' = <<>> /\ toHost' = <<>>
    /\ desired' = {} /\ syncedSet' = {} /\ initDone' = FALSE
    /\ htOpen' = newPaths \union oldPaths
    /\ oldPaths' = newPaths \union oldPaths /\ newPaths' = {}
    /\ due' = [p \in Paths |->
                  IF p \in newPaths \union oldPaths /\ remote[p] # NoFile
                  THEN Len(remote[p]) ELSE due[p]]
    /\ conns' = conns + 1
    /\ UNCHANGED <<files, mainV, ops>>

\* for_host() fails: give up when a new path is not followed, else try again
\* after HOST_RETRY_DELAY.
loop_refused ==
    /\ "unreachable" \in Env
    /\ ht = "none" /\ newPaths \union oldPaths # {}
    /\ conns + 1 < MaxConns
    /\ hostStub' = TRUE
    /\ IF ~follow /\ newPaths # {}
       THEN send_synced_to_main /\ newPaths' = {} /\ oldPaths' = {}
       ELSE UNCHANGED <<told, newPaths, oldPaths>>
    /\ conns' = conns + 1
    /\ UNCHANGED <<files, tailerV, pipes, hostV, due, asked, late, stubs, follow,
                   ops>>

\* loop_body() with a host_tailer: send it the new paths.
loop_send ==
    /\ ht # "none" /\ newPaths # {}
    /\ htOpen' = htOpen \union newPaths
    /\ oldPaths' = oldPaths \union newPaths /\ newPaths' = {}
    /\ UNCHANGED <<files, tailerV, pipes, ht, desired, syncedSet, initDone, due,
                   mainV, counters>>
-----------------------------------------------------------------------------
(* The environment.                                                         *)

change == ops < MaxOps /\ ops' = ops + 1

unchangedByFiles ==
    UNCHANGED <<local, tailerV, pipes, hostV, looperV, mainV, conns>>

AppendBlock(p) ==
    /\ "append" \in Env /\ change
    /\ remote[p] # NoFile /\ Len(remote[p]) < MaxLen
    /\ \E b \in Blocks : remote' = [remote EXCEPT ![p] = Append(@, b)]
    /\ unchangedByFiles

Replace(p) ==
    /\ p \in Fragile /\ change
    /\ \E s \in Contents(MaxLen) : remote' = [remote EXCEPT ![p] = s]
    /\ unchangedByFiles

Delete(p) ==
    /\ p \in Fragile /\ change
    /\ remote[p] # NoFile /\ remote' = [remote EXCEPT ![p] = NoFile]
    /\ unchangedByFiles

\* The connection breaks: what the pipe still holds is read before its end.
Disconnect ==
    /\ "disconnect" \in Env
    /\ up /\ conns < MaxConns
    /\ up' = FALSE /\ cps' = [p \in Paths |-> NoPath] /\ toTailer' = <<>>
    /\ \E n \in 0..Len(toHost) : toHost' = SubSeq(toHost, 1, n)
    /\ UNCHANGED <<files, hostV, looperV, mainV, counters>>
-----------------------------------------------------------------------------
Init ==
    /\ remote \in [Paths -> Contents(MaxLen)]
    /\ local \in [Paths -> Contents(MaxLen) \union {NoFile}]
    /\ "cached" \in Env \/ local = [p \in Paths |-> NoFile]
    /\ \A p \in Fragile : remote[p] = <<>> /\ local[p] = NoFile
    /\ up = FALSE /\ cps = [p \in Paths |-> NoPath]
    /\ toTailer = <<>> /\ toHost = <<>>
    /\ ht = "none" /\ htOpen = {} /\ desired = {} /\ syncedSet = {}
    /\ initDone = FALSE
    /\ newPaths = {} /\ oldPaths = {} /\ due = [p \in Paths |-> 0]
    /\ asked = {} /\ late = {} /\ told = {} /\ stubs = {} /\ hostStub = FALSE
    /\ ops = 0 /\ conns = 0
    /\ follow \in Modes

ReadPacket == \/ packet_eof \/ packet_error \/ packet_offer_block
              \/ packet_tail_block \/ packet_synced

Looper == child_finished \/ loop_connect \/ loop_send

Next ==
    \/ TailerPacket \/ TailerPoll
    \/ open_remote_path \/ packet_eof \/ packet_error
    \/ packet_offer_block \/ packet_tail_block \/ packet_synced
    \/ \E p \in Paths : add_remote(p)
    \/ child_finished \/ loop_connect \/ loop_refused \/ loop_send
    \/ \E p \in Paths : AppendBlock(p) \/ Replace(p) \/ Delete(p)
    \/ Disconnect

Spec == Init /\ [][Next]_vars

\* Every thread and process keeps running and a packet on its way to the
\* tailer arrives.  No path has to be asked for, no connection has to break
\* and no file has to change.
FairSpec ==
    /\ Spec
    /\ WF_vars(TailerPacket) /\ WF_vars(TailerPoll)
    /\ WF_vars(open_remote_path) /\ WF_vars(ReadPacket)
    /\ WF_vars(Looper)
-----------------------------------------------------------------------------
Copies == UNION {[1..k -> Blocks \union {Hole}] : k \in 0..MaxLen}

\* The packets to the tailer and those from it.
ToTailer ==
    [type : {"OPEN", "NEED"}, path : Paths] \union
    {m \in [type : {"ACK"}, path : Paths, offset : 0..MaxLen, len : 0..MaxLen,
            size : 0..MaxLen] : m.offset + m.len <= m.size}
ToHost ==
    [type : {"SYNCED", "ERROR"}, path : Paths] \union
    {m \in [type : {"OFFER", "TAIL"}, path : Paths, offset : 0..MaxLen,
            bits : Contents(MaxLen)] : m.offset + Len(m.bits) <= MaxLen}

\* Every variable holds a value of the kind its declaration says; no block and no
\* local copy reaches further than a remote file can.
TypeOK ==
    /\ remote \in [Paths -> Contents(MaxLen) \union {NoFile}]
    /\ local \in [Paths -> Copies \union {NoFile}]
    /\ up \in BOOLEAN
    /\ cps \in [Paths -> CpsType \union {NoPath}]
    /\ toTailer \in Seq(ToTailer) /\ toHost \in Seq(ToHost)
    /\ ht \in {"none", "connected", "disconnected", "synced"}
    /\ initDone \in BOOLEAN /\ hostStub \in BOOLEAN
    /\ {htOpen, desired, syncedSet, newPaths, oldPaths, asked, late, told,
        stubs}
          \subseteq SUBSET Paths
    /\ due \in [Paths -> 0..MaxLen]
    /\ follow \in Modes /\ ops \in 0..MaxOps /\ conns \in 0..MaxConns

Quiet == toTailer = <<>> /\ toHost = <<>>

\* What the tailer takes as copied is copied: while nothing is in flight the
\* local copy agrees with the remote file up to the client's offset.  Offers,
\* acknowledgements and tail blocks of poll_paths() and packet_offer_block
\* must add up to this also over an old copy and after a lost connection.
PrefixMirrored ==
    \A p \in Paths \ Fragile :
        up /\ Quiet /\ cps[p] # NoPath /\ cps[p].offset >= 0 =>
            /\ local[p] # NoFile
            /\ cps[p].offset <= Len(local[p]) /\ cps[p].offset <= Len(remote[p])
            /\ \A i \in 1..cps[p].offset : local[p][i] = remote[p][i]

\* "the remote files are mirrored locally": when nothing is in flight and a
\* poll of a path finds nothing to do, the local copy is the remote file.
Mirrored ==
    \A p \in Paths :
        /\ up /\ Quiet /\ cps[p] # NoPath /\ remote[p] # NoFile
        /\ cps[p].state = "SYNCED"
        /\ poll_file(cps[p], p) = [cps |-> cps[p], out |-> <<>>]
        => local[p] = remote[p]

\* The copy of p has all that the file had when its host was last connected.
CaughtUp(p) ==
    /\ local[p] # NoFile /\ due[p] <= Len(local[p])
    /\ \A i \in 1..due[p] : local[p][i] = remote[p][i]

\* A path that is not followed and that the main thread takes as synced was
\* copied: child_finished() reports every path of a host that is "synced", so
\* each of them must have left desired with all of its blocks written, over old
\* copies, lost connections and files that grow meanwhile; or the host is shown
\* with an error.
ToldIsCopied ==
    ~follow => \A p \in told \ (Fragile \union late) : CaughtUp(p) \/ hostStub

RescanDone(ps) == ps \subseteq told \/ stubs # {} \/ hostStub

\* rescan_files() is not left waiting: the paths asked for before the host
\* was connected are eventually reported as synced, or an error is reported.
RescanEnds == <>[]RescanDone(asked \ late)

Copied(p) == local[p] # NoFile /\ IsPrefix(remote[p], local[p])

\* Once the remote files stop changing, the followed ones are copied for good.
FollowConverges == <>[](follow => \A p \in asked \ Fragile : Copied(p))
=============================================================================
