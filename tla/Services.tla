------------------------------ MODULE Services ------------------------------
(***************************************************************************)
(* The threads of the program and the messages between them (base/isc).    *)
(* A service is a thread with a message port: it takes everything that is  *)
(* queued, runs the callbacks one by one without the lock, looks after the *)
(* services it started, does its own work and begins again.  The main      *)
(* thread has a port too and owns the first supervisor; its callbacks may  *)
(* process the port again (a command that rescans files).  send_and_wait() *)
(* blocks the caller on a reply port of its own, which lives on its stack  *)
(* and is gone when the wait comes back, with the answer or without.       *)
(***************************************************************************)
EXTENDS Integers, FiniteSetsExt, SequencesExt

CONSTANTS
    Main,      \* the main thread
    Looper,    \* tailer::looper, a service of the main thread's supervisor
    Hosts,     \* host_tailers, the services Looper starts
    Web,       \* the threads of the web server
    NoOne,     \* no thread
    MaxSends,  \* bound on the messages and the waits that end early, together
    Depth,     \* bound on nested processing of the main port
    Env        \* what the environment does, see EnvKinds

EnvKinds == {"throw", "finish", "quit"}
Workers  == Hosts \union {Looper}
Services == Workers \union {Main}
Threads  == Services \union Web

ASSUME ServicesAssumption ==
    /\ Main \notin Workers /\ Looper \notin Hosts
    /\ Web \cap Services = {} /\ NoOne \notin Threads
    /\ MaxSends \in Nat /\ Depth \in Nat \ {0} /\ Env \subseteq EnvKinds

\* The owner of the supervisor a worker belongs to.
Parent == [c \in Workers |-> IF c = Looper THEN Main ELSE Looper]

\* Who sends to whom, and who uses send_and_wait() with whom.
Routes == {<<Main, Looper>>} \union ({Looper} \X Hosts) \union (Workers \X {Main})
Asks   == {<<Main, Looper>>} \union (Web \X {Main})

VARIABLES
    looping,  \* s_looping
    queue,    \* mp_messages of each port
    batches,  \* tmp_msgs of each process_for() that is running, innermost last
    pc,       \* where each service is in run()
    kids,     \* s_service_list of each supervisor
    todo,     \* children a loop of the supervisor has still to visit
    joining,  \* the child a service is waiting for in join()
    waiting,  \* the service each thread waits for in send_and_wait()
    asked,    \* the message each thread waits for, which has its reply port
    replied,  \* the reply port of each waiting thread has its message
    gaveUp,   \* history: threads with a wait that came back without its answer
    sent,     \* messages sent to each service so far
    ran,      \* messages each service has begun to run, in order
    finished  \* calls of child_finished() for each service

ports == <<queue, sent>>
tree  == <<kids, todo, joining, finished>>
reply == <<waiting, asked, replied, gaveUp>>
vars  == <<looping, ports, batches, pc, tree, reply, ran>>

\* A message: its number at its port and who waits for it; empty_msg() has 0.
msg(n, from) == [id |-> n, from |-> from]
empty_msg == msg(0, NoOne)

go(s, step) == pc' = [pc EXCEPT ![s] = step]
-----------------------------------------------------------------------------
(* Ports                                                                    *)

\* The batch that is being run.
now(s) == Last(batches[s])

\* A thread can call out from its own work; the others are always free to.
free(t) == waiting[t] = NoOne /\ (t \in Services => pc[t] = "body")

\* A callback may send, too.
talks(t) == free(t) \/ (t \in Services /\ pc[t] = "run" /\ now(t) # <<>>)

\* Bound on what the threads ask of each other in a behaviour.
room == MapThenSumSet(LAMBDA r : sent[r], Services) + Cardinality(gaveUp) < MaxSends

\* msg_port::send(); a host_tailer is known to the looper until child_finished().
enqueue(s, from) ==
    /\ s \in Hosts => s \in kids[Looper]
    /\ room
    /\ sent' = [sent EXCEPT ![s] = @ + 1]
    /\ queue' = [queue EXCEPT ![s] = Append(@, msg(sent'[s], from))]

send(t, s) ==
    /\ <<t, s>> \in Routes /\ talks(t)
    /\ enqueue(s, NoOne)
    /\ UNCHANGED <<looping, batches, pc, tree, reply, ran>>

send_and_wait(t, s) ==
    /\ <<t, s>> \in Asks /\ free(t)
    /\ enqueue(s, t)
    /\ waiting' = [waiting EXCEPT ![t] = s]
    /\ asked' = [asked EXCEPT ![t] = sent'[s]]
    /\ UNCHANGED <<looping, batches, pc, tree, replied, gaveUp, ran>>

\* reply_port.process_for() comes back and the reply port is gone.
hang_up(t) ==
    /\ waiting' = [waiting EXCEPT ![t] = NoOne]
    /\ asked' = [asked EXCEPT ![t] = 0]
    /\ replied' = [replied EXCEPT ![t] = FALSE]
    /\ UNCHANGED <<looping, ports, batches, pc, tree, ran>>

\* With the answer ...
return(t) ==
    /\ waiting[t] # NoOne /\ replied[t]
    /\ hang_up(t) /\ UNCHANGED gaveUp

\* ... or without: the code waits once and asks no predicate, so that the timeout or
\* a wakeup for no reason ends the wait while the service still holds the message.
return_early(t) ==
    /\ waiting[t] # NoOne /\ ~replied[t] /\ room
    /\ hang_up(t) /\ gaveUp' = gaveUp \union {t}

\* mutant: messages that arrive during the wait are thrown away
swap_lost(s) ==
    /\ batches' = [batches EXCEPT ![s] = <<IF pc[s] = "wait" THEN <<>> ELSE queue[s]>>]
    /\ queue' = [queue EXCEPT ![s] = <<>>]
    /\ go(s, "run")

\* tmp_msgs.swap(*writable_msgs)
swap(s) ==
    /\ batches' = [batches EXCEPT ![s] = <<queue[s]>>]
    /\ queue' = [queue EXCEPT ![s] = <<>>]
    /\ go(s, "run")

\* process_for() in the loop: an empty port is waited on, once, when the
\* timeout is not zero.
process_for(s) ==
    /\ pc[s] = "top" /\ looping[s]
    /\ \/ queue[s] = <<>> /\ go(s, "wait") /\ UNCHANGED <<queue, batches>>
       \/ swap(s)
    /\ UNCHANGED <<looping, sent, tree, reply, ran>>

\* mutant: the wait goes on while there are messages
wake_inverted(s) ==
    /\ pc[s] = "wait" /\ queue[s] = <<>> /\ swap(s)
    /\ UNCHANGED <<looping, sent, tree, reply, ran>>

\* Notified, timed out or woken for no reason: the code does not ask which.
wake(s) ==
    /\ pc[s] = "wait" /\ swap(s)
    /\ UNCHANGED <<looping, sent, tree, reply, ran>>

begin(s) == ran' = [ran EXCEPT ![s] =
                       IF Head(now(s)).id = 0 THEN @ ELSE Append(@, Head(now(s)).id)]

\* reply_port.send() at the end of the message m of s.  The port of a wait that came
\* back early is gone: the write hits what is there now, which is nothing that
\* matters or, as the stack is used again, the port of a later wait of that thread.
answer(s, m) ==
    LET t == m.from IN
    IF t = NoOne \/ waiting[t] = NoOne THEN UNCHANGED replied
    ELSE \/ replied' = [replied EXCEPT ![t] = TRUE]
         \/ <<waiting[t], asked[t]>> # <<s, m.id>> /\ UNCHANGED replied

\* m_callback(), which ends in reply_port.send() for send_and_wait()
callback(s) ==
    /\ pc[s] = "run" /\ now(s) # <<>>
    /\ begin(s) /\ answer(s, Head(now(s)))
    /\ batches' = [batches EXCEPT ![s] = Append(Front(@), Tail(now(s)))]
    /\ UNCHANGED <<looping, ports, pc, tree, waiting, asked, gaveUp>>

\* A callback that throws: the rest of the batch is dropped with tmp_msgs.
callback_throws(s) ==
    /\ "throw" \in Env /\ s # Main
    /\ pc[s] = "run" /\ now(s) # <<>>
    /\ begin(s)
    /\ batches' = [batches EXCEPT ![s] = <<>>]
    /\ looping' = [looping EXCEPT ![s] = FALSE] /\ go(s, "top")
    /\ UNCHANGED <<ports, tree, reply>>

\* mutant: the reply is sent before the message is run, not after it
nest_answers(s) ==
    /\ s = Main /\ Len(batches[s]) <= Depth
    /\ pc[s] = "run" /\ now(s) # <<>>
    /\ begin(s) /\ answer(s, Head(now(s)))
    /\ batches' = [batches EXCEPT ![s] = Append(@, queue[s])]
    /\ queue' = [queue EXCEPT ![s] = <<>>]
    /\ UNCHANGED <<looping, sent, pc, tree, waiting, asked, gaveUp>>

\* A command run by a message of the main thread rescans the files and so
\* processes the port again; the message itself is still the front of its batch.
nest(s) ==
    /\ s = Main /\ Len(batches[s]) <= Depth
    /\ pc[s] = "run" /\ now(s) # <<>>
    /\ begin(s)
    /\ batches' = [batches EXCEPT ![s] = Append(@, queue[s])]
    /\ queue' = [queue EXCEPT ![s] = <<>>]
    /\ UNCHANGED <<looping, sent, pc, tree, reply>>

\* mutant: a message that processed the port again is not answered
unnest_silent(s) ==
    /\ pc[s] = "run" /\ Len(batches[s]) > 1 /\ now(s) = <<>>
    /\ LET outer == Front(batches[s]) IN
       batches' = [batches EXCEPT ![s] = Append(Front(outer), Tail(Last(outer)))]
    /\ UNCHANGED <<looping, ports, pc, tree, reply, ran>>

\* The inner process_for() returns and the message that called it ends.
unnest(s) ==
    /\ pc[s] = "run" /\ Len(batches[s]) > 1 /\ now(s) = <<>>
    /\ LET outer == Front(batches[s]) IN
       /\ answer(s, Head(Last(outer)))
       /\ batches' = [batches EXCEPT ![s] = Append(Front(outer), Tail(Last(outer)))]
    /\ UNCHANGED <<looping, ports, pc, tree, waiting, asked, gaveUp, ran>>

processed(s) ==
    /\ pc[s] = "run" /\ batches[s] = <<<<>>>>
    /\ batches' = [batches EXCEPT ![s] = <<>>]
    /\ go(s, IF s = Main \/ kids[s] = {} THEN "body" ELSE "clean")
    /\ todo' = [todo EXCEPT ![s] = kids[s]]
    /\ UNCHANGED <<looping, ports, kids, joining, finished, reply, ran>>
-----------------------------------------------------------------------------
(* Supervisors                                                              *)

visited(s, c) == todo' = [todo EXCEPT ![s] = @ \ {c}]

\* mutant: the parent is told, but the child stays in the list
erase_keeps(s, gone) ==
    /\ finished' = [c \in Services |->
                       finished[c] + IF c \in gone /\ s # Main THEN 1 ELSE 0]
    /\ UNCHANGED kids

\* erased from s_service_list; child_finished() of the parent, which the
\* supervisor of the main thread does not have
erase(s, gone) ==
    /\ kids' = [kids EXCEPT ![s] = @ \ gone]
    /\ finished' = [c \in Services |->
                       finished[c] + IF c \in gone /\ s # Main THEN 1 ELSE 0]

\* mutant: a child that is not looping any more is erased without join()
cleanup_no_join(s, c) ==
    /\ pc[s] = "clean" /\ c \in todo[s] /\ visited(s, c)
    /\ IF looping[c] THEN UNCHANGED <<kids, finished>> ELSE erase(s, {c})
    /\ UNCHANGED <<looping, ports, batches, pc, joining, reply, ran>>

\* mutant: children that have ended are left in the list
cleanup_nothing(s, c) ==
    /\ pc[s] = "clean" /\ c \in todo[s] /\ visited(s, c)
    /\ UNCHANGED <<looping, ports, batches, pc, kids, joining, finished, reply, ran>>

\* cleanup_children() of a looping service: a child that stopped looping is
\* joined, which waits for the end of its thread.
cleanup_children(s, c) ==
    /\ pc[s] = "clean" /\ c \in todo[s]
    /\ \/ looping[c] /\ UNCHANGED <<kids, finished>>
       \/ ~looping[c] /\ pc[c] = "ended" /\ erase(s, {c})
    /\ visited(s, c)
    /\ UNCHANGED <<looping, ports, batches, pc, joining, reply, ran>>

cleaned(s) ==
    /\ pc[s] = "clean" /\ todo[s] = {} /\ go(s, "body")
    /\ UNCHANGED <<looping, ports, batches, tree, reply, ran>>

\* mutant: the thread ends with its loop and leaves its children alone
leave_at_once(s) ==
    /\ pc[s] = "top" /\ ~looping[s] /\ go(s, "ended")
    /\ UNCHANGED <<looping, ports, batches, tree, reply, ran>>

\* The loop is left: stop_children() when there are any, or the thread ends.
leave(s) ==
    /\ pc[s] = "top" /\ ~looping[s]
    /\ go(s, IF kids[s] = {} THEN "ended" ELSE "stopping")
    /\ todo' = [todo EXCEPT ![s] = kids[s]]
    /\ UNCHANGED <<looping, ports, batches, kids, joining, finished, reply, ran>>

\* mutant: a child that is told to stop is not woken and not told
stop_untold(s, c) ==
    /\ pc[s] = "stopping" /\ joining[s] = NoOne /\ c \in todo[s]
    /\ joining' = [joining EXCEPT ![s] = c]
    /\ UNCHANGED <<looping, ports, batches, pc, kids, todo, finished, reply, ran>>

\* stop(): tell one child, wake it with an empty message, ...
stop(s, c) ==
    /\ pc[s] = "stopping" /\ joining[s] = NoOne /\ c \in todo[s]
    /\ joining' = [joining EXCEPT ![s] = c]
    /\ looping' = [looping EXCEPT ![c] = FALSE]
    /\ queue' = [queue EXCEPT ![c] = IF looping[c] THEN Append(@, empty_msg) ELSE @]
    /\ UNCHANGED <<sent, batches, pc, kids, todo, finished, reply, ran>>

\* ... and join its thread before the next one is told.
join(s, c) ==
    /\ pc[s] = "stopping" /\ joining[s] = c /\ pc[c] = "ended"
    /\ joining' = [joining EXCEPT ![s] = NoOne] /\ visited(s, c)
    /\ UNCHANGED <<looping, ports, batches, pc, kids, finished, reply, ran>>

\* The last cleanup_children(), stopped(), and the thread ends.
end(s) ==
    /\ pc[s] = "stopping" /\ joining[s] = NoOne /\ todo[s] = {}
    /\ erase(s, kids[s]) /\ go(s, "ended")
    /\ UNCHANGED <<looping, ports, batches, todo, joining, reply, ran>>
-----------------------------------------------------------------------------
(* loop_body() and the work of the main thread                              *)

loop_body(s) ==
    /\ pc[s] = "body" /\ waiting[s] = NoOne /\ go(s, "top")
    /\ UNCHANGED <<looping, ports, batches, tree, reply, ran>>

\* loop_body() throws or the service is done; the user leaves the program.
loop_ends(s) ==
    /\ (IF s = Main THEN "quit" ELSE "finish") \in Env
    /\ pc[s] = "body" /\ waiting[s] = NoOne /\ looping[s]
    /\ looping' = [looping EXCEPT ![s] = FALSE] /\ go(s, "top")
    /\ UNCHANGED <<ports, batches, tree, reply, ran>>

\* Called by a service from its loop: the child's thread begins.
add_child_service(s, c) ==
    /\ pc[s] = "body" /\ waiting[s] = NoOne
    /\ Parent[c] = s /\ pc[c] = "new"
    /\ kids' = [kids EXCEPT ![s] = @ \union {c}]
    /\ pc' = [pc EXCEPT ![c] = "top"]
    /\ UNCHANGED <<looping, ports, batches, todo, joining, finished, reply, ran>>
-----------------------------------------------------------------------------
\* The services of the main thread's supervisor are started by its constructor.
Init ==
    LET first == {c \in Workers : Parent[c] = Main} IN
    /\ looping = [s \in Services |-> TRUE]
    /\ queue = [s \in Services |-> <<>>] /\ batches = [s \in Services |-> <<>>]
    /\ pc = [s \in Services |-> IF s \in first \union {Main} THEN "top" ELSE "new"]
    /\ kids = [s \in Services |-> IF s = Main THEN first ELSE {}]
    /\ todo = [s \in Services |-> {}] /\ joining = [s \in Services |-> NoOne]
    /\ waiting = [t \in Threads |-> NoOne] /\ asked = [t \in Threads |-> 0]
    /\ replied = [t \in Threads |-> FALSE] /\ gaveUp = {}
    /\ sent = [s \in Services |-> 0] /\ ran = [s \in Services |-> <<>>]
    /\ finished = [s \in Services |-> 0]

\* What a thread does by itself, whatever the others do.
run(s) ==
    \/ process_for(s) \/ wake(s) \/ callback(s) \/ unnest(s) \/ processed(s)
    \/ cleaned(s) \/ leave(s) \/ end(s) \/ loop_body(s)
    \/ \E c \in Workers : cleanup_children(s, c) \/ stop(s, c) \/ join(s, c)

Next ==
    \/ \E t \in Threads, s \in Services : send(t, s) \/ send_and_wait(t, s)
    \/ \E t \in Threads : return(t) \/ return_early(t)
    \/ \E s \in Services :
          \/ run(s) \/ callback_throws(s) \/ nest(s) \/ loop_ends(s)
          \/ \E c \in Workers : add_child_service(s, c)

Spec == Init /\ [][Next]_vars

\* Threads are scheduled and a wait that was notified comes back; nothing says that
\* the timeout of 48 hours is ever reached.
FairSpec ==
    /\ Spec
    /\ \A s \in Services : WF_vars(run(s))
    /\ \A t \in Threads : WF_vars(return(t))
-----------------------------------------------------------------------------
(* Properties                                                               *)

\* What a port holds: the batches that are being run, outermost first, and the queue
\* last.  The front of every batch but the innermost was begun and runs the next one.
held(s) == Append(batches[s], queue[s])

\* Types, the numbers of the messages and the bound on nested processing.
Msg == [id : Nat, from : Threads \union {NoOne}]
TypeOK ==
    /\ looping \in [Services -> BOOLEAN]
    /\ queue \in [Services -> Seq(Msg)] /\ batches \in [Services -> Seq(Seq(Msg))]
    /\ \A s \in Services :
          /\ Len(batches[s]) <= Depth + 1
          /\ \A k \in 1..Len(held(s)) : \A i \in 1..Len(held(s)[k]) :
                held(s)[k][i].id <= sent[s]
    /\ pc \in [Services -> {"new", "top", "wait", "run", "clean", "body",
                            "stopping", "ended"}]
    /\ kids \in [Services -> SUBSET Workers] /\ todo \in [Services -> SUBSET Workers]
    /\ joining \in [Services -> Workers \union {NoOne}]
    /\ waiting \in [Threads -> Services \union {NoOne}]
    /\ asked \in [Threads -> Nat] /\ replied \in [Threads -> BOOLEAN]
    /\ gaveUp \subseteq Threads
    /\ sent \in [Services -> Nat] /\ ran \in [Services -> Seq(Nat)]
    /\ finished \in [Services -> 0..1]

\* The messages of a port are in the order of sending, from the first of the
\* outermost batch to the last of the queue, and none is there twice.
before(k, i, l, j) == k < l \/ (k = l /\ i < j)
ordered(h) ==
    \A k, l \in 1..Len(h) : \A i \in 1..Len(h[k]), j \in 1..Len(h[l]) :
        before(k, i, l, j) => h[k][i].id < h[l][j].id

\* The numbers of the messages that are still to be run.
toRun(h) ==
    UNION {{h[k][i].id : i \in {j \in 1..Len(h[k]) : j > 1 \/ k >= Len(h) - 1}}
              : k \in 1..Len(h)}

\* As long as a service loops, every message sent to it is run once, by now or
\* still to come, and by a service thread in the order of sending (isc.hh swaps
\* the whole queue and runs it without the lock, while others send).  Only the
\* main thread, which processes its port inside of a message, may run a later
\* message before an earlier one.
Delivered ==
    \A s \in Services : looping[s] =>
        /\ ordered(held(s))
        /\ IsInjective(ran[s])
        /\ Range(ran[s]) \union toRun(held(s)) = 1..sent[s]
        /\ Range(ran[s]) \intersect toRun(held(s)) = {}
        /\ s # Main => \A i \in 1..Len(ran[s]) : ran[s][i] = i

\* The caller of the message m of s waits for it and has no answer yet.
expects(s, m) ==
    waiting[m.from] = s /\ asked[m.from] = m.id /\ ~replied[m.from]

\* Nobody, and the threads that came back from a wait without its answer.
unheard == gaveUp \union {NoOne}

\* The answer of send_and_wait() means that the message was run to its end, what it
\* processed inside of it included, and until then the caller is there: as long as a
\* service holds the message of a thread (queued, taken or begun) that thread waits
\* for this message, is not answered, and its stack has what the callback refers to
\* (isc.hh sends the reply after the callback, through a reference).  It says nothing
\* of a thread that came back early once, and shows that the harm stays with it.
AnswerMeansRun ==
    \A s \in Services : \A k \in 1..Len(held(s)) : \A i \in 1..Len(held(s)[k]) :
        held(s)[k][i].from \notin unheard => expects(s, held(s)[k][i])

\* No thread outlives its supervisor's knowledge of it: a worker that was started
\* and is not in its parent's list has ended, and its parent was told exactly once.
NoOrphans ==
    \A c \in Workers :
        pc[c] # "new" /\ c \notin kids[Parent[c]] =>
            pc[c] = "ended" /\ (Parent[c] # Main => finished[c] = 1)

\* No service thread runs after the one that started it has ended: run() stops its
\* children before it returns.
ChildrenEndFirst ==
    \A c \in Workers : pc[Parent[c]] = "ended" => pc[c] \in {"new", "ended"}

\* Leaving the program ends every thread: stop() reaches each service, which stops
\* its own children before it ends, and no join() waits for ever.
QuitEnds == ~looping[Main] ~> \A s \in Services : pc[s] \in {"new", "ended"}

\* The thread waits for a service that will not answer any more: a callback threw
\* or the service ended, and send_and_wait() has a timeout of 48 hours.
stranded(t) == waiting[t] # NoOne /\ ~looping[waiting[t]]

\* A message is run unless its service stops looping or is stranded itself.
MessagesRun ==
    \A s \in Services :
        Len(ran[s]) < sent[s] ~> Len(ran[s]) = sent[s] \/ ~looping[s] \/ stranded(s)

\* send_and_wait() comes back unless the service stops looping or is stranded.
AskEnds ==
    \A a \in Asks :
        waiting[a[1]] = a[2] ~>
            waiting[a[1]] = NoOne \/ ~looping[a[2]] \/ stranded(a[2])

\* A child whose thread has ended is taken off the list of its parent.
ChildReaped == \A c \in Hosts : pc[c] = "ended" ~> c \notin kids[Looper]
=============================================================================
