------------------------------ MODULE ThreadPool ------------------------------
(***************************************************************************)
(* The worker pool: threadpool (threadpool.h), the queue of each worker    *)
(* (synchronised_queue.h), the operations in it (async_op.h) and           *)
(* async_task::connect (async_task.h), which is schedule() by another      *)
(* name.                                                                   *)
(*                                                                         *)
(* A worker starts by inserting its queue in queues_index_, a std::map     *)
(* that nothing protects, then runs the operations of its queue for ever.  *)
(* The insertion is two steps, the descent that reads the tree and the     *)
(* link that writes it: two workers that overlap can lose an entry.  Every *)
(* other step of a worker is one critical section of its queue's mutex, or *)
(* the run of one operation.                                               *)
(*                                                                         *)
(* The main thread constructs the pool, schedules tasks and calls stop();  *)
(* a running task may schedule as well.  stop() posts a poison operation   *)
(* to one thread and joins it before it goes to the next.  It may be       *)
(* called again, and is, by the destructor.                                *)
(***************************************************************************)
EXTENDS Naturals, Sequences, Functions

CONSTANTS NumThreads,   \* size_, the <threads> of the configuration (may be 0)
          Task,         \* the operations clients schedule, each at most once
          Poison        \* the operation of stop_thread(): throws cancel_thread_err

ASSUME NumThreadsAssumption == NumThreads \in Nat
ASSUME PoisonAssumption == Poison \notin Task

Worker == 1 .. NumThreads
Op     == Task \cup {Poison}

VARIABLES
  wstate,        \* wstate[w]: where thread w is in start_thread()
  seen,          \* seen[w]: the entries of queues_index_ that w's insertion has read
  queues_index,  \* queues_index_: the threads whose queue schedule() can find
  queue,         \* queue[w]: queue_impl_ of w's synchronised_queue
  ran,           \* ran[w]: history of the operations w has started, in order
  threads,       \* threads_: the threads that stop() has to join
  main,          \* where the main thread is in stop()
  joining,       \* the iterator of stop() over threads_
  joined,        \* the threads that were joined: their get_id() is no thread's any more
  terminated     \* an exception left a thread: std::terminate() ended the process

vars == <<wstate, seen, queues_index, queue, ran, threads, main, joining, joined,
          terminated>>

WState == {"created", "inserting", "ready", "waiting", "running", "exited"}
MState == {"free", "stop_thread", "join", "skipped", "threw"}

\* stop() is not running: it was not called or returned, returned early, threw.
Idle   == main \in {"free", "skipped", "threw"}

\* The constructor: size_ threads, none of which has run yet.
Init == /\ wstate = [w \in Worker |-> "created"]
        /\ seen = [w \in Worker |-> {}]
        /\ queues_index = {}
        /\ queue = [w \in Worker |-> <<>>]
        /\ ran = [w \in Worker |-> <<>>]
        /\ threads = [i \in 1 .. NumThreads |-> i]
        /\ main = "free"
        /\ joining = 1
        /\ joined = {}
        /\ terminated = FALSE

-----------------------------------------------------------------------------
(* synchronised_queue *)

\* Mutant: enqueue() forgets to notify.
Notified_Never(s) == s

\* notify_one() moves a blocked consumer back to the lock.  A queue has one consumer.
Notified(s) == IF s = "waiting" THEN "ready" ELSE s

\* enqueue(): push under the lock, notify_one().
Enqueue(w, op) ==
  /\ queue' = [queue EXCEPT ![w] = Append(@, op)]
  /\ wstate' = [wstate EXCEPT ![w] = Notified(@)]

\* Mutant: dequeue() waits without looking at the queue first.
Wait_Unchecked(w) ==
  /\ wstate[w] = "ready"
  /\ wstate' = [wstate EXCEPT ![w] = "waiting"]
  /\ UNCHANGED <<seen, queues_index, queue, ran, threads, main, joining, joined, terminated>>

\* dequeue() finds the queue empty and blocks, which releases the lock.
Wait(w) ==
  /\ wstate[w] = "ready"
  /\ queue[w] = <<>>
  /\ wstate' = [wstate EXCEPT ![w] = "waiting"]
  /\ UNCHANGED <<seen, queues_index, queue, ran, threads, main, joining, joined, terminated>>

\* A condition variable may wake without a notification; dequeue() looks again.
SpuriousWake(w) ==
  /\ wstate[w] = "waiting"
  /\ wstate' = [wstate EXCEPT ![w] = "ready"]
  /\ UNCHANGED <<seen, queues_index, queue, ran, threads, main, joining, joined, terminated>>

\* Mutant: the poison does not end its thread.
AfterStart_PoisonIgnored(op) == "running"

\* The poison throws cancel_thread_err, which start_thread() catches to return; any
\* other operation runs.
AfterStart(op) == IF op = Poison THEN "exited" ELSE "running"

\* dequeue() returns the front and start_thread() runs it.
Dequeue(w) ==
  /\ wstate[w] = "ready"
  /\ queue[w] # <<>>
  /\ queue' = [queue EXCEPT ![w] = Tail(@)]
  /\ ran' = [ran EXCEPT ![w] = Append(@, Head(queue[w]))]
  /\ wstate' = [wstate EXCEPT ![w] = AfterStart(Head(queue[w]))]
  /\ UNCHANGED <<seen, queues_index, threads, main, joining, joined, terminated>>

-----------------------------------------------------------------------------
(* threadpool::start_thread() *)

Inserting == {w \in Worker : wstate[w] = "inserting"}

\* queues_index_.insert(): the descent to the place of the new node.
InsertReads(w) ==
  /\ wstate[w] = "created"
  /\ wstate' = [wstate EXCEPT ![w] = "inserting"]
  /\ seen' = [seen EXCEPT ![w] = queues_index]
  /\ UNCHANGED <<queues_index, queue, ran, threads, main, joining, joined, terminated>>

\* The node is linked where the descent ended: an entry another thread has linked
\* since may be lost.
InsertWrites(w) ==
  /\ wstate[w] = "inserting"
  /\ \E kept \in SUBSET (queues_index \ seen[w]) :
        queues_index' = (queues_index \cap seen[w]) \cup kept \cup {w}
  /\ wstate' = [wstate EXCEPT ![w] = "ready"]
  /\ seen' = [seen EXCEPT ![w] = {}]
  /\ UNCHANGED <<queue, ran, threads, main, joining, joined, terminated>>

\* task->run() returned; the operation is deleted.
Finish(w) ==
  /\ wstate[w] = "running"
  /\ wstate' = [wstate EXCEPT ![w] = "ready"]
  /\ UNCHANGED <<seen, queues_index, queue, ran, threads, main, joining, joined, terminated>>

\* Any other exception is rethrown out of the thread function.  A schedule() with a
\* thread id that is not in queues_index_ is one source of it.
TaskThrows(w) ==
  /\ wstate[w] = "running"
  /\ terminated' = TRUE
  /\ UNCHANGED <<wstate, seen, queues_index, queue, ran, threads, main, joining, joined>>

-----------------------------------------------------------------------------
(* threadpool::schedule() *)

IsPosted(t) == \E w \in Worker : t \in Range(queue[w]) \/ t \in Range(ran[w])

\* The queue of w is found and t enqueued.  When it is not found schedule() throws
\* and changes nothing.
Schedule(t, w) ==
  /\ ~IsPosted(t)
  /\ w \in queues_index
  /\ Enqueue(w, t)
  /\ UNCHANGED <<seen, queues_index, ran, threads, main, joining, joined, terminated>>

MainSchedules(t, w) == Idle /\ Schedule(t, w)
TaskSchedules(v, t, w) == wstate[v] = "running" /\ Schedule(t, w)

-----------------------------------------------------------------------------
(* threadpool::stop(), also what the destructor does *)

StopBegin ==
  /\ Idle
  /\ threads # <<>>
  /\ main' = IF queues_index = {} THEN "skipped" ELSE "stop_thread"
  /\ joining' = 1
  /\ UNCHANGED <<wstate, seen, queues_index, queue, ran, threads, joined, terminated>>

\* stop_thread(): schedule the poison on the thread the iterator is at.
StopThread ==
  /\ main = "stop_thread"
  /\ threads[joining] \in queues_index \ joined
  /\ Enqueue(threads[joining], Poison)
  /\ main' = "join"
  /\ UNCHANGED <<seen, queues_index, ran, threads, joining, joined, terminated>>

\* The thread is not in queues_index_, an earlier stop() joined it, or the search misses
\* it because it overlaps an insertion: schedule() throws out of stop(), and out of the
\* destructor that ends the process.
StopThreadThrows ==
  /\ main = "stop_thread"
  /\ threads[joining] \notin queues_index \ joined \/ Inserting # {}
  /\ main' = "threw"
  /\ terminated' \in BOOLEAN
  /\ UNCHANGED <<wstate, seen, queues_index, queue, ran, threads, joining, joined>>

\* Mutants: join() does not wait; the loop over the threads goes one too far.
Joinable_AtOnce(w) == TRUE
MoreToJoin_OneTooFar == joining <= Len(threads)

Joinable(w) == wstate[w] = "exited"
MoreToJoin  == joining < Len(threads)

\* join() returns; after the last thread both containers are cleared.  The queues go
\* with the index: what is left in them is never run.
Join ==
  /\ main = "join"
  /\ Joinable(threads[joining])
  /\ joined' = joined \cup {threads[joining]}
  /\ IF MoreToJoin
     THEN /\ joining' = joining + 1
          /\ main' = "stop_thread"
          /\ UNCHANGED <<queues_index, threads>>
     ELSE /\ joining' = 1
          /\ main' = "free"
          /\ threads' = <<>>
          /\ queues_index' = {}
  /\ UNCHANGED <<wstate, seen, queue, ran, terminated>>

-----------------------------------------------------------------------------
WorkerStep(w) == InsertReads(w) \/ InsertWrites(w) \/ Wait(w) \/ Dequeue(w) \/ Finish(w)
StopStep      == StopThread \/ StopThreadThrows \/ Join

Next ==
  /\ ~terminated
  /\ \/ \E w \in Worker : WorkerStep(w) \/ SpuriousWake(w) \/ TaskThrows(w)
     \/ \E t \in Task, w \in Worker :
          MainSchedules(t, w) \/ \E v \in Worker : TaskSchedules(v, t, w)
     \/ StopBegin
     \/ StopStep

\* The operating system runs every thread that can run, and tasks return.
Fairness == /\ \A w \in Worker : WF_vars(~terminated /\ WorkerStep(w))
            /\ WF_vars(~terminated /\ StopStep)

Spec == Init /\ [][Next]_vars /\ Fairness

-----------------------------------------------------------------------------
(* Properties *)

\* The type of every variable (threadpool.h:127-129).
TypeOK ==
  /\ wstate \in [Worker -> WState]
  /\ seen \in [Worker -> SUBSET Worker]
  /\ queues_index \in SUBSET Worker
  /\ queue \in [Worker -> Seq(Op)]
  /\ ran \in [Worker -> Seq(Op)]
  /\ threads \in {<<>>, [i \in 1 .. NumThreads |-> i]}
  /\ main \in MState
  /\ joining \in 1 .. NumThreads \/ joining = 1
  /\ joined \in SUBSET Worker
  /\ terminated \in BOOLEAN

\* No lost wakeup: a worker blocked in dequeue() has an empty queue, whatever the order
\* of the enqueues, the waits and the spurious wakeups (synchronised_queue.h:28-46).
NoLostWakeup == \A w \in Worker : wstate[w] = "waiting" => queue[w] = <<>>

\* stop() that has gone through all its threads leaves none of them alive and none
\* that ended otherwise than by its poison, although tasks keep scheduling on threads
\* that are already joined (threadpool.h:54-63).
StopLeavesNoThread ==
  threads = <<>> => \A w \in Worker : wstate[w] = "exited" /\ Poison \in Range(ran[w])

\* Tasks run in the order they were scheduled, once, and none after the poison:
\* what each worker ran and still has queued is a mailbox (threadpool.h:94-119).
Mailbox == INSTANCE TaskMailbox WITH posted <- [w \in Worker |-> ran[w] \o queue[w]]
MailboxSpec == Mailbox!Spec

AheadOfPoison(t, w) ==
  \E i \in 1 .. Len(queue[w]) :
     /\ queue[w][i] = t
     /\ \A j \in 1 .. i : queue[w][j] # Poison

\* A task that schedule() accepted is run, unless the pool is told to stop or the process dies
\* first (threadpool.h:66-81): no thread that has work sleeps for ever.  A stop() that gave up,
\* or did nothing, excuses only the threads that it has ended.
AcceptedTaskRuns ==
  \A t \in Task, w \in Worker :
     (AheadOfPoison(t, w) /\ Poison \notin Range(ran[w]))
        ~> (t \in Range(ran[w]) \/ ~Idle \/ terminated)

\* stop() returns or throws: no join waits for a thread that cannot reach its poison
\* (threadpool.h:48-64).
StopReturns == ~Idle ~> (Idle \/ terminated)

\* threadpool.h:50 says of the early return of stop() that it prevents a second stop:
\* it is taken only when there is no thread left to stop.
EarlyReturnIsSecondStop == main = "skipped" => \A w \in Worker : wstate[w] = "exited"
=============================================================================
