------------------------------- MODULE SnodeCore -------------------------------
(***************************************************************************)
(* The server core, snode_core (snode_core.cpp), with the round robin over *)
(* listeners of a service (net_service_helpers.h), the way a connection    *)
(* uses both threads (http_service.cpp:196-211, handler_allocator.h), and  *)
(* the pool of ThreadPool.tla under them.                                  *)
(*                                                                         *)
(* The main thread is in io_service::run().  It runs completions one at a  *)
(* time, in the order they became ready: accepts, reads of connections and *)
(* calls of stop() that other threads have posted.  run() comes back when  *)
(* nothing is outstanding or when a handler throws.  Then the process      *)
(* ends and the destructor of the core stops the pool once more.           *)
(*                                                                         *)
(* External: io_service, of which the queue (io), the outstanding          *)
(* operations (armed, reading) and the return of run() are kept.  A        *)
(* connection is what its first two tasks need: on_accept starts a read,   *)
(* the completion of the read is a task on the same worker, which ends it. *)
(***************************************************************************)
EXTENDS Integers, Sequences, SequencesExt, FiniteSets

CONSTANTS NumThreads,  \* threads of the pool
          Poison,      \* the operation that ends a worker
          Port,        \* the ports of the configured services
          Socket,      \* bound: the sockets that clients may connect
          MaxStops     \* bound: how often stop() is posted

\* With no thread there is no listener, and the first accept goes through a null pointer.
ASSUME CoreAssumption == NumThreads \in Nat \ {0} /\ MaxStops \in Nat /\ IsFiniteSet(Port)
ASSUME PoisonIsNoTask == Poison \notin Socket \X {"accept", "read"}

VARIABLES
  wstate, seen, queues_index, queue, ran, threads, main, joining, joined,
  terminated,  \* the variables of ThreadPool
  io_main,     \* where the main thread is
  io,          \* completions that the main thread has to run, in order
  armed,       \* the ports with an accept outstanding
  reading,     \* the connections with a read outstanding
  closed,      \* the sockets that handle_accept() has closed
  last_used,   \* last_used_ of the listener factory
  offered,     \* offered[w]: how many sockets were meant for worker w
  stops,       \* how often stop() was posted
  stopped      \* a stop() has come to its end

Pool == INSTANCE ThreadPool WITH Task <- Socket \X {"accept", "read"}

poolvars == <<wstate, seen, queues_index, queue, ran, threads, main, joining, joined, terminated>>
corevars == <<armed, reading, closed, last_used, offered, stops, stopped>>
vars     == <<poolvars, io_main, io, corevars>>

Worker  == Pool!Worker
NoSocket == "none"

\* A completion: an accept or a read of a socket, or a posted stop().
Accepted(p, s) == [what |-> "accept", port |-> p, sock |-> s]
AcceptError(p) == [what |-> "error", port |-> p, sock |-> NoSocket]
ReadDone(s)    == [what |-> "read", port |-> 0, sock |-> s]
StopCall       == [what |-> "stop", port |-> 0, sock |-> NoSocket]

\* init(): the pool was made, every service listens with one accept outstanding.
Init == /\ Pool!Init
        /\ io_main = "running" /\ io = <<>>
        /\ armed = Port /\ reading = {} /\ closed = {}
        /\ last_used = -1
        /\ offered = [w \in Worker |-> 0]
        /\ stops = 0 /\ stopped = FALSE

-----------------------------------------------------------------------------
(* What happens outside the main thread *)

Posted(s) == \E w \in Worker : <<s, "accept">> \in Range(ran[w] \o queue[w])
InIo(s)   == \E i \in 1 .. Len(io) : io[i].what = "accept" /\ io[i].sock = s
IsNew(s)  == ~Posted(s) /\ ~InIo(s) /\ s \notin closed

InRun == io_main \in {"running", "stopping"}

\* A client connects, or the accept fails.
Connect(p, s) ==
  /\ InRun
  /\ p \in armed /\ IsNew(s)
  /\ armed' = armed \ {p}
  /\ io' = Append(io, Accepted(p, s))
  /\ UNCHANGED <<poolvars, io_main, reading, closed, last_used, offered, stops, stopped>>

AcceptFails(p) ==
  /\ InRun
  /\ p \in armed
  /\ armed' = armed \ {p}
  /\ io' = Append(io, AcceptError(p))
  /\ UNCHANGED <<poolvars, io_main, reading, closed, last_used, offered, stops, stopped>>

\* A client sends its request, or goes away.
ReadCompletes(s) ==
  /\ InRun
  /\ s \in reading
  /\ reading' = reading \ {s}
  /\ io' = Append(io, ReadDone(s))
  /\ UNCHANGED <<poolvars, io_main, armed, closed, last_used, offered, stops, stopped>>

\* Mutant: stop() goes on in the thread that called it.
PostStop_Direct ==
  /\ InRun /\ stops < MaxStops /\ threads # <<>>
  /\ stops' = stops + 1
  /\ main' = "stop_thread" /\ joining' = 1
  /\ UNCHANGED <<wstate, seen, queues_index, queue, ran, threads, joined, terminated, io_main,
                 io, armed, reading, closed, last_used, offered, stopped>>

\* stop() on any other thread posts itself to the main one.
PostStop ==
  /\ InRun /\ stops < MaxStops
  /\ stops' = stops + 1
  /\ io' = Append(io, StopCall)
  /\ UNCHANGED <<poolvars, io_main, armed, reading, closed, last_used, offered, stopped>>

\* The steps of the workers.  The task of an accepted socket starts a read.
Work(w) ==
  /\ io_main # "exited"
  /\ \/ /\ \/ Pool!InsertReads(w) \/ Pool!InsertWrites(w) \/ Pool!Wait(w)
           \/ Pool!SpuriousWake(w) \/ Pool!Dequeue(w) \/ Pool!TaskThrows(w)
        /\ UNCHANGED reading
     \/ /\ Pool!Finish(w)
        /\ reading' = reading \cup {s \in Socket : Last(ran[w]) = <<s, "accept">>}
  /\ UNCHANGED <<io_main, io, armed, closed, last_used, offered, stops, stopped>>

-----------------------------------------------------------------------------
(* The main thread in run() *)

Completes(what) == io_main = "running" /\ io # <<>> /\ Head(io).what = what
Sock            == Head(io).sock

\* Mutants: last_used_ is not moved on; it is not wrapped.
NextListener_Stays   == IF last_used < 0 THEN 0 ELSE last_used
NextListener_NoWrap  == last_used + 1

\* get_next_listener()
NextListener ==
  IF last_used < 0 THEN 0 ELSE IF last_used + 1 < NumThreads THEN last_used + 1 ELSE 0

\* schedule() finds the queue of w; the search may miss when it overlaps an insertion.
MayFind(w) == w \in queues_index
MayMiss(w) == w \notin queues_index \/ Pool!Inserting # {}

\* Mutants: an exception of the service leaves the socket open; the port goes on accepting.
Refuse_KeepsSocket == UNCHANGED <<poolvars, armed, closed>>
Refuse_AcceptsAgain ==
  /\ closed' = closed \cup {Sock} /\ armed' = armed \cup {Head(io).port}
  /\ UNCHANGED poolvars

\* handle_accept() catches the exception of schedule(): it closes the socket and does
\* not accept again.
Refuse == closed' = closed \cup {Sock} /\ UNCHANGED <<poolvars, armed>>

\* handle_accept(): the service posts the socket to the worker whose turn it is.
HandleAccept ==
  LET w == NextListener + 1
  IN  /\ Completes("accept")
      /\ io' = Tail(io)
      /\ last_used' = NextListener
      /\ offered' = [offered EXCEPT ![w] = @ + 1]
      /\ \/ /\ MayFind(w)
            /\ Pool!Schedule(<<Sock, "accept">>, w)
            /\ armed' = armed \cup {Head(io).port}
            /\ UNCHANGED closed
         \/ MayMiss(w) /\ Refuse
      /\ UNCHANGED <<io_main, reading, stops, stopped>>

\* handle_accept() with an error does nothing, which ends the accepts of the port.
HandleAcceptError ==
  /\ Completes("error")
  /\ io' = Tail(io)
  /\ UNCHANGED <<poolvars, io_main, corevars>>

\* Mutant: the completion is posted to the worker whose turn it is.
HomeWorker_NextInTurn(s) == NextListener + 1

\* worker_id_ of the connection: the thread that made it.
HomeWorker(s) == CHOOSE w \in Worker : <<s, "accept">> \in Range(ran[w])

\* asio_handler_dispatcher posts the completion to the worker of the connection.  When
\* schedule() throws, nothing catches it before run().
HandleRead ==
  LET w == HomeWorker(Sock)
  IN  /\ Completes("read")
      /\ io' = Tail(io)
      /\ \/ MayFind(w) /\ Pool!Schedule(<<Sock, "read">>, w) /\ UNCHANGED io_main
         \/ MayMiss(w) /\ io_main' = "returned" /\ UNCHANGED poolvars
      /\ UNCHANGED corevars

\* stop() on the main thread: threadpool_->stop() comes first; it returns at once when it
\* has nothing to do.
HandleStop ==
  /\ Completes("stop")
  /\ io' = Tail(io)
  /\ io_main' = "stopping"
  /\ IF threads = <<>> THEN UNCHANGED poolvars ELSE Pool!StopBegin
  /\ UNCHANGED corevars

StopsPool ==
  /\ io_main = "stopping"
  /\ Pool!StopThread \/ Pool!Join
  /\ UNCHANGED <<io_main, io, corevars>>

\* An exception of threadpool_->stop() leaves run() as well.
StopThrows ==
  /\ io_main = "stopping"
  /\ Pool!StopThreadThrows /\ ~terminated'
  /\ io_main' = "returned"
  /\ UNCHANGED <<io, corevars>>

\* Mutant: stop() takes an early return of the pool for one that has not ended.
PoolStopped_NoThreadLeft == threads = <<>>

PoolStopped == Pool!Idle

\* The accepts that are outstanding are cancelled, which completes them with an error.
CancelAccepts ==
  /\ \E ports \in SetToSeqs(armed) :
        io' = io \o [i \in 1 .. Len(ports) |-> AcceptError(ports[i])]
  /\ armed' = {}

\* The rest of stop().  The first one forgets the acceptors, so that another cancels none.
\* ios.stop() is undone by ios.reset() before run() looks.
StopEnds ==
  /\ io_main = "stopping"
  /\ PoolStopped
  /\ IF stopped THEN UNCHANGED <<io, armed>> ELSE CancelAccepts
  /\ stopped' = TRUE
  /\ io_main' = "running"
  /\ UNCHANGED <<poolvars, reading, closed, last_used, offered, stops>>

\* run() returns when nothing is outstanding.
RunReturns ==
  /\ io_main = "running"
  /\ io = <<>> /\ armed = {} /\ reading = {}
  /\ io_main' = "returned"
  /\ UNCHANGED <<poolvars, io, corevars>>

\* main() returns and the destructor of the core deletes the pool.
Destroy ==
  /\ io_main = "returned"
  /\ io_main' = "destroying"
  /\ IF threads = <<>> THEN UNCHANGED poolvars ELSE Pool!StopBegin
  /\ UNCHANGED <<io, corevars>>

DestroysPool ==
  /\ io_main = "destroying"
  /\ \/ (Pool!StopThread \/ Pool!Join) /\ UNCHANGED io_main
     \/ Pool!StopThreadThrows /\ terminated' /\ UNCHANGED io_main
     \/ Pool!Idle /\ io_main' = "exited" /\ UNCHANGED poolvars
  /\ UNCHANGED <<io, corevars>>

-----------------------------------------------------------------------------
MainStep == \/ HandleAccept \/ HandleAcceptError \/ HandleRead \/ HandleStop
            \/ StopsPool \/ StopThrows \/ StopEnds
            \/ RunReturns \/ Destroy \/ DestroysPool

Next ==
  /\ ~terminated
  /\ \/ MainStep
     \/ \E w \in Worker : Work(w)
     \/ \E p \in Port : AcceptFails(p) \/ \E s \in Socket : Connect(p, s)
     \/ \E s \in Socket : ReadCompletes(s)
     \/ PostStop

\* Threads that can run do, and tasks return.  Nothing is assumed of the clients.
Fairness == /\ WF_vars(~terminated /\ MainStep)
            /\ \A w \in Worker : WF_vars(~terminated /\ Work(w) /\ Pool!WorkerStep(w))

Spec == Init /\ [][Next]_vars /\ Fairness

-----------------------------------------------------------------------------
(* Properties *)

Completion == {Accepted(p, s) : p \in Port, s \in Socket} \cup {AcceptError(p) : p \in Port}
              \cup {ReadDone(s) : s \in Socket} \cup {StopCall}

\* The type of every variable (snode_core.h:29-34).
TypeOK ==
  /\ Pool!TypeOK
  /\ io_main \in {"running", "stopping", "returned", "destroying", "exited"}
  /\ io \in Seq(Completion)
  /\ armed \in SUBSET Port /\ reading \in SUBSET Socket /\ closed \in SUBSET Socket
  /\ last_used \in -1 .. NumThreads - 1
  /\ offered \in [Worker -> Nat]
  /\ stops \in 0 .. MaxStops /\ stopped \in BOOLEAN

\* The sockets are shared out evenly, whatever becomes of each (get_next_listener).
SharedOutEvenly == \A v, w \in Worker : offered[v] - offered[w] \in {-1, 0, 1}

\* All tasks of a connection run on the worker that made it, which is what the buffers
\* without locks rely on (http_service.cpp:209, handler_allocator.h:77).
OneWorkerPerConnection ==
  \A s \in Socket, v, w \in Worker :
    (/\ <<s, "accept">> \in Range(ran[v] \o queue[v])
     /\ <<s, "read">> \in Range(ran[w] \o queue[w])) => v = w

\* Once a stop has ended all threads of the pool nothing reaches a worker, although run()
\* goes on (snode_core.cpp:41-50).
NoWorkAfterStop ==
  [][stopped /\ threads = <<>> => queue' = queue /\ ran' = ran /\ armed' \subseteq armed]_vars

\* The main thread uses the pool as ThreadPool.tla says that it is used: it neither
\* schedules nor stops in the middle of a stop (snode_core.cpp:35-39).
UsesPool == Pool!Init /\ [][Pool!Next]_poolvars

\* Whatever accepts, reads, refusals and posted stops do, every worker runs what it was posted
\* in that order, each task once, and nothing after the one poison that ends it: no stop() begins
\* inside another (snode_core.cpp:35-39, handler_allocator.h:77).
ServesMailboxes == Pool!MailboxSpec

\* Every stop that was posted comes to its end, also one posted while another runs, unless run()
\* is left or the process dies (snode_core.cpp:32-51).
StopEndsAtLast ==
  (stops > 0) ~> \/ stopped /\ StopCall \notin Range(io) /\ io_main = "running"
                 \/ ~InRun \/ terminated

\* A socket that was accepted is handed to its worker's code or closed, unless the server
\* is stopped or its run() left meanwhile (handle_accept, http_listener::do_accept).
AcceptedIsServed ==
  \A s \in Socket :
    InIo(s) ~> \/ \E w \in Worker : <<s, "accept">> \in Range(ran[w])
               \/ s \in closed \/ io_main # "running" \/ stopped \/ terminated

\* snode_core.h:52: stop() is to "stop server engine": once the pool has been stopped run()
\* returns.
StopEndsRun == (stopped /\ threads = <<>>) ~> (~InRun \/ terminated)
=============================================================================
