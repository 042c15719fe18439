----------------------------- MODULE SnodeCoreProofs -----------------------------
(***************************************************************************)
(* The server core for any number of workers, ports, sockets and stops:    *)
(* it uses the pool as ThreadPool describes it, so that what is proved of  *)
(* the pool holds under it, it shares the sockets out evenly, and it keeps *)
(* each connection on one worker.                                          *)
(***************************************************************************)
EXTENDS SnodeCore, FiniteSetTheorems, SequenceTheorems, TLAPS

\* The main thread is not inside threadpool::stop() when it runs a completion.
MainIdle == io_main = "running" => Pool!Idle

\* The worker whose turn it is exists, and completions are what asio can deliver.
Turns == /\ last_used \in -1 .. NumThreads - 1
         /\ queues_index \subseteq Worker
         /\ armed \subseteq Port
         /\ io \in Seq(Completion)

CoreInv == MainIdle /\ Turns

LEMMA WorkerIs == Worker = 1 .. NumThreads
BY DEF Worker, Pool!Worker

LEMMA NextIsWorker ==
  ASSUME Turns
  PROVE  NextListener \in 0 .. NumThreads - 1 /\ NextListener + 1 \in Worker
BY WorkerIs, CoreAssumption DEF Turns, NextListener

LEMMA CompletionAt ==
  ASSUME Turns, NEW what, Completes(what)
  PROVE  /\ Head(io) \in Completion /\ Tail(io) \in Seq(Completion)
         /\ what = "accept" => Sock \in Socket /\ Head(io).port \in Port
         /\ what = "read" => Sock \in Socket
<1>1. Head(io) \in Completion /\ Tail(io) \in Seq(Completion)
  BY DEF Turns, Completes
<1> QED
  BY <1>1 DEF Completion, Completes, Sock, Accepted, AcceptError, ReadDone, StopCall

\* The accepts that stop() cancels complete with an error, in some order.
LEMMA CancelledAreCompletions ==
  ASSUME Turns, NEW ports \in SetToSeqs(armed)
  PROVE  io \o [i \in 1 .. Len(ports) |-> AcceptError(ports[i])] \in Seq(Completion)
<1>1. Cardinality(armed) \in Nat
  BY CoreAssumption, FS_Subset, FS_CardinalityType DEF Turns
<1>2. ports \in [1 .. Cardinality(armed) -> Port]
  BY DEF SetToSeqs, Turns
<1>3. Len(ports) \in Nat /\ DOMAIN ports = 1 .. Len(ports)
  <2>1. ports \in Seq(Port)
    BY <1>1, <1>2
  <2> QED BY <2>1
<1>4. [i \in 1 .. Len(ports) |-> AcceptError(ports[i])] \in Seq(Completion)
  <2>1. \A p \in Port : AcceptError(p) \in Completion
    BY DEF Completion
  <2>2. \A i \in 1 .. Len(ports) : ports[i] \in Port
    BY <1>1, <1>2, <1>3
  <2> QED BY <2>1, <2>2, <1>3
<1> QED BY <1>4 DEF Turns

\* What the workers and the clients do changes neither the main thread nor the turn.
LEMMA WorkUsesPool ==
  ASSUME CoreInv, ~terminated, NEW w \in Worker, Work(w)
  PROVE  CoreInv' /\ Pool!Next
<1>1. Pool!WorkerStep(w) \/ Pool!SpuriousWake(w) \/ Pool!TaskThrows(w)
  BY DEF Work, Pool!WorkerStep
<1>2. Pool!Next
  BY <1>1 DEF Pool!Next, Worker
<1>3. main' = main /\ queues_index' \subseteq Worker
  BY <1>1 DEF Pool!WorkerStep, Pool!SpuriousWake, Pool!TaskThrows, Pool!InsertReads,
     Pool!InsertWrites, Pool!Wait, Pool!Dequeue, Pool!Finish, CoreInv, Turns
<1> QED BY <1>2, <1>3 DEF Work, CoreInv, Turns, MainIdle, Pool!Idle

LEMMA ScheduleUsesPool ==
  ASSUME CoreInv, ~terminated, io_main = "running", NEW s \in Socket,
         NEW step \in {"accept", "read"}, NEW w \in Worker, Pool!Schedule(<<s, step>>, w)
  PROVE  Pool!Next /\ main' = main /\ queues_index' = queues_index
<1>1. Pool!MainSchedules(<<s, step>>, w)
  BY DEF Pool!MainSchedules, CoreInv, MainIdle
<1>2. Pool!Next
  BY <1>1 DEF Pool!Next, Worker
<1> QED BY <1>2 DEF Pool!Schedule

LEMMA StopUsesPool ==
  ASSUME ~terminated, Pool!StopBegin \/ Pool!StopThread \/ Pool!StopThreadThrows \/ Pool!Join
  PROVE  /\ Pool!Next
         /\ queues_index' \subseteq queues_index
BY DEF Pool!Next, Pool!StopStep, Pool!StopBegin, Pool!StopThread, Pool!StopThreadThrows,
   Pool!Join, Pool!Enqueue

LEMMA CoreStep == CoreInv /\ [Next]_vars => CoreInv' /\ [Pool!Next]_poolvars
<1> SUFFICES ASSUME CoreInv, [Next]_vars PROVE CoreInv' /\ [Pool!Next]_poolvars
  OBVIOUS
<1> USE DEF CoreInv, Turns, MainIdle
<1>1. CASE UNCHANGED vars
  BY <1>1 DEF vars, corevars, poolvars, Pool!Idle
<1>2. ASSUME ~terminated, NEW w \in Worker, Work(w) PROVE CoreInv' /\ [Pool!Next]_poolvars
  BY <1>2, WorkUsesPool
<1>3. ASSUME NEW p \in Port, NEW s \in Socket, Connect(p, s) PROVE CoreInv' /\ [Pool!Next]_poolvars
  <2>1. Accepted(p, s) \in Completion
    BY DEF Completion
  <2> QED BY <1>3, <2>1 DEF Connect, poolvars, Pool!Idle
<1>4. ASSUME NEW p \in Port, AcceptFails(p) PROVE CoreInv' /\ [Pool!Next]_poolvars
  <2>1. AcceptError(p) \in Completion
    BY DEF Completion
  <2> QED BY <1>4, <2>1 DEF AcceptFails, poolvars, Pool!Idle
<1>5. ASSUME NEW s \in Socket, ReadCompletes(s) PROVE CoreInv' /\ [Pool!Next]_poolvars
  <2>1. ReadDone(s) \in Completion
    BY DEF Completion
  <2> QED BY <1>5, <2>1 DEF ReadCompletes, poolvars, Pool!Idle
<1>6. ASSUME PostStop PROVE CoreInv' /\ [Pool!Next]_poolvars
  <2>1. StopCall \in Completion
    BY DEF Completion
  <2> QED BY <1>6, <2>1 DEF PostStop, poolvars, Pool!Idle
<1>7. ASSUME ~terminated, HandleAccept PROVE CoreInv' /\ [Pool!Next]_poolvars
  <2>1. Completes("accept") /\ io_main = "running" /\ io_main' = io_main
    BY <1>7 DEF HandleAccept, Completes
  <2>2. /\ NextListener \in 0 .. NumThreads - 1 /\ NextListener + 1 \in Worker
        /\ Tail(io) \in Seq(Completion) /\ Sock \in Socket /\ Head(io).port \in Port
    BY <2>1, NextIsWorker, CompletionAt
  <2>3. io' \in Seq(Completion) /\ last_used' \in -1 .. NumThreads - 1
    BY <1>7, <2>2, CoreAssumption DEF HandleAccept
  <2>4. CASE Pool!Schedule(<<Sock, "accept">>, NextListener + 1)
                /\ armed' = armed \cup {Head(io).port}
    <3>1. Pool!Next /\ main' = main /\ queues_index' = queues_index
      BY <1>7, <2>1, <2>2, <2>4, ScheduleUsesPool
    <3> QED BY <2>1, <2>2, <2>3, <2>4, <3>1 DEF Pool!Idle
  <2>5. CASE Refuse
    BY <2>1, <2>3, <2>5 DEF Refuse, poolvars, Pool!Idle
  <2> QED BY <1>7, <2>4, <2>5 DEF HandleAccept
<1>8. ASSUME HandleAcceptError PROVE CoreInv' /\ [Pool!Next]_poolvars
  <2>1. Completes("error") /\ Tail(io) \in Seq(Completion)
    BY <1>8, CompletionAt DEF HandleAcceptError
  <2> QED BY <1>8, <2>1 DEF HandleAcceptError, poolvars, corevars, Pool!Idle
<1>9. ASSUME ~terminated, HandleRead PROVE CoreInv' /\ [Pool!Next]_poolvars
  <2>1. Completes("read") /\ io_main = "running"
    BY <1>9 DEF HandleRead, Completes
  <2>2. Tail(io) \in Seq(Completion) /\ Sock \in Socket
    BY <2>1, CompletionAt
  <2>3. io' \in Seq(Completion) /\ last_used' = last_used /\ armed' = armed
    BY <1>9, <2>2 DEF HandleRead, corevars
  <2>4. CASE /\ MayFind(HomeWorker(Sock)) /\ UNCHANGED io_main
             /\ Pool!Schedule(<<Sock, "read">>, HomeWorker(Sock))
    <3>1. HomeWorker(Sock) \in Worker
      BY <2>4 DEF MayFind
    <3>2. Pool!Next /\ main' = main /\ queues_index' = queues_index
      BY <1>9, <2>1, <2>2, <2>4, <3>1, ScheduleUsesPool
    <3> QED BY <2>1, <2>3, <2>4, <3>2 DEF Pool!Idle
  <2>5. CASE io_main' = "returned" /\ UNCHANGED poolvars
    BY <2>3, <2>5 DEF poolvars
  <2> QED BY <1>9, <2>4, <2>5 DEF HandleRead
<1>10. ASSUME ~terminated, HandleStop PROVE CoreInv' /\ [Pool!Next]_poolvars
  <2>1. Completes("stop") /\ Tail(io) \in Seq(Completion)
    BY <1>10, CompletionAt DEF HandleStop
  <2>2. [Pool!Next]_poolvars /\ queues_index' \subseteq Worker
    <3>1. CASE UNCHANGED poolvars
      BY <3>1 DEF poolvars
    <3>2. CASE Pool!StopBegin
      BY <1>10, <3>2, StopUsesPool
    <3> QED BY <1>10, <3>1, <3>2 DEF HandleStop
  <2> QED BY <1>10, <2>1, <2>2 DEF HandleStop, corevars
<1>11. ASSUME ~terminated, StopsPool \/ StopThrows PROVE CoreInv' /\ [Pool!Next]_poolvars
  <2>1. Pool!Next /\ queues_index' \subseteq queues_index
    BY <1>11, StopUsesPool DEF StopsPool, StopThrows
  <2> QED BY <1>11, <2>1 DEF StopsPool, StopThrows, corevars
<1>12. ASSUME StopEnds PROVE CoreInv' /\ [Pool!Next]_poolvars
  <2>1. io' \in Seq(Completion) /\ armed' \subseteq Port
    <3>1. CASE CancelAccepts
      BY <3>1, CancelledAreCompletions DEF CancelAccepts
    <3>2. CASE UNCHANGED <<io, armed>>
      BY <3>2
    <3> QED BY <1>12, <3>1, <3>2 DEF StopEnds
  <2> QED BY <1>12, <2>1 DEF StopEnds, PoolStopped, poolvars, Pool!Idle
<1>13. ASSUME RunReturns PROVE CoreInv' /\ [Pool!Next]_poolvars
  BY <1>13 DEF RunReturns, poolvars, corevars
<1>14. ASSUME ~terminated, Destroy \/ DestroysPool PROVE CoreInv' /\ [Pool!Next]_poolvars
  <2>1. io' = io /\ UNCHANGED corevars /\ io_main' # "running"
    BY <1>14 DEF Destroy, DestroysPool
  <2>2. CASE UNCHANGED poolvars
    BY <2>1, <2>2 DEF corevars, poolvars
  <2>3. CASE Pool!StopBegin \/ Pool!StopThread \/ Pool!StopThreadThrows \/ Pool!Join
    <3>1. Pool!Next /\ queues_index' \subseteq queues_index
      BY <1>14, <2>3, StopUsesPool
    <3> QED BY <2>1, <3>1 DEF corevars
  <2> QED BY <1>14, <2>2, <2>3 DEF Destroy, DestroysPool
<1> QED
  BY <1>1, <1>2, <1>3, <1>4, <1>5, <1>6, <1>7, <1>8, <1>9, <1>10, <1>11, <1>12, <1>13, <1>14
  DEF Next, MainStep

LEMMA CoreInit == Init => CoreInv
BY CoreAssumption DEF Init, CoreInv, MainIdle, Turns, Pool!Init, Pool!Idle

\* The main thread, with everything that other threads, clients and the destructor bring
\* about, uses the pool only in the ways that ThreadPool.tla describes (snode_core.cpp:32-51,
\* 103-131).
THEOREM UsesPoolCorrect == Spec => UsesPool
<1>1. Init => Pool!Init
  BY DEF Init
<1> QED BY <1>1, CoreInit, CoreStep, PTL DEF Spec, UsesPool

-----------------------------------------------------------------------------
\* After n full rounds the workers up to the last one used have had one socket more.
InTurn(n) == offered = [w \in Worker |-> IF w <= last_used + 1 THEN n + 1 ELSE n]
Rounds    == \E n \in Nat : InTurn(n)

LEMMA RoundsInit == Init => Rounds
<1> SUFFICES ASSUME Init PROVE InTurn(0)
  BY DEF Rounds
<1> QED BY WorkerIs, CoreAssumption DEF Init, InTurn

LEMMA RoundsStep == CoreInv /\ Rounds /\ [Next]_vars => Rounds'
<1> SUFFICES ASSUME CoreInv, Rounds, [Next]_vars PROVE Rounds'
  OBVIOUS
<1>1. CASE UNCHANGED <<offered, last_used>>
  BY <1>1 DEF Rounds, InTurn
<1>2. CASE HandleAccept
  <2>1. PICK n \in Nat : InTurn(n)
    BY DEF Rounds
  <2>2. last_used' = NextListener /\ offered' = [offered EXCEPT ![NextListener + 1] = @ + 1]
    BY <1>2 DEF HandleAccept
  <2>3. last_used \in -1 .. NumThreads - 1 /\ NextListener \in 0 .. NumThreads - 1
    BY NextIsWorker DEF CoreInv, Turns
  <2>4. CASE last_used + 1 < NumThreads
    <3>1. NextListener = last_used + 1
      BY <2>3, <2>4 DEF NextListener
    <3>2. InTurn(n)'
      BY <2>1, <2>2, <2>3, <2>4, <3>1, WorkerIs, CoreAssumption, SMTT(40) DEF InTurn
    <3> QED BY <3>2 DEF Rounds
  <2>5. CASE last_used + 1 = NumThreads
    <3>1. NextListener = 0
      BY <2>3, <2>5, CoreAssumption DEF NextListener
    <3>2. InTurn(n + 1)'
      BY <2>1, <2>2, <2>3, <2>5, <3>1, WorkerIs, CoreAssumption, SMTT(40) DEF InTurn
    <3> QED BY <3>2 DEF Rounds
  <2> QED BY <2>3, <2>4, <2>5, CoreAssumption
<1> QED
  BY <1>1, <1>2 DEF Next, MainStep, Work, Connect, AcceptFails, ReadCompletes, PostStop,
     HandleAcceptError, HandleRead, HandleStop, StopsPool, StopThrows, StopEnds, RunReturns,
     Destroy, DestroysPool, corevars, vars

\* get_next_listener() shares the sockets out evenly, whatever errors, refusals and stops
\* come between.
THEOREM SharedOutEvenlyCorrect == Spec => []SharedOutEvenly
<1>1. Rounds => SharedOutEvenly
  BY WorkerIs DEF Rounds, InTurn, SharedOutEvenly
<1> QED BY <1>1, CoreInit, CoreStep, RoundsInit, RoundsStep, PTL DEF Spec

-----------------------------------------------------------------------------
(* What is proved of the pool holds of the pool of the core. *)

PoolProofs == INSTANCE ThreadPoolProofs WITH Task <- Socket \X {"accept", "read"}

\* The pool is the same one, by whatever name.
LEMMA SamePool == [Pool!Next]_poolvars <=> [PoolProofs!Next]_(PoolProofs!vars)
  BY DEF poolvars, Pool!Range, PoolProofs!Range, Pool!Next, PoolProofs!Next, Pool!WorkerStep, PoolProofs!WorkerStep,
     Pool!StopStep, PoolProofs!StopStep, Pool!InsertReads, PoolProofs!InsertReads,
     Pool!InsertWrites, PoolProofs!InsertWrites, Pool!Wait, PoolProofs!Wait,
     Pool!SpuriousWake, PoolProofs!SpuriousWake, Pool!Dequeue, PoolProofs!Dequeue,
     Pool!Finish, PoolProofs!Finish, Pool!TaskThrows, PoolProofs!TaskThrows,
     Pool!MainSchedules, PoolProofs!MainSchedules, Pool!TaskSchedules,
     PoolProofs!TaskSchedules, Pool!Schedule, PoolProofs!Schedule, Pool!IsPosted,
     PoolProofs!IsPosted, Pool!Enqueue, PoolProofs!Enqueue, Pool!Notified,
     PoolProofs!Notified, Pool!AfterStart, PoolProofs!AfterStart, Pool!Inserting,
     PoolProofs!Inserting, Pool!StopBegin, PoolProofs!StopBegin, Pool!StopThread,
     PoolProofs!StopThread, Pool!StopThreadThrows, PoolProofs!StopThreadThrows,
     Pool!Join, PoolProofs!Join, Pool!Joinable, PoolProofs!Joinable, Pool!MoreToJoin,
     PoolProofs!MoreToJoin, Pool!Idle, PoolProofs!Idle, Pool!Worker, PoolProofs!Worker,
     Pool!Op, PoolProofs!Op, Pool!vars, PoolProofs!vars

LEMMA SamePoolTypes ==
  /\ PoolProofs!TypeOK <=> Pool!TypeOK
  /\ Pool!Init <=> PoolProofs!Init
  BY DEF Pool!TypeOK, PoolProofs!TypeOK, Pool!WState, PoolProofs!WState, Pool!MState,
     PoolProofs!MState, Pool!Op, PoolProofs!Op, Pool!Worker, PoolProofs!Worker, Pool!Init,
     PoolProofs!Init

\* The types of the pool go through every step of the core.
LEMMA PoolTyped ==
  /\ Init => PoolProofs!Typed
  /\ CoreInv /\ PoolProofs!Typed /\ [Next]_vars => PoolProofs!Typed'
<1>1. Init => PoolProofs!Typed
  BY PoolProofs!TypedInit, SamePoolTypes, PoisonIsNoTask, CoreAssumption DEF Init
<1>2. PoolProofs!Typed /\ [PoolProofs!Next]_(PoolProofs!vars) => PoolProofs!Typed'
  BY PoolProofs!TypedStep, PoisonIsNoTask, CoreAssumption
<1> QED
  BY <1>1, <1>2, CoreStep, SamePool

LEMMA PoolTypes ==
  ASSUME PoolProofs!Typed
  PROVE  /\ Pool!TypeOK
         /\ queue \in [Worker -> Seq(Pool!Op)] /\ ran \in [Worker -> Seq(Pool!Op)]
         /\ wstate \in [Worker -> Pool!WState]
  BY SamePoolTypes DEF PoolProofs!Typed, Pool!TypeOK, Worker

\* The variables of the core itself.
CoreTypes ==
  /\ io_main \in {"running", "stopping", "returned", "destroying", "exited"}
  /\ reading \in SUBSET Socket /\ closed \in SUBSET Socket
  /\ offered \in [Worker -> Nat]
  /\ stops \in 0 .. MaxStops /\ stopped \in BOOLEAN

LEMMA CoreTypesStep == CoreInv /\ CoreTypes /\ [Next]_vars => CoreTypes'
<1> SUFFICES ASSUME CoreInv, CoreTypes, [Next]_vars PROVE CoreTypes'
  OBVIOUS
<1> USE DEF CoreTypes
<1>1. CASE UNCHANGED vars
  BY <1>1 DEF vars, corevars
<1>2. ASSUME NEW w \in Worker, Work(w) PROVE CoreTypes'
  BY <1>2 DEF Work
<1>3. ASSUME NEW p \in Port, NEW s \in Socket, Connect(p, s) PROVE CoreTypes'
  BY <1>3 DEF Connect
<1>4. ASSUME NEW p \in Port, AcceptFails(p) PROVE CoreTypes'
  BY <1>4 DEF AcceptFails
<1>5. ASSUME NEW s \in Socket, ReadCompletes(s) PROVE CoreTypes'
  BY <1>5 DEF ReadCompletes
<1>6. CASE PostStop
  <2>1. stops' \in 0 .. MaxStops
    BY <1>6, CoreAssumption DEF PostStop
  <2> QED BY <1>6, <2>1 DEF PostStop
<1>7. CASE HandleAccept
  <2>1. Sock \in Socket /\ NextListener + 1 \in Worker
    BY <1>7, CompletionAt, NextIsWorker DEF HandleAccept, CoreInv
  <2>2. offered' \in [Worker -> Nat] /\ closed' \in SUBSET Socket
    BY <1>7, <2>1 DEF HandleAccept, Refuse
  <2> QED BY <1>7, <2>2 DEF HandleAccept
<1>8. CASE HandleAcceptError \/ HandleRead \/ HandleStop \/ StopsPool \/ StopThrows
             \/ RunReturns \/ Destroy \/ DestroysPool
  BY <1>8 DEF HandleAcceptError, HandleRead, HandleStop, StopsPool, StopThrows, RunReturns,
     Destroy, DestroysPool, corevars
<1>9. CASE StopEnds
  BY <1>9 DEF StopEnds
<1> QED
  BY <1>1, <1>2, <1>3, <1>4, <1>5, <1>6, <1>7, <1>8, <1>9 DEF Next, MainStep

TypedInv == CoreInv /\ CoreTypes /\ PoolProofs!Typed

LEMMA TypedInvInit == Init => TypedInv
<1>1. ASSUME Init PROVE CoreTypes
  <2>1. stops \in 0 .. MaxStops
    BY <1>1, CoreAssumption DEF Init
  <2>2. offered \in [Worker -> Nat]
    BY <1>1 DEF Init
  <2>3. stopped \in BOOLEAN
    BY <1>1, Zenon DEF Init
  <2>4. io_main = "running" /\ reading = {} /\ closed = {}
    BY <1>1 DEF Init
  <2> QED
    BY <2>1, <2>2, <2>3, <2>4 DEF CoreTypes
<1> QED
  BY <1>1, CoreInit, PoolTyped DEF TypedInv

LEMMA TypedInvStep == TypedInv /\ [Next]_vars => TypedInv'
  BY CoreStep, CoreTypesStep, PoolTyped DEF TypedInv

\* The type of every variable of the core and of the pool under it, for any number of workers,
\* ports, sockets and stops.
THEOREM TypeCorrect == Spec => []TypeOK
<1>1. TypedInv => TypeOK
  BY PoolTypes DEF TypedInv, CoreInv, Turns, CoreTypes, TypeOK
<1> QED
  BY <1>1, TypedInvInit, TypedInvStep, PTL DEF Spec

-----------------------------------------------------------------------------
(* One worker for each connection *)

\* Worker w has the task t, run or not.
Has(t, w) == t \in Range(ran[w]) \/ t \in Range(queue[w])

ConnTask == Socket \X {"accept", "read"}

\* The read of an accepted connection is started by its first task, which only one worker gets;
\* the completion finds that worker.
Home ==
  /\ \A w \in Worker : wstate[w] = "running" => ran[w] # <<>>
  /\ \A s \in Socket, v, w \in Worker : Has(<<s, "accept">>, v) /\ Has(<<s, "accept">>, w) => v = w
  /\ \A s \in Socket :
       s \in reading \/ (\E i \in 1 .. Len(io) : io[i] = ReadDone(s)) =>
         \E w \in Worker : <<s, "accept">> \in Range(ran[w])
  /\ \A s \in Socket, w \in Worker : Has(<<s, "read">>, w) => <<s, "accept">> \in Range(ran[w])

\* What a step of the pool that posts no task may do to the tasks.
Keeps ==
  \A w \in Worker :
    /\ \A t \in ConnTask : /\ t \in Range(ran[w]) => t \in Range(ran'[w])
                           /\ (Has(t, w))' => Has(t, w)
    /\ wstate'[w] = "running" => ran'[w] # <<>>

LEMMA RangeOfAppend ==
  ASSUME NEW S, NEW s \in Seq(S), NEW e \in S
  PROVE  Range(Append(s, e)) = Range(s) \cup {e}
<1>1. \A x : PoolProofs!Range(x) = Range(x)
  BY DEF PoolProofs!Range, Range
<1>2. PoolProofs!Range(Append(s, e)) = PoolProofs!Range(s) \cup {e}
  BY PoolProofs!RangeOfAppend, PoisonIsNoTask, CoreAssumption
<1> QED
  BY <1>1, <1>2

LEMMA RangeOfTail ==
  ASSUME NEW S, NEW s \in Seq(S), s # <<>>
  PROVE  Range(Tail(s)) \subseteq Range(s) /\ Head(s) \in Range(s)
<1>1. /\ Tail(s) \in Seq(S) /\ Len(Tail(s)) = Len(s) - 1 /\ Len(s) \in Nat \ {0}
      /\ \A i \in 1 .. Len(Tail(s)) : Tail(s)[i] = s[i + 1]
      /\ Head(s) = s[1]
  BY HeadTailProperties, EmptySeq
<1>2. Range(s) = {s[i] : i \in 1 .. Len(s)} /\ Range(Tail(s)) = {Tail(s)[i] : i \in 1 .. Len(Tail(s))}
  BY <1>1, RangeEquality
<1>3. \A i \in 1 .. Len(Tail(s)) : i + 1 \in 1 .. Len(s)
  BY <1>1
<1>4. 1 \in 1 .. Len(s)
  BY <1>1
<1> QED
  BY <1>1, <1>2, <1>3, <1>4

LEMMA SameTasksKeep ==
  ASSUME Home, UNCHANGED <<ran, queue>>,
         \A w \in Worker : wstate'[w] = "running" => wstate[w] = "running"
  PROVE  Keeps
  BY DEF Keeps, Has, Home

LEMMA EnqueueKeeps ==
  ASSUME PoolProofs!Typed, Home, NEW w \in Worker, NEW op \in Pool!Op, Pool!Enqueue(w, op),
         UNCHANGED ran
  PROVE  /\ \A v \in Worker : wstate'[v] = "running" => ran'[v] # <<>>
         /\ \A t : t # op => \A v \in Worker : (Has(t, v))' => Has(t, v)
         /\ \A v \in Worker : (Has(op, v))' => Has(op, v) \/ v = w
         /\ Has(op, w)'
<1>1. queue \in [Worker -> Seq(Pool!Op)] /\ wstate \in [Worker -> Pool!WState]
  BY PoolTypes
<1>2. \A v \in Worker : queue'[v] = IF v = w THEN Append(queue[w], op) ELSE queue[v]
  BY <1>1 DEF Pool!Enqueue
<1>3. \A v \in Worker : wstate'[v] = "running" => wstate[v] = "running"
  BY <1>1 DEF Pool!Enqueue, Pool!Notified
<1>4. Range(Append(queue[w], op)) = Range(queue[w]) \cup {op}
  BY <1>1, RangeOfAppend
<1>5. \A v \in Worker : wstate'[v] = "running" => ran'[v] # <<>>
  BY <1>3 DEF Home
<1>6. \A t, v : v \in Worker => (t \in Range(queue'[v]) <=> t \in Range(queue[v]) \/ (v = w /\ t = op))
  BY <1>2, <1>4
<1> QED
  BY <1>5, <1>6 DEF Has

\* The steps of the pool that post no task.
LEMMA PoolKeeps ==
  ASSUME PoolProofs!Typed, Home, NEW w \in Worker,
         \/ Pool!InsertReads(w) \/ Pool!InsertWrites(w) \/ Pool!Wait(w) \/ Pool!SpuriousWake(w)
         \/ Pool!Dequeue(w) \/ Pool!TaskThrows(w) \/ Pool!Finish(w)
  PROVE  Keeps
<1>1. /\ queue \in [Worker -> Seq(Pool!Op)] /\ ran \in [Worker -> Seq(Pool!Op)]
      /\ wstate \in [Worker -> Pool!WState]
  BY PoolTypes
<1>2. CASE Pool!InsertReads(w) \/ Pool!InsertWrites(w) \/ Pool!Wait(w) \/ Pool!SpuriousWake(w)
             \/ Pool!TaskThrows(w) \/ Pool!Finish(w)
  <2>1. UNCHANGED <<ran, queue>>
    BY <1>2 DEF Pool!InsertReads, Pool!InsertWrites, Pool!Wait, Pool!SpuriousWake,
       Pool!TaskThrows, Pool!Finish
  <2>2. \A v \in Worker : wstate'[v] = "running" => wstate[v] = "running"
    BY <1>1, <1>2 DEF Pool!InsertReads, Pool!InsertWrites, Pool!Wait, Pool!SpuriousWake,
       Pool!TaskThrows, Pool!Finish
  <2> QED
    BY <2>1, <2>2, SameTasksKeep
<1>3. CASE Pool!Dequeue(w)
  <2>1. /\ queue[w] \in Seq(Pool!Op) /\ ran[w] \in Seq(Pool!Op) /\ queue[w] # <<>>
        /\ Head(queue[w]) \in Pool!Op
    BY <1>1, <1>3, HeadTailProperties DEF Pool!Dequeue
  <2>2. \A v \in Worker :
          /\ queue'[v] = IF v = w THEN Tail(queue[w]) ELSE queue[v]
          /\ ran'[v] = IF v = w THEN Append(ran[w], Head(queue[w])) ELSE ran[v]
          /\ v # w => wstate'[v] = wstate[v]
    BY <1>1, <1>3 DEF Pool!Dequeue
  <2>3. /\ Range(Append(ran[w], Head(queue[w]))) = Range(ran[w]) \cup {Head(queue[w])}
        /\ Range(Tail(queue[w])) \subseteq Range(queue[w])
        /\ Head(queue[w]) \in Range(queue[w])
    BY <2>1, RangeOfAppend, RangeOfTail
  <2>4. Append(ran[w], Head(queue[w])) # <<>>
    BY <2>1, AppendProperties
  <2>5. ASSUME NEW v \in Worker, NEW t \in ConnTask
        PROVE  /\ t \in Range(ran[v]) => t \in Range(ran'[v])
               /\ (Has(t, v))' => Has(t, v)
    <3>1. CASE v = w
      BY <2>2, <2>3, <3>1 DEF Has
    <3>2. CASE v # w
      BY <2>2, <3>2 DEF Has
    <3> QED
      BY <3>1, <3>2
  <2>6. ASSUME NEW v \in Worker, wstate'[v] = "running"
        PROVE  ran'[v] # <<>>
    <3>1. CASE v = w
      BY <2>2, <2>4, <3>1
    <3>2. CASE v # w
      BY <2>2, <2>6, <3>2 DEF Home
    <3> QED
      BY <3>1, <3>2
  <2> QED
    BY <2>5, <2>6 DEF Keeps
<1> QED
  BY <1>2, <1>3

LEMMA StopKeeps ==
  ASSUME PoolProofs!Typed, Home,
         Pool!StopBegin \/ Pool!StopThread \/ Pool!StopThreadThrows \/ Pool!Join
  PROVE  Keeps
<1>1. CASE Pool!StopBegin \/ Pool!StopThreadThrows \/ Pool!Join
  BY <1>1, SameTasksKeep DEF Pool!StopBegin, Pool!StopThreadThrows, Pool!Join
<1>2. CASE Pool!StopThread
  <2>1. threads[joining] \in Worker
    BY <1>2, PoolTypes DEF Pool!StopThread, Pool!TypeOK, Worker
  <2>2. Pool!Enqueue(threads[joining], Poison) /\ UNCHANGED ran /\ Poison \in Pool!Op
    BY <1>2 DEF Pool!StopThread, Pool!Op
  <2>3. \A t \in ConnTask : t # Poison
    BY PoisonIsNoTask DEF ConnTask
  <2> QED
    BY <2>1, <2>2, <2>3, EnqueueKeeps DEF Keeps
<1> QED
  BY <1>1, <1>2

\* A read of s has completed and waits for the main thread.
Completed(s) == \E i \in 1 .. Len(io) : io[i] = ReadDone(s)

Made(s) == \E w \in Worker : <<s, "accept">> \in Range(ran[w])

LEMMA ReadsInAppend ==
  ASSUME Turns, NEW c \in Completion, io' = Append(io, c), NEW s, Completed(s)'
  PROVE  Completed(s) \/ c = ReadDone(s)
<1>1. /\ Len(io) \in Nat /\ Len(io') = Len(io) + 1 /\ io'[Len(io) + 1] = c
      /\ \A i \in 1 .. Len(io) : io'[i] = io[i]
  BY AppendProperties, LenProperties DEF Turns
<1>2. PICK i \in 1 .. Len(io') : io'[i] = ReadDone(s)
  BY DEF Completed, ReadDone
<1>3. i \in 1 .. Len(io) \/ i = Len(io) + 1
  BY <1>1
<1> QED
  BY <1>1, <1>2, <1>3 DEF Completed

LEMMA ReadsInTail ==
  ASSUME Turns, io # <<>>, io' = Tail(io), NEW s, Completed(s)'
  PROVE  Completed(s)
<1>1. /\ Len(Tail(io)) = Len(io) - 1 /\ Len(io) \in Nat
      /\ \A i \in 1 .. Len(Tail(io)) : Tail(io)[i] = io[i + 1]
  BY HeadTailProperties, LenProperties DEF Turns
<1>2. PICK i \in 1 .. Len(Tail(io)) : Tail(io)[i] = ReadDone(s)
  BY DEF Completed, ReadDone
<1>3. i + 1 \in 1 .. Len(io)
  BY <1>1
<1> QED
  BY <1>1, <1>2, <1>3 DEF Completed

\* No task is posted and no read comes from nowhere.
LEMMA KeepsHome ==
  ASSUME Home, Keeps,
         \A s \in Socket : s \in reading' \/ Completed(s)' => s \in reading \/ Completed(s) \/ Made(s)
  PROVE  Home'
<1>1. \A s \in Socket : Made(s) => Made(s)'
  BY DEF Made, Keeps, ConnTask
<1>2. \A s \in Socket : s \in reading \/ Completed(s) => Made(s)
  BY DEF Home, Made, Completed
<1>3. \A s \in Socket : s \in reading' \/ Completed(s)' => Made(s)'
  BY <1>1, <1>2
<1>4. \A w \in Worker : wstate'[w] = "running" => ran'[w] # <<>>
  BY DEF Keeps
<1>5. \A s \in Socket, v, w \in Worker :
        (Has(<<s, "accept">>, v))' /\ (Has(<<s, "accept">>, w))' => v = w
  BY DEF Keeps, ConnTask, Home
<1>6. \A s \in Socket, w \in Worker :
        (Has(<<s, "read">>, w))' => <<s, "accept">> \in Range(ran'[w])
  BY DEF Keeps, ConnTask, Home
<1> QED
  BY <1>3, <1>4, <1>5, <1>6 DEF Home, Made, Completed

\* schedule() puts a task of a connection on the worker that made it, or a first one on any.
LEMMA PostsHome ==
  ASSUME PoolProofs!Typed, Home, NEW s \in Socket, NEW w \in Worker,
         \/ Pool!Schedule(<<s, "accept">>, w)
         \/ Pool!Schedule(<<s, "read">>, w) /\ <<s, "accept">> \in Range(ran[w]),
         \A u \in Socket : u \in reading' \/ Completed(u)' => u \in reading \/ Completed(u)
  PROVE  Home'
<1>1. PICK step \in {"accept", "read"} :
        /\ Pool!Schedule(<<s, step>>, w)
        /\ step = "read" => <<s, "accept">> \in Range(ran[w])
  OBVIOUS
<1>2. <<s, step>> \in Pool!Op /\ Pool!Enqueue(w, <<s, step>>) /\ ran' = ran
  BY <1>1 DEF Pool!Schedule, Pool!Op
<1>3. \A v \in Worker : ~Has(<<s, step>>, v)
  <2>1. \A x : Pool!Range(x) = Range(x)
    BY DEF Pool!Range, Range
  <2> QED
    BY <1>1, <2>1 DEF Pool!Schedule, Pool!IsPosted, Has, Worker
<1>4. /\ \A v \in Worker : wstate'[v] = "running" => ran'[v] # <<>>
      /\ \A t : t # <<s, step>> => \A v \in Worker : (Has(t, v))' => Has(t, v)
      /\ \A v \in Worker : (Has(<<s, step>>, v))' => v = w
  BY <1>2, <1>3, EnqueueKeeps
<1>5. \A u \in Socket, v, x \in Worker :
        (Has(<<u, "accept">>, v))' /\ (Has(<<u, "accept">>, x))' => v = x
  BY <1>4 DEF Home
<1>6. \A u \in Socket, v \in Worker :
        (Has(<<u, "read">>, v))' => <<u, "accept">> \in Range(ran'[v])
  <2> SUFFICES ASSUME NEW u \in Socket, NEW v \in Worker, (Has(<<u, "read">>, v))'
               PROVE  <<u, "accept">> \in Range(ran[v])
    BY <1>2
  <2>1. CASE <<u, "read">> # <<s, step>>
    BY <1>4, <2>1 DEF Home
  <2>2. CASE <<u, "read">> = <<s, step>>
    BY <1>1, <1>4, <2>2
  <2> QED
    BY <2>1, <2>2
<1>7. \A u \in Socket : u \in reading' \/ Completed(u)' => Made(u)'
  BY <1>2 DEF Home, Made, Completed
<1> QED
  BY <1>4, <1>5, <1>6, <1>7 DEF Home, Made, Completed

LEMMA HomeStep == TypedInv /\ Home /\ [Next]_vars => Home'
<1> SUFFICES ASSUME TypedInv, Home, [Next]_vars PROVE Home'
  OBVIOUS
<1>0. Turns /\ PoolProofs!Typed /\ ran \in [Worker -> Seq(Pool!Op)]
  BY PoolTypes DEF TypedInv, CoreInv
<1>1. ASSUME UNCHANGED poolvars PROVE Keeps
  BY <1>1, SameTasksKeep DEF poolvars
<1>2. CASE UNCHANGED vars
  BY <1>1, <1>2, KeepsHome DEF vars, corevars, Completed
<1>3. ASSUME NEW w \in Worker, Work(w) PROVE Home'
  <2>1. Keeps
    BY <1>0, <1>3, PoolKeeps DEF Work
  <2>2. io' = io
    BY <1>3 DEF Work
  <2>3. \A s \in Socket : s \in reading' => s \in reading \/ Made(s)
    <3>1. CASE UNCHANGED reading
      BY <3>1
    <3>2. CASE /\ Pool!Finish(w)
               /\ reading' = reading \cup {s \in Socket : Last(ran[w]) = <<s, "accept">>}
      <4>1. ran[w] \in Seq(Pool!Op) /\ ran[w] # <<>>
        BY <1>0, <3>2 DEF Pool!Finish, Home
      <4>2. Range(ran[w]) = {ran[w][i] : i \in 1 .. Len(ran[w])} /\ Len(ran[w]) \in 1 .. Len(ran[w])
        BY <4>1, RangeEquality, EmptySeq
      <4>3. Last(ran[w]) \in Range(ran[w])
        BY <4>2 DEF Last
      <4> QED
        BY <3>2, <4>3 DEF Made
    <3> QED
      BY <1>3, <3>1, <3>2 DEF Work
  <2> QED
    BY <2>1, <2>2, <2>3, KeepsHome DEF Completed
<1>4. ASSUME NEW p \in Port, NEW s \in Socket, Connect(p, s) PROVE Home'
  <2>1. Accepted(p, s) \in Completion /\ \A u : Accepted(p, s) # ReadDone(u)
    BY DEF Completion, Accepted, ReadDone
  <2> QED
    BY <1>0, <1>1, <1>4, <2>1, ReadsInAppend, KeepsHome DEF Connect
<1>5. ASSUME NEW p \in Port, AcceptFails(p) PROVE Home'
  <2>1. AcceptError(p) \in Completion /\ \A u : AcceptError(p) # ReadDone(u)
    BY DEF Completion, AcceptError, ReadDone
  <2> QED
    BY <1>0, <1>1, <1>5, <2>1, ReadsInAppend, KeepsHome DEF AcceptFails
<1>6. ASSUME NEW s \in Socket, ReadCompletes(s) PROVE Home'
  <2>1. ReadDone(s) \in Completion /\ \A u : ReadDone(s) = ReadDone(u) => s = u
    BY DEF Completion, ReadDone
  <2>2. io' = Append(io, ReadDone(s)) /\ s \in reading /\ reading' = reading \ {s}
    BY <1>6 DEF ReadCompletes
  <2> QED
    BY <1>0, <1>1, <1>6, <2>1, <2>2, ReadsInAppend, KeepsHome DEF ReadCompletes
<1>7. CASE PostStop
  <2>1. StopCall \in Completion /\ \A u : StopCall # ReadDone(u)
    BY DEF Completion, StopCall, ReadDone
  <2> QED
    BY <1>0, <1>1, <1>7, <2>1, ReadsInAppend, KeepsHome DEF PostStop
<1>8. CASE HandleAccept
  <2>1. /\ Sock \in Socket /\ NextListener + 1 \in Worker
        /\ io # <<>> /\ io' = Tail(io) /\ reading' = reading
    BY <1>0, <1>8, CompletionAt, NextIsWorker DEF HandleAccept, Completes
  <2>2. \A u \in Socket : u \in reading' \/ Completed(u)' => u \in reading \/ Completed(u)
    BY <1>0, <2>1, ReadsInTail
  <2>3. CASE Pool!Schedule(<<Sock, "accept">>, NextListener + 1)
    BY <1>0, <2>1, <2>2, <2>3, PostsHome
  <2>4. CASE UNCHANGED poolvars
    BY <1>1, <2>2, <2>4, KeepsHome
  <2> QED
    BY <1>8, <2>3, <2>4 DEF HandleAccept, Refuse
<1>9. CASE HandleRead
  <2>1. Sock \in Socket /\ io # <<>> /\ io' = Tail(io) /\ reading' = reading
    BY <1>0, <1>9, CompletionAt DEF HandleRead, Completes, corevars
  <2>2. \A u \in Socket : u \in reading' \/ Completed(u)' => u \in reading \/ Completed(u)
    BY <1>0, <2>1, ReadsInTail
  <2>3. CASE Pool!Schedule(<<Sock, "read">>, HomeWorker(Sock))
    <3>1. Completed(Sock)
      <4>1. Head(io) \in Completion /\ Head(io).what = "read" /\ Head(io).sock = Sock
        BY <1>0, <1>9, CompletionAt DEF HandleRead, Completes, Sock
      <4>2. Head(io) = ReadDone(Sock)
        BY <4>1 DEF Completion, Accepted, AcceptError, ReadDone, StopCall
      <4>3. Head(io) = io[1] /\ 1 \in 1 .. Len(io)
        BY <1>0, <2>1, EmptySeq DEF Turns
      <4> QED
        BY <4>2, <4>3 DEF Completed
    <3>2. \E w \in Worker : <<Sock, "accept">> \in Range(ran[w])
      BY <2>1, <3>1 DEF Home, Completed
    <3>3. HomeWorker(Sock) \in Worker /\ <<Sock, "accept">> \in Range(ran[HomeWorker(Sock)])
      BY <3>2 DEF HomeWorker
    <3> QED
      BY <1>0, <2>1, <2>2, <2>3, <3>3, PostsHome
  <2>4. CASE UNCHANGED poolvars
    BY <1>1, <2>2, <2>4, KeepsHome
  <2> QED
    BY <1>9, <2>3, <2>4 DEF HandleRead
<1>10. CASE HandleAcceptError \/ HandleStop
  <2>1. io # <<>> /\ io' = Tail(io) /\ reading' = reading
    BY <1>10 DEF HandleAcceptError, HandleStop, Completes, corevars
  <2>2. Keeps
    BY <1>0, <1>1, <1>10, StopKeeps DEF HandleAcceptError, HandleStop
  <2> QED
    BY <1>0, <2>1, <2>2, ReadsInTail, KeepsHome
<1>11. CASE StopsPool \/ StopThrows \/ RunReturns \/ Destroy \/ DestroysPool
  <2>1. io' = io /\ reading' = reading
    BY <1>11 DEF StopsPool, StopThrows, RunReturns, Destroy, DestroysPool, corevars
  <2>2. Keeps
    BY <1>0, <1>1, <1>11, StopKeeps DEF StopsPool, StopThrows, RunReturns, Destroy, DestroysPool
  <2> QED
    BY <2>1, <2>2, KeepsHome DEF Completed
<1>12. CASE StopEnds /\ UNCHANGED <<io, armed>>
  <2>1. UNCHANGED <<ran, queue, wstate, reading, io>>
    BY <1>12 DEF StopEnds, poolvars
  <2>2. Keeps
    BY <1>1, <2>1, SameTasksKeep
  <2> QED
    BY <1>1, <2>1, <2>2, KeepsHome DEF Completed
<1>13. CASE StopEnds /\ CancelAccepts
  <2>1. PICK ports \in SetToSeqs(armed) :
          io' = io \o [i \in 1 .. Len(ports) |-> AcceptError(ports[i])]
    BY <1>13 DEF CancelAccepts
  <2> DEFINE errors == [i \in 1 .. Len(ports) |-> AcceptError(ports[i])]
  <2>2. \A u \in Socket : Completed(u)' => Completed(u)
    <3>1. Len(ports) \in Nat
      <4>1. Cardinality(armed) \in Nat
        BY <1>0, CoreAssumption, FS_Subset, FS_CardinalityType DEF Turns
      <4>2. ports \in [1 .. Cardinality(armed) -> armed]
        BY DEF SetToSeqs
      <4> QED
        BY <4>1, <4>2
    <3>2. /\ \A i \in 1 .. Len(errors) : errors[i] = AcceptError(ports[i])
          /\ errors \in Seq({AcceptError(ports[i]) : i \in 1 .. Len(ports)})
          /\ Len(errors) \in Nat
      BY <3>1
    <3>3. \A u, i : AcceptError(ports[i]) # ReadDone(u)
      BY DEF AcceptError, ReadDone
    <3> HIDE DEF errors
    <3>4. \A i \in 1 .. Len(io') : \/ i \in 1 .. Len(io) /\ io'[i] = io[i]
                                   \/ \E j \in 1 .. Len(errors) : io'[i] = errors[j]
      <4>1. Len(io) \in Nat /\ io' = io \o errors /\ Len(io') = Len(io) + Len(errors)
        BY <1>0, <2>1, <3>2 DEF Turns, errors
      <4>2. \A i \in 1 .. Len(io') : io'[i] = IF i <= Len(io) THEN io[i] ELSE errors[i - Len(io)]
        BY <1>0, <3>2, <4>1 DEF Turns
      <4>3. \A i \in 1 .. Len(io') : i > Len(io) => i - Len(io) \in 1 .. Len(errors)
        BY <3>2, <4>1
      <4> QED
        BY <4>1, <4>2, <4>3
    <3>5. \A u, j : j \in 1 .. Len(errors) => errors[j] # ReadDone(u)
      BY <3>2, <3>3
    <3> QED
      BY <3>4, <3>5 DEF Completed
  <2>3. reading' = reading /\ UNCHANGED poolvars
    BY <1>13 DEF StopEnds
  <2> QED
    BY <1>1, <2>2, <2>3, KeepsHome
<1> QED
  BY <1>2, <1>3, <1>4, <1>5, <1>6, <1>7, <1>8, <1>9, <1>10, <1>11, <1>12, <1>13 DEF Next, MainStep, StopEnds

\* All tasks of a connection run on the worker that made it (http_service.cpp:209,
\* handler_allocator.h:77), whatever the order of accepts, reads and stops.
THEOREM OneWorkerPerConnectionCorrect == Spec => []OneWorkerPerConnection
<1>1. ASSUME Init PROVE Home
  <2>1. \A w \in Worker : /\ wstate[w] = "created" /\ ran[w] = <<>> /\ queue[w] = <<>>
    BY <1>1 DEF Init, Pool!Init, Worker
  <2>2. Range(<<>>) = {}
    BY DEF Range
  <2>3. reading = {} /\ io = <<>>
    BY <1>1 DEF Init
  <2> QED
    BY <2>1, <2>2, <2>3 DEF Home, Has
<1>2. ASSUME TypedInv, Home PROVE OneWorkerPerConnection
  <2>1. \A w \in Worker : Range(ran[w] \o queue[w]) = Range(ran[w]) \cup Range(queue[w])
    <3>1. \A w \in Worker : ran[w] \in Seq(Pool!Op) /\ queue[w] \in Seq(Pool!Op)
      BY <1>2, PoolTypes DEF TypedInv
    <3> QED
      BY <3>1, RangeConcatenation
  <2> QED
    BY <1>2, <2>1 DEF OneWorkerPerConnection, Home, Has
<1> QED
  BY <1>1, <1>2, HomeStep, TypedInvInit, TypedInvStep, PTL DEF Spec
-----------------------------------------------------------------------------
(* After a stop *)

\* The pool under the core ends as ThreadPoolProofs shows of any pool.
LEMMA PoolEnds ==
  /\ Init => PoolProofs!Shutdown /\ PoolProofs!IndexCleared
  /\ /\ CoreInv /\ PoolProofs!Typed /\ PoolProofs!Shutdown /\ PoolProofs!IndexCleared
     /\ [Next]_vars
     => PoolProofs!Shutdown' /\ PoolProofs!IndexCleared'
<1>1. ASSUME Init PROVE PoolProofs!Shutdown /\ PoolProofs!IndexCleared
  <2>1. PoolProofs!Init
    BY <1>1, SamePoolTypes DEF Init
  <2>2. PoolProofs!Shutdown
    BY <2>1, PoolProofs!ShutdownInit, PoisonIsNoTask, CoreAssumption
  <2> QED
    BY <2>1, <2>2 DEF PoolProofs!IndexCleared, PoolProofs!Init
<1>2. /\ PoolProofs!Typed /\ PoolProofs!Shutdown /\ [PoolProofs!Next]_(PoolProofs!vars)
      => PoolProofs!Shutdown'
  BY PoolProofs!ShutdownStep, PoisonIsNoTask, CoreAssumption
<1>3. /\ PoolProofs!Typed /\ PoolProofs!Shutdown /\ PoolProofs!IndexCleared
      /\ [PoolProofs!Next]_(PoolProofs!vars)
      => PoolProofs!IndexCleared'
  BY PoolProofs!IndexClearedStep, PoisonIsNoTask, CoreAssumption
<1> QED
  BY <1>1, <1>2, <1>3, CoreStep, SamePool

StoppedInv == TypedInv /\ PoolProofs!Shutdown /\ PoolProofs!IndexCleared

LEMMA StoppedInvInit == Init => StoppedInv
  BY TypedInvInit, PoolEnds DEF StoppedInv

LEMMA StoppedInvStep == StoppedInv /\ [Next]_vars => StoppedInv'
  BY TypedInvStep, PoolEnds DEF StoppedInv, TypedInv

\* Only handle_accept() starts an accept, and only after it has posted the socket.
LEMMA ArmsWhenPosted ==
  ASSUME [Next]_vars, queues_index = {}
  PROVE  armed' \subseteq armed
<1>1. CASE HandleAccept
  <2>1. ~MayFind(NextListener + 1)
    BY DEF MayFind
  <2> QED
    BY <1>1, <2>1 DEF HandleAccept, Refuse
<1>2. CASE \E p \in Port : AcceptFails(p) \/ \E s \in Socket : Connect(p, s)
  BY <1>2 DEF AcceptFails, Connect
<1>3. CASE StopEnds
  BY <1>3 DEF StopEnds, CancelAccepts
<1>4. CASE armed' = armed
  BY <1>4
<1> QED
  BY <1>1, <1>2, <1>3, <1>4 DEF Next, MainStep, Work, ReadCompletes, PostStop, HandleAcceptError,
     HandleRead, HandleStop, StopsPool, StopThrows, RunReturns, Destroy, DestroysPool, vars, corevars

LEMMA QuietAfterStop ==
  StoppedInv /\ [Next]_vars
    => [stopped /\ threads = <<>> => queue' = queue /\ ran' = ran /\ armed' \subseteq armed]_vars
<1> SUFFICES ASSUME StoppedInv, [Next]_vars, threads = <<>>
             PROVE  queue' = queue /\ ran' = ran /\ armed' \subseteq armed
  OBVIOUS
<1>1. [PoolProofs!Next]_(PoolProofs!vars)
  BY CoreStep, SamePool DEF StoppedInv, TypedInv
<1>2. UNCHANGED <<queue, ran, threads>>
  BY <1>1, PoolProofs!QuietOnceStopped, PoisonIsNoTask, CoreAssumption DEF StoppedInv, TypedInv
<1>3. queues_index = {}
  BY DEF StoppedInv, PoolProofs!IndexCleared
<1> QED
  BY <1>2, <1>3, ArmsWhenPosted

\* Once a stop has ended the threads nothing reaches a worker and no port accepts again, although
\* run() goes on, whatever accepts, reads and stops it still completes (snode_core.cpp:41-50).
THEOREM NoWorkAfterStopCorrect == Spec => NoWorkAfterStop
  BY StoppedInvInit, StoppedInvStep, QuietAfterStop, PTL DEF Spec, NoWorkAfterStop

-----------------------------------------------------------------------------
(* The tasks of the connections are in mailboxes. *)

\* The mailboxes are the same ones, by whatever name.
LEMMA SameMailboxes ==
  /\ PoolProofs!Mailbox!Init <=> Pool!Mailbox!Init
  /\ [PoolProofs!Mailbox!Next]_(PoolProofs!Mailbox!vars) <=> [Pool!Mailbox!Next]_(Pool!Mailbox!vars)
  BY DEF PoolProofs!Mailbox!Init, Pool!Mailbox!Init, PoolProofs!Mailbox!Next, Pool!Mailbox!Next,
     PoolProofs!Mailbox!vars, Pool!Mailbox!vars, PoolProofs!Mailbox!Run, Pool!Mailbox!Run,
     PoolProofs!Mailbox!Post, Pool!Mailbox!Post, PoolProofs!Mailbox!Closed, Pool!Mailbox!Closed,
     PoolProofs!Mailbox!IsPosted, Pool!Mailbox!IsPosted, PoolProofs!Mailbox!Range,
     Pool!Mailbox!Range, PoolProofs!Worker, Pool!Worker

LEMMA ServesStep == StoppedInv /\ [Next]_vars => [Pool!Mailbox!Next]_(Pool!Mailbox!vars)
<1> SUFFICES ASSUME StoppedInv, [Next]_vars PROVE [Pool!Mailbox!Next]_(Pool!Mailbox!vars)
  OBVIOUS
<1>1. [PoolProofs!Next]_(PoolProofs!vars) /\ PoolProofs!Typed /\ PoolProofs!Shutdown
  BY CoreStep, SamePool DEF StoppedInv, TypedInv
<1>2. [PoolProofs!Mailbox!Next]_(PoolProofs!Mailbox!vars)
  BY <1>1, PoolProofs!MailboxStep, PoisonIsNoTask, CoreAssumption
<1> QED
  BY <1>2, SameMailboxes

\* The server runs the tasks of its connections as the mailboxes of TaskMailbox do: in the order
\* they were posted, each once, and none after the one poison of its worker, whatever accepts,
\* refusals, stops and the destructor come between (snode_core.cpp:35-39, handler_allocator.h:77).
THEOREM ServesMailboxesCorrect == Spec => ServesMailboxes
<1>1. Init => Pool!Mailbox!Init
  BY DEF Init, Pool!Init, Pool!Mailbox!Init
<1> QED
  BY <1>1, StoppedInvInit, StoppedInvStep, ServesStep, PTL
     DEF Spec, ServesMailboxes, Pool!MailboxSpec, Pool!Mailbox!Spec
=============================================================================
