---------------------------- MODULE ThreadPoolProofs ----------------------------
(***************************************************************************)
(* The safety properties of ThreadPool for any number of workers and any   *)
(* set of tasks, the race in the registration of the workers included, and *)
(* that the pool implements the mailboxes of TaskMailbox.                  *)
(***************************************************************************)
EXTENDS ThreadPool, SequenceTheorems, TLAPS

ThreadList == [i \in 1 .. NumThreads |-> i]

LEMMA ThreadListIsSeq ==
  /\ ThreadList \in Seq(Worker) /\ Len(ThreadList) = NumThreads
  /\ \A i \in 1 .. NumThreads : ThreadList[i] = i
  /\ ThreadList = <<>> => NumThreads = 0
<1>1. ThreadList \in [1 .. NumThreads -> Worker]
  BY DEF ThreadList, Worker
<1>2. ThreadList \in Seq(Worker) /\ Len(ThreadList) = NumThreads
  BY <1>1, NumThreadsAssumption, LenProperties, IsASeq
<1> QED BY <1>2, EmptySeq DEF ThreadList

\* The type of the loop of stop(): what it iterates over and where it is.
LEMMA LoopType ==
  ASSUME TypeOK, threads # <<>>
  PROVE  /\ threads = ThreadList /\ Len(threads) = NumThreads /\ NumThreads \in Nat \ {0}
         /\ joining \in Worker /\ threads[joining] = joining
<1>1. threads = ThreadList /\ NumThreads # 0
  <2>1. threads = ThreadList
    BY DEF TypeOK, ThreadList
  <2>2. CASE NumThreads = 0
    BY <2>1, <2>2, ThreadListIsSeq, EmptySeq
  <2> QED BY <2>1, <2>2
<1>2. joining \in Worker
  BY <1>1, NumThreadsAssumption DEF TypeOK, Worker
<1> QED BY <1>1, <1>2, ThreadListIsSeq, NumThreadsAssumption DEF Worker

\* stop() is in its loop only when there is something to loop over.
Stopping == main \in {"stop_thread", "join"} => threads # <<>>

Typed == TypeOK /\ Stopping

LEMMA EnqueueKeepsTypes ==
  ASSUME TypeOK, NEW w \in Worker, NEW op \in Op, Enqueue(w, op)
  PROVE  queue' \in [Worker -> Seq(Op)] /\ wstate' \in [Worker -> WState]
<1>1. queue[w] \in Seq(Op) /\ wstate[w] \in WState
  BY DEF TypeOK
<1>2. Append(queue[w], op) \in Seq(Op) /\ Notified(wstate[w]) \in WState
  BY <1>1 DEF Notified, WState
<1> QED BY <1>2 DEF Enqueue, TypeOK

LEMMA TypedInit == Init => Typed
<1>1. <<>> \in Seq(Op)
  OBVIOUS
<1> QED BY <1>1 DEF Init, Typed, TypeOK, Stopping, WState, MState

LEMMA TypedStep == Typed /\ [Next]_vars => Typed'
<1> SUFFICES ASSUME Typed, [Next]_vars PROVE Typed'
  OBVIOUS
<1> USE DEF Typed, Stopping
<1>1. ASSUME NEW w \in Worker, InsertReads(w) PROVE Typed'
  BY <1>1 DEF InsertReads, TypeOK, WState
<1>2. ASSUME NEW w \in Worker, InsertWrites(w) PROVE Typed'
  <2>1. queues_index' \in SUBSET Worker
    BY <1>2 DEF InsertWrites, TypeOK
  <2> QED BY <2>1, <1>2 DEF InsertWrites, TypeOK, WState
<1>3. ASSUME NEW w \in Worker, Wait(w) \/ SpuriousWake(w) \/ Finish(w) \/ TaskThrows(w)
      PROVE  Typed'
  BY <1>3 DEF Wait, SpuriousWake, Finish, TaskThrows, TypeOK, WState
<1>4. ASSUME NEW w \in Worker, Dequeue(w) PROVE Typed'
  <2>1. Head(queue[w]) \in Op /\ Tail(queue[w]) \in Seq(Op) /\ ran[w] \in Seq(Op)
    BY <1>4, HeadTailProperties DEF Dequeue, TypeOK
  <2>2. Append(ran[w], Head(queue[w])) \in Seq(Op)
    BY <2>1
  <2>3. AfterStart(Head(queue[w])) \in WState
    BY DEF AfterStart, WState
  <2>4. queue' \in [Worker -> Seq(Op)] /\ ran' \in [Worker -> Seq(Op)] /\ wstate' \in [Worker -> WState]
    BY <2>1, <2>2, <2>3, <1>4 DEF Dequeue, TypeOK
  <2> QED BY <2>4, <1>4 DEF Dequeue, TypeOK
<1>5. ASSUME NEW t \in Task, NEW w \in Worker, Schedule(t, w) PROVE TypeOK' /\ UNCHANGED <<main, threads>>
  BY <1>5, EnqueueKeepsTypes DEF Schedule, Op, TypeOK
<1>6. CASE StopBegin
  BY <1>6 DEF StopBegin, TypeOK, MState
<1>7. CASE StopThread
  <2>1. threads[joining] \in Worker
    BY <1>7 DEF StopThread, TypeOK
  <2> QED BY <2>1, <1>7, EnqueueKeepsTypes DEF StopThread, TypeOK, MState, Op
<1>8. CASE StopThreadThrows
  BY <1>8 DEF StopThreadThrows, TypeOK, MState
<1>9. CASE Join
  <2>0. joined' \in SUBSET Worker
    BY <1>9, LoopType DEF Join, TypeOK
  <2>1. CASE MoreToJoin
    <3>1. joining' \in 1 .. NumThreads
      BY <2>1, <1>9, LoopType DEF Join, MoreToJoin, Worker
    <3> QED BY <3>1, <2>0, <2>1, <1>9 DEF Join, TypeOK, MState
  <2>2. CASE ~MoreToJoin
    BY <2>0, <2>2, <1>9 DEF Join, TypeOK, MState
  <2> QED BY <2>1, <2>2
<1>10. CASE UNCHANGED vars
  BY <1>10 DEF vars, TypeOK
<1> QED
  BY <1>1, <1>2, <1>3, <1>4, <1>5, <1>6, <1>7, <1>8, <1>9, <1>10
     DEF Next, WorkerStep, StopStep, MainSchedules, TaskSchedules

\* The type of every variable, whatever the number of threads.
THEOREM TypeCorrect == Spec => []TypeOK
<1>1. Typed => TypeOK
  BY DEF Typed
<1> QED BY <1>1, TypedInit, TypedStep, PTL DEF Spec

-----------------------------------------------------------------------------
\* A worker that has something in its queue is awake: enqueue() notifies whoever waits and
\* dequeue() blocks only on an empty queue.
LEMMA WakeupStep == Typed /\ NoLostWakeup /\ [Next]_vars => NoLostWakeup'
<1> SUFFICES ASSUME Typed, NoLostWakeup, [Next]_vars, NEW v \in Worker, wstate'[v] = "waiting"
             PROVE  queue'[v] = <<>>
  BY DEF NoLostWakeup
<1> USE DEF Typed
<1>1. ASSUME NEW w \in Worker, NEW op, Enqueue(w, op) PROVE queue'[v] = <<>>
  <2>1. v # w /\ wstate[v] = "waiting"
    BY <1>1 DEF Enqueue, Notified, TypeOK
  <2> QED BY <2>1, <1>1 DEF Enqueue, TypeOK, NoLostWakeup
<1>2. ASSUME NEW w \in Worker,
             InsertReads(w) \/ InsertWrites(w) \/ SpuriousWake(w) \/ Finish(w) \/ TaskThrows(w)
      PROVE  queue'[v] = <<>>
  BY <1>2 DEF InsertReads, InsertWrites, SpuriousWake, Finish, TaskThrows, TypeOK, NoLostWakeup
<1>3. ASSUME NEW w \in Worker, Wait(w) PROVE queue'[v] = <<>>
  BY <1>3 DEF Wait, TypeOK, NoLostWakeup
<1>4. ASSUME NEW w \in Worker, Dequeue(w) PROVE queue'[v] = <<>>
  BY <1>4 DEF Dequeue, AfterStart, TypeOK, NoLostWakeup
<1>5. ASSUME NEW t \in Task, NEW w \in Worker, Schedule(t, w) PROVE queue'[v] = <<>>
  BY <1>1, <1>5 DEF Schedule
<1>6. CASE StopThread
  BY <1>1, <1>6 DEF StopThread, TypeOK
<1>7. CASE StopBegin \/ StopThreadThrows \/ Join \/ UNCHANGED vars
  BY <1>7 DEF StopBegin, StopThreadThrows, Join, vars, NoLostWakeup
<1> QED
  BY <1>2, <1>3, <1>4, <1>5, <1>6, <1>7
     DEF Next, WorkerStep, StopStep, MainSchedules, TaskSchedules

\* No interleaving of enqueues, waits and spurious wakeups leaves a worker asleep with
\* work in its queue (synchronised_queue.h:28-46).
THEOREM NoLostWakeupCorrect == Spec => []NoLostWakeup
<1>1. Init => NoLostWakeup
  BY DEF Init, NoLostWakeup
<1> QED BY <1>1, WakeupStep, TypedInit, TypedStep, PTL DEF Spec

-----------------------------------------------------------------------------
(* What is posted to a worker: what it ran, then what it has queued. *)

Posted == [w \in Worker |-> ran[w] \o queue[w]]

LEMMA RangeOfAppend ==
  ASSUME NEW S, NEW s \in Seq(S), NEW e \in S
  PROVE  Range(Append(s, e)) = Range(s) \cup {e}
<1>1. /\ Append(s, e) \in Seq(S) /\ Len(Append(s, e)) = Len(s) + 1 /\ Len(s) \in Nat
      /\ \A i \in 1 .. Len(s) : Append(s, e)[i] = s[i]
      /\ Append(s, e)[Len(s) + 1] = e
  BY AppendProperties, LenProperties
<1>2. /\ Range(s) = {s[i] : i \in 1 .. Len(s)}
      /\ Range(Append(s, e)) = {Append(s, e)[i] : i \in 1 .. Len(s) + 1}
  BY <1>1, RangeEquality
<1>3. \A i \in 1 .. Len(s) + 1 : i \in 1 .. Len(s) \/ i = Len(s) + 1
  BY <1>1
<1>4. \A i \in 1 .. Len(s) : i \in 1 .. Len(s) + 1
  BY <1>1
<1>5. Len(s) + 1 \in 1 .. Len(s) + 1
  BY <1>1
<1>6. ASSUME NEW x \in Range(Append(s, e)) PROVE x \in Range(s) \cup {e}
  BY <1>1, <1>2, <1>3
<1>7. ASSUME NEW x \in Range(s) \cup {e} PROVE x \in Range(Append(s, e))
  BY <1>1, <1>2, <1>4, <1>5
<1> QED BY <1>6, <1>7

LEMMA AppendToConcat ==
  ASSUME NEW S, NEW r \in Seq(S), NEW q \in Seq(S), NEW e \in S
  PROVE  r \o Append(q, e) = Append(r \o q, e)
<1>1. <<e>> \in Seq(S)
  OBVIOUS
<1>2. Append(q, e) = q \o <<e>> /\ Append(r \o q, e) = (r \o q) \o <<e>>
  BY AppendIsConcat, ConcatProperties
<1> QED BY <1>1, <1>2, ConcatAssociative

LEMMA HeadOverConcat ==
  ASSUME NEW S, NEW r \in Seq(S), NEW q \in Seq(S), q # <<>>
  PROVE  /\ Append(r, Head(q)) \o Tail(q) = r \o q
         /\ Len(r) < Len(r \o q) /\ (r \o q)[Len(r) + 1] = Head(q)
<1>1. /\ Head(q) \in S /\ Tail(q) \in Seq(S) /\ Len(Tail(q)) = Len(q) - 1
      /\ \A i \in 1 .. Len(Tail(q)) : Tail(q)[i] = q[i + 1]
      /\ Len(q) \in Nat \ {0} /\ Len(r) \in Nat /\ Head(q) = q[1]
  BY HeadTailProperties, EmptySeq, LenProperties
<1>2. /\ r \o q \in Seq(S) /\ Len(r \o q) = Len(r) + Len(q)
      /\ \A i \in 1 .. Len(r) + Len(q) : (r \o q)[i] = IF i <= Len(r) THEN r[i] ELSE q[i - Len(r)]
  BY ConcatProperties
<1> DEFINE a == Append(r, Head(q))
<1>3. /\ a \in Seq(S) /\ Len(a) = Len(r) + 1 /\ a[Len(r) + 1] = Head(q)
      /\ \A i \in 1 .. Len(r) : a[i] = r[i]
  BY <1>1, AppendProperties
<1> HIDE DEF a
<1>4. /\ a \o Tail(q) \in Seq(S) /\ Len(a \o Tail(q)) = Len(r) + Len(q)
      /\ \A i \in 1 .. Len(r) + Len(q) :
           (a \o Tail(q))[i] = IF i <= Len(r) + 1 THEN a[i] ELSE Tail(q)[i - (Len(r) + 1)]
  <2>1. /\ a \o Tail(q) \in Seq(S) /\ Len(a \o Tail(q)) = Len(a) + Len(Tail(q))
        /\ \A i \in 1 .. Len(a) + Len(Tail(q)) :
             (a \o Tail(q))[i] = IF i <= Len(a) THEN a[i] ELSE Tail(q)[i - Len(a)]
    BY <1>1, <1>3, ConcatProperties
  <2>2. Len(a) + Len(Tail(q)) = Len(r) + Len(q)
    BY <1>1, <1>3
  <2> QED BY <2>1, <2>2, <1>3
<1>5. ASSUME NEW i \in 1 .. Len(r) + Len(q) PROVE (a \o Tail(q))[i] = (r \o q)[i]
  <2>1. CASE i <= Len(r)
    BY <2>1, <1>1, <1>2, <1>3, <1>4
  <2>2. CASE i = Len(r) + 1
    BY <2>2, <1>1, <1>2, <1>3, <1>4
  <2>3. CASE i > Len(r) + 1
    <3>1. i - (Len(r) + 1) \in 1 .. Len(Tail(q)) /\ (i - (Len(r) + 1)) + 1 = i - Len(r)
      BY <2>3, <1>1
    <3>2. Tail(q)[i - (Len(r) + 1)] = q[i - Len(r)]
      BY <3>1, <1>1
    <3>3. (a \o Tail(q))[i] = Tail(q)[i - (Len(r) + 1)]
      BY <2>3, <1>1, <1>4
    <3>4. (r \o q)[i] = q[i - Len(r)]
      BY <2>3, <1>1, <1>2
    <3> QED BY <3>2, <3>3, <3>4
  <2>4. i <= Len(r) \/ i = Len(r) + 1 \/ i > Len(r) + 1
    BY <1>1
  <2> QED BY <2>1, <2>2, <2>3, <2>4
<1>6. a \o Tail(q) = r \o q
  BY <1>2, <1>4, <1>5, SeqEqual
<1>7. Len(r) < Len(r \o q) /\ (r \o q)[Len(r) + 1] = Head(q)
  BY <1>1, <1>2
<1> QED BY <1>6, <1>7 DEF a

LEMMA PostedType ==
  ASSUME TypeOK
  PROVE  /\ Posted \in [Worker -> Seq(Op)]
         /\ \A w \in Worker : /\ Posted[w] = ran[w] \o queue[w]
                              /\ Range(Posted[w]) = Range(ran[w]) \cup Range(queue[w])
<1>1. ASSUME NEW w \in Worker
      PROVE  /\ ran[w] \o queue[w] \in Seq(Op)
             /\ Range(ran[w] \o queue[w]) = Range(ran[w]) \cup Range(queue[w])
  <2>1. ran[w] \in Seq(Op) /\ queue[w] \in Seq(Op)
    BY DEF TypeOK
  <2> QED BY <2>1, ConcatProperties, RangeConcatenation
<1> QED BY <1>1 DEF Posted

\* enqueue() posts, dequeue() moves from one half to the other.
LEMMA EnqueuePosts ==
  ASSUME TypeOK, NEW w \in Worker, NEW op \in Op, Enqueue(w, op), UNCHANGED ran
  PROVE  Posted' = [Posted EXCEPT ![w] = Append(Posted[w], op)]
<1>1. \A v \in Worker : queue'[v] = IF v = w THEN Append(queue[w], op) ELSE queue[v]
  BY DEF Enqueue, TypeOK
<1>2. ran[w] \in Seq(Op) /\ queue[w] \in Seq(Op)
  BY DEF TypeOK
<1>3. ran[w] \o Append(queue[w], op) = Append(ran[w] \o queue[w], op)
  <2>1. \A r, q \in Seq(Op) : r \o Append(q, op) = Append(r \o q, op)
    BY AppendToConcat
  <2> QED BY <2>1, <1>2
<1>4. Posted[w] = ran[w] \o queue[w]
  BY DEF Posted
<1>5. Posted' = [v \in Worker |-> ran[v] \o queue'[v]]
  BY DEF Posted
<1>6. \A v \in Worker : ran[v] \o queue'[v] = IF v = w THEN Append(Posted[w], op) ELSE Posted[v]
  BY <1>1, <1>3, <1>4 DEF Posted
<1> QED BY <1>5, <1>6 DEF Posted

LEMMA DequeueRuns ==
  ASSUME TypeOK, NEW w \in Worker, Dequeue(w)
  PROVE  /\ Posted' = Posted
         /\ Len(ran[w]) < Len(Posted[w])
         /\ ran' = [ran EXCEPT ![w] = Append(ran[w], Posted[w][Len(ran[w]) + 1])]
         /\ Posted[w][Len(ran[w]) + 1] = Head(queue[w]) /\ Head(queue[w]) \in Op
<1>1. ran[w] \in Seq(Op) /\ queue[w] \in Seq(Op) /\ queue[w] # <<>>
  BY DEF TypeOK, Dequeue
<1>2. /\ Append(ran[w], Head(queue[w])) \o Tail(queue[w]) = ran[w] \o queue[w]
      /\ Len(ran[w]) < Len(ran[w] \o queue[w])
      /\ (ran[w] \o queue[w])[Len(ran[w]) + 1] = Head(queue[w])
  BY <1>1, HeadOverConcat
<1>3. Posted[w] = ran[w] \o queue[w]
  BY DEF Posted
<1>4. \A v \in Worker : /\ queue'[v] = IF v = w THEN Tail(queue[w]) ELSE queue[v]
                        /\ ran'[v] = IF v = w THEN Append(ran[w], Head(queue[w])) ELSE ran[v]
  BY DEF Dequeue, TypeOK
<1>5. \A v \in Worker : ran'[v] \o queue'[v] = ran[v] \o queue[v]
  BY <1>2, <1>4
<1>6. Posted' = Posted
  BY <1>5 DEF Posted
<1>7. Head(queue[w]) \in Op
  BY <1>1, HeadTailProperties
<1>8. ran' = [ran EXCEPT ![w] = Append(ran[w], Head(queue[w]))]
  BY DEF Dequeue
<1> QED BY <1>2, <1>3, <1>6, <1>7, <1>8

-----------------------------------------------------------------------------
(* stop(): the workers end by their poison, one after the other. *)

PoisonEnds == \A w \in Worker : wstate[w] = "exited" <=> Poison \in Range(ran[w])

\* The threads that are joined have ended, and they are those the loop has been over.
JoinedEnded ==
  /\ threads = <<>> => \A w \in Worker : wstate[w] = "exited"
  /\ \A w \in joined : wstate[w] = "exited"
  /\ ~Idle => \A w \in Worker : w < joining => w \in joined

\* The poison is where a loop of stop() has been or is now, and nowhere else.
PoisonInOrder ==
  \A w \in Worker : Poison \in Range(Posted[w]) =>
     threads = <<>> \/ w \in joined \/ (main = "join" /\ w = joining)

Shutdown == PoisonEnds /\ JoinedEnded /\ PoisonInOrder

LEMMA ShutdownInit == Init => Shutdown
<1> SUFFICES ASSUME Init PROVE Shutdown
  OBVIOUS
<1>1. TypeOK
  BY TypedInit DEF Typed
<1>2. \A w \in Worker : Range(ran[w]) = {} /\ Range(queue[w]) = {} /\ wstate[w] # "exited"
  BY DEF Init, Range
<1>3. threads = <<>> => Worker = {}
  BY ThreadListIsSeq, NumThreadsAssumption DEF Init, ThreadList, Worker
<1> QED BY <1>1, <1>2, <1>3, PostedType, SMTT(40) DEF Shutdown, PoisonEnds, JoinedEnded, PoisonInOrder, Init

\* A step of another thread, which leaves the poison and the ended workers alone.
LEMMA ShutdownKept ==
  ASSUME TypeOK, Shutdown, UNCHANGED <<ran, queue, threads, main, joining, joined>>,
         \A w \in Worker : wstate'[w] = "exited" <=> wstate[w] = "exited"
  PROVE  Shutdown'
  BY DEF Shutdown, PoisonEnds, JoinedEnded, PoisonInOrder, Posted, Idle, TypeOK

LEMMA EnqueueEndsNone ==
  ASSUME TypeOK, NEW w \in Worker, NEW op, Enqueue(w, op)
  PROVE  \A v \in Worker : wstate'[v] = "exited" <=> wstate[v] = "exited"
  BY DEF Enqueue, Notified, TypeOK

LEMMA ShutdownStep == Typed /\ Shutdown /\ [Next]_vars => Shutdown'
<1> SUFFICES ASSUME Typed, Shutdown, [Next]_vars PROVE Shutdown'
  OBVIOUS
<1>1. TypeOK /\ TypeOK'
  BY TypedStep DEF Typed
<1>2. ASSUME NEW w \in Worker,
             \/ InsertReads(w) \/ InsertWrites(w) \/ Wait(w) \/ SpuriousWake(w) \/ Finish(w)
             \/ TaskThrows(w)
      PROVE  Shutdown'
  <2>1. UNCHANGED <<ran, queue, threads, main, joining, joined>>
    BY <1>2 DEF InsertReads, InsertWrites, Wait, SpuriousWake, Finish, TaskThrows
  <2>2. \A v \in Worker : wstate'[v] = "exited" <=> wstate[v] = "exited"
    BY <1>1, <1>2 DEF InsertReads, InsertWrites, Wait, SpuriousWake, Finish, TaskThrows, TypeOK
  <2> QED BY <1>1, <2>1, <2>2, ShutdownKept
<1>3. ASSUME NEW w \in Worker, Dequeue(w) PROVE Shutdown'
  <2>1. /\ Posted' = Posted /\ UNCHANGED <<threads, main, joining, joined>>
        /\ Head(queue[w]) \in Op
    BY <1>1, <1>3, DequeueRuns DEF Dequeue
  <2>2. \A v \in Worker :
          /\ ran'[v] = IF v = w THEN Append(ran[w], Head(queue[w])) ELSE ran[v]
          /\ wstate'[v] = IF v = w THEN AfterStart(Head(queue[w])) ELSE wstate[v]
    BY <1>1, <1>3 DEF Dequeue, TypeOK
  <2>3. ran[w] \in Seq(Op) /\ wstate[w] = "ready"
    BY <1>1, <1>3 DEF Dequeue, TypeOK
  <2>4. Range(Append(ran[w], Head(queue[w]))) = Range(ran[w]) \cup {Head(queue[w])}
    BY <2>1, <2>3, RangeOfAppend
  <2>5. Poison \notin Range(ran[w])
    BY <2>3 DEF Shutdown, PoisonEnds
  <2>6. PoisonEnds'
    BY <2>2, <2>4, <2>5 DEF Shutdown, PoisonEnds, AfterStart
  <2>7. \A v \in Worker : wstate[v] = "exited" => wstate'[v] = "exited"
    BY <2>2, <2>3
  <2> QED BY <1>1, <2>1, <2>6, <2>7 DEF Shutdown, JoinedEnded, PoisonInOrder, Idle, TypeOK
<1>4. ASSUME NEW w \in Worker, NEW op \in Op, Enqueue(w, op), UNCHANGED ran
      PROVE  /\ PoisonEnds'
             /\ \A v \in Worker : wstate'[v] = "exited" <=> wstate[v] = "exited"
             /\ \A v \in Worker : Poison \in Range(Posted'[v])
                                    => Poison \in Range(Posted[v]) \/ (v = w /\ op = Poison)
  <2>1. \A v \in Worker : wstate'[v] = "exited" <=> wstate[v] = "exited"
    BY <1>1, <1>4, EnqueueEndsNone
  <2>2. \A v \in Worker : Posted'[v] = IF v = w THEN Append(Posted[w], op) ELSE Posted[v]
    BY <1>1, <1>4, EnqueuePosts, PostedType
  <2>3. Range(Append(Posted[w], op)) = Range(Posted[w]) \cup {op}
    BY <1>1, PostedType, RangeOfAppend
  <2> QED BY <2>1, <2>2, <2>3, <1>4 DEF Shutdown, PoisonEnds
<1>5. ASSUME NEW t \in Task, NEW w \in Worker, Schedule(t, w), UNCHANGED main PROVE Shutdown'
  <2>1. t \in Op /\ t # Poison
    BY PoisonAssumption DEF Op
  <2> QED BY <1>1, <2>1, <1>4, <1>5 DEF Schedule, Shutdown, JoinedEnded, PoisonInOrder, Idle, TypeOK
<1>6. CASE StopBegin
  <2>1. /\ main # "join" /\ joining' = 1
        /\ UNCHANGED <<wstate, ran, queue, threads, joined>>
    BY <1>6 DEF StopBegin, Idle
  <2>2. Posted' = Posted
    BY <2>1 DEF Posted
  <2>3. \A w \in Worker : ~(w < 1)
    BY NumThreadsAssumption DEF Worker
  <2> QED BY <2>1, <2>2, <2>3 DEF Shutdown, PoisonEnds, JoinedEnded, PoisonInOrder
<1>7. CASE StopThread
  <2>1. /\ threads # <<>> /\ joining \in Worker /\ threads[joining] = joining
    BY <1>7, LoopType DEF StopThread, Typed, Stopping
  <2>2. /\ Enqueue(joining, Poison) /\ UNCHANGED <<ran, threads, joining, joined>>
        /\ main = "stop_thread" /\ main' = "join"
    BY <1>7, <2>1 DEF StopThread
  <2>3. Poison \in Op
    BY DEF Op
  <2>4. /\ PoisonEnds'
        /\ \A v \in Worker : wstate'[v] = "exited" <=> wstate[v] = "exited"
        /\ \A v \in Worker : Poison \in Range(Posted'[v])
                               => Poison \in Range(Posted[v]) \/ v = joining
    BY <2>1, <2>2, <2>3, <1>4
  <2> QED BY <1>1, <2>1, <2>2, <2>4 DEF Shutdown, JoinedEnded, PoisonInOrder, Idle, TypeOK
<1>8. CASE StopThreadThrows
  <2>1. UNCHANGED <<wstate, ran, queue, threads, joined>> /\ main' = "threw" /\ main = "stop_thread"
    BY <1>8 DEF StopThreadThrows
  <2> QED BY <2>1 DEF Shutdown, PoisonEnds, JoinedEnded, PoisonInOrder, Posted, Idle
<1>9. CASE Join
  <2>1. /\ threads # <<>> /\ joining \in Worker /\ threads[joining] = joining
        /\ Len(threads) = NumThreads
    BY <1>9, LoopType DEF Join, Typed, Stopping
  <2>2. /\ main = "join" /\ wstate[joining] = "exited" /\ UNCHANGED <<wstate, ran, queue>>
        /\ joined' = joined \cup {joining}
    BY <1>9, <2>1 DEF Join, Joinable
  <2>3. Posted' = Posted
    BY <2>2 DEF Posted
  <2>4. /\ \A w \in Worker : w <= joining => w \in joined'
        /\ \A w \in joined' : wstate[w] = "exited"
    BY <2>1, <2>2, NumThreadsAssumption DEF Shutdown, JoinedEnded, Worker, Idle
  <2>5. CASE MoreToJoin
    <3>1. joining' = joining + 1 /\ main' = "stop_thread" /\ UNCHANGED threads
      BY <1>9, <2>5 DEF Join
    <3>2. \A w \in Worker : w < joining + 1 <=> w <= joining
      BY <2>1, NumThreadsAssumption DEF Worker
    <3> QED BY <2>1, <2>2, <2>3, <2>4, <3>1, <3>2
            DEF Shutdown, PoisonEnds, JoinedEnded, PoisonInOrder, Idle
  <2>6. CASE ~MoreToJoin
    <3>1. main' = "free" /\ threads' = <<>>
      BY <1>9, <2>6 DEF Join
    <3>2. \A w \in Worker : w <= joining
      BY <2>1, <2>6, NumThreadsAssumption DEF MoreToJoin, Worker
    <3>3. \A w \in Worker : wstate'[w] = "exited"
      BY <2>2, <2>4, <3>2
    <3> QED BY <2>2, <2>3, <2>4, <3>1, <3>3
            DEF Shutdown, PoisonEnds, JoinedEnded, PoisonInOrder, Idle
  <2> QED BY <2>5, <2>6
<1>10. CASE UNCHANGED vars
  BY <1>1, <1>10, ShutdownKept DEF vars
<1> QED
  BY <1>2, <1>3, <1>5, <1>6, <1>7, <1>8, <1>9, <1>10
     DEF Next, WorkerStep, StopStep, MainSchedules, TaskSchedules, Schedule

\* Once stop() has been through its threads, every worker has run its poison and ended,
\* whatever was scheduled in the meantime (threadpool.h:54-63).
THEOREM StopLeavesNoThreadCorrect == Spec => []StopLeavesNoThread
<1>1. Shutdown => StopLeavesNoThread
  BY DEF Shutdown, PoisonEnds, JoinedEnded, StopLeavesNoThread
<1> QED BY <1>1, ShutdownInit, ShutdownStep, TypedInit, TypedStep, PTL DEF Spec

-----------------------------------------------------------------------------
(* After the last join no task is found a queue, and none is run. *)

\* The last join clears both containers, and no thread is left that could insert.
IndexCleared == threads = <<>> => queues_index = {}

LEMMA IndexClearedStep == Typed /\ Shutdown /\ IndexCleared /\ [Next]_vars => IndexCleared'
<1> SUFFICES ASSUME Typed, Shutdown, IndexCleared, [Next]_vars, threads' = <<>>
             PROVE  queues_index' = {}
  BY DEF IndexCleared
<1>1. ASSUME NEW w \in Worker, InsertWrites(w) PROVE FALSE
  <2>1. threads = <<>> /\ wstate[w] = "inserting"
    BY <1>1 DEF InsertWrites
  <2> QED BY <2>1 DEF Shutdown, JoinedEnded
<1>2. CASE UNCHANGED <<queues_index, threads>>
  BY <1>2 DEF IndexCleared
<1>3. CASE Join
  BY <1>3 DEF Join, IndexCleared
<1> QED
  BY <1>1, <1>2, <1>3
     DEF Next, WorkerStep, StopStep, MainSchedules, TaskSchedules, Schedule, InsertReads, Wait,
         SpuriousWake, Dequeue, Finish, TaskThrows, StopBegin, StopThread, StopThreadThrows, vars

\* From then on the queues and what was run stay as they are.
LEMMA QuietOnceStopped ==
  ASSUME Typed, Shutdown, IndexCleared, [Next]_vars, threads = <<>>
  PROVE  UNCHANGED <<queue, ran, threads>>
<1>1. \A w \in Worker : wstate[w] = "exited"
  BY DEF Shutdown, JoinedEnded
<1>2. main \notin {"stop_thread", "join"}
  BY DEF Typed, Stopping
<1>3. \A w \in Worker : ~InsertReads(w) /\ ~InsertWrites(w) /\ ~Wait(w) /\ ~Dequeue(w)
                          /\ ~SpuriousWake(w) /\ ~Finish(w) /\ ~TaskThrows(w)
  BY <1>1 DEF InsertReads, InsertWrites, Wait, Dequeue, SpuriousWake, Finish, TaskThrows
<1>4. \A t, w : ~Schedule(t, w)
  BY DEF Schedule, IndexCleared
<1>5. ~StopThread /\ ~StopThreadThrows /\ ~Join
  BY <1>2 DEF StopThread, StopThreadThrows, Join
<1>6. StopBegin \/ UNCHANGED vars
  BY <1>3, <1>4, <1>5 DEF Next, WorkerStep, StopStep, MainSchedules, TaskSchedules
<1> QED
  BY <1>6 DEF StopBegin, vars

-----------------------------------------------------------------------------
(* The pool implements the mailboxes. *)

\* The module of the mailboxes takes Range from the same library.
LEMMA MailboxRange == \A s : Mailbox!Range(s) = Range(s)
  BY DEF Mailbox!Range, Range

LEMMA IsPostedMeansPosted ==
  ASSUME TypeOK, NEW t
  PROVE  Mailbox!IsPosted(t) <=> IsPosted(t)
<1>1. \A w \in Worker : t \in Range(Posted[w]) <=> t \in Range(ran[w]) \/ t \in Range(queue[w])
  BY PostedType
<1> QED BY <1>1, MailboxRange DEF Mailbox!IsPosted, IsPosted, Posted

LEMMA MailboxStep == Typed /\ Shutdown /\ [Next]_vars => [Mailbox!Next]_(Mailbox!vars)
<1> SUFFICES ASSUME Typed, Shutdown, [Next]_vars PROVE Mailbox!Next \/ UNCHANGED Mailbox!vars
  OBVIOUS
<1>1. TypeOK
  BY DEF Typed
<1>2. ASSUME UNCHANGED <<ran, queue>> PROVE UNCHANGED Mailbox!vars
  BY <1>2 DEF Mailbox!vars
<1>3. ASSUME NEW w \in Worker, Dequeue(w) PROVE Mailbox!Run(w)
  <2>1. /\ Posted' = Posted
        /\ Len(ran[w]) < Len(Posted[w])
        /\ ran' = [ran EXCEPT ![w] = Append(ran[w], Posted[w][Len(ran[w]) + 1])]
    BY <1>1, <1>3, DequeueRuns
  <2>2. ~Mailbox!Closed(w)
    BY <1>3, MailboxRange DEF Mailbox!Closed, Dequeue, Shutdown, PoisonEnds
  <2> QED BY <2>1, <2>2 DEF Mailbox!Run, Posted
<1>4. ASSUME NEW w \in Worker, NEW op \in Op, Enqueue(w, op), UNCHANGED ran
      PROVE  Posted' = [Posted EXCEPT ![w] = Append(@, op)]
  BY <1>1, <1>4, EnqueuePosts
<1>5. ASSUME NEW t \in Task, NEW w \in Worker, Schedule(t, w) PROVE Mailbox!Post(w, t)
  <2>1. ~IsPosted(t) /\ Enqueue(w, t) /\ UNCHANGED ran /\ t \in Op /\ t # Poison
    BY <1>5, PoisonAssumption DEF Schedule, Op
  <2>2. ~Mailbox!IsPosted(t)
    BY <1>1, <2>1, IsPostedMeansPosted
  <2>3. Posted' = [Posted EXCEPT ![w] = Append(@, t)]
    BY <1>4, <2>1
  <2> QED BY <2>1, <2>2, <2>3 DEF Mailbox!Post, Posted
<1>6. CASE StopThread
  <2>1. /\ threads # <<>> /\ joining \in Worker /\ threads[joining] = joining
    BY <1>6, LoopType DEF StopThread, Typed, Stopping
  <2>2. Enqueue(joining, Poison) /\ UNCHANGED ran /\ main = "stop_thread" /\ Poison \in Op
    BY <1>6, <2>1 DEF StopThread, Op
  <2>3. Poison \notin Range(Posted[joining])
    <3>1. joining \notin joined
      BY <1>6, <2>1 DEF StopThread
    <3> QED BY <2>1, <2>2, <3>1 DEF Shutdown, PoisonInOrder
  <2>4. Posted' = [Posted EXCEPT ![joining] = Append(@, Poison)]
    BY <1>4, <2>1, <2>2
  <2>5. Mailbox!Post(joining, Poison)
    BY <2>2, <2>3, <2>4, MailboxRange DEF Mailbox!Post, Posted
  <2> QED BY <2>1, <2>2, <2>5 DEF Mailbox!Next, Op
<1>7. ASSUME NEW w \in Worker,
             \/ InsertReads(w) \/ InsertWrites(w) \/ Wait(w) \/ SpuriousWake(w) \/ Finish(w)
             \/ TaskThrows(w)
      PROVE  UNCHANGED Mailbox!vars
  BY <1>2, <1>7 DEF InsertReads, InsertWrites, Wait, SpuriousWake, Finish, TaskThrows
<1>8. CASE StopBegin \/ StopThreadThrows \/ Join \/ UNCHANGED vars
  BY <1>2, <1>8 DEF StopBegin, StopThreadThrows, Join, vars
<1> QED
  BY <1>3, <1>5, <1>6, <1>7, <1>8
     DEF Next, WorkerStep, StopStep, MainSchedules, TaskSchedules, Mailbox!Next

\* Tasks run in the order they were scheduled, each once, and none after the poison, for
\* any number of workers and in every interleaving (threadpool.h:94-119).
THEOREM ImplementsMailbox == Spec => MailboxSpec
<1>1. Init => Mailbox!Init
  <2>1. Init => Posted = [w \in Worker |-> <<>>]
    BY DEF Init, Posted
  <2> QED BY <2>1 DEF Init, Mailbox!Init, Posted
<1> QED
  BY <1>1, MailboxStep, ShutdownInit, ShutdownStep, TypedInit, TypedStep, PTL
     DEF Spec, MailboxSpec, Mailbox!Spec
=============================================================================
