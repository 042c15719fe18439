-------------------------- MODULE ProducerConsumerBuf --------------------------
(***************************************************************************)
(* producer_consumer_buffer (producer_consumer_buf.h) under the calls of   *)
(* its base async_streambuf (async_streams.h:144-580).                     *)
(*                                                                         *)
(* The lock of the buffer is disabled (lines 500-506, 624-632): a buffer   *)
(* belongs to one worker thread.  The thread runs the tasks of its queue   *)
(* (ThreadPool.tla) one at a time, and the client calls the buffer from    *)
(* tasks of that thread, so a call is atomic and calls come between tasks. *)
(* async_task::connect() appends to the same queue.                        *)
(*                                                                         *)
(* A byte is its position in the stream: 0 is the first byte written.  A   *)
(* mem_block is the positions of its next unread byte (beg), of its next   *)
(* free byte (end) and of the end of its capacity (cap), so read_, pos_    *)
(* and size_ are these less the position the block begins at.  That this   *)
(* is sound, that is that the back block always ends where the stream      *)
(* does, is the invariant BlocksTileStream.                                *)
(***************************************************************************)
EXTENDS Integers, Sequences

CONSTANTS AllocSize,   \* alloc_size_, the least capacity of a block that write() allocates
          ReadSizes,   \* the counts getn() and sgetn() are called with
          WriteSizes,  \* the counts putn() and alloc() are called with
          MaxOps       \* bound: asynchronous calls and allocations of a behaviour

ASSUME SizeAssumption == /\ AllocSize \in Nat
                         /\ ReadSizes \subseteq Nat \ {0}
                         /\ WriteSizes \subseteq Nat \ {0}
                         /\ MaxOps \in Nat

VARIABLES
  can_read,       \* stream_can_read_
  can_write,      \* stream_can_write_
  read_eof,       \* stream_read_eof_
  allocblock,     \* the capacity of allocblock_, None when nothing is allocated (alloced_)
  total,          \* total_
  total_read,     \* total_read_
  total_written,  \* total_written_
  synced,         \* synced_
  blocks,         \* blocks_
  requests,       \* requests_: the reads that wait for data
  fulfilling,     \* fulfill_outstanding() is running
  tasks,          \* the task queue of the thread, as far as this buffer is concerned
  held,           \* what the client's last acquire() returned and it has not released
  ops,            \* how many asynchronous calls and allocations were made
  calls           \* calls[id]: how often the handler of call id was called

flags    == <<can_read, can_write, read_eof>>
counters == <<total, total_read, total_written, synced>>
vars     == <<flags, allocblock, counters, blocks, requests, fulfilling, tasks, held, ops, calls>>

None   == -1
OpId   == 1 .. MaxOps
Block  == [beg : Nat, end : Nat, cap : Nat]
Held   == [at : Nat \cup {None}, count : Nat]
NotHeld == [at |-> None, count |-> 0]
ReadKind  == {"getn", "bumpc"}
WriteKind == {"putn", "putc"}
\* An asynchronous read, and a task: a deferred write, or the call of a handler.  The
\* handler gets a count or a character (gets); the operation moved count bytes, those from
\* position from.
Request == [id : OpId, kind : ReadKind, size : Nat \ {0}]
Task    == [what : {"write", "done"}, id : OpId, kind : ReadKind \cup WriteKind,
            size : Nat \ {0}, gets : {"count", "char"}, from : Nat, count : Nat]

Init == /\ can_read = TRUE /\ can_write = TRUE /\ read_eof = FALSE
        /\ allocblock = None
        /\ total = 0 /\ total_read = 0 /\ total_written = 0 /\ synced = 0
        /\ blocks = <<>>
        /\ requests = <<>> /\ fulfilling = FALSE
        /\ tasks = <<>>
        /\ held = NotHeld
        /\ ops = 0
        /\ calls = [id \in OpId |-> 0]

-----------------------------------------------------------------------------
(* The data *)

Least(m, n)    == IF m <= n THEN m ELSE n
Greatest(m, n) == IF m >= n THEN m ELSE n

FrontBlock == blocks[1]
BackBlock  == blocks[Len(blocks)]
Avail      == IF blocks = <<>> THEN 0 ELSE BackBlock.end - FrontBlock.beg

\* Mutant: can_satisfy() compares with > instead of >=.
CanSatisfy_Strict(n) == synced > 0 \/ total > n \/ ~can_write

\* can_satisfy()
CanSatisfy(n) == synced > 0 \/ total >= n \/ ~can_write

\* Mutant: the flushed count is decremented below zero.
Less_Wraps(m, n) == m - n

Less(m, n) == IF m > n THEN m - n ELSE 0

\* update_read_head() when n bytes have been read off the front: every block that has
\* nothing left goes, from the front up to the first that has.
Consume(n) ==
  LET head == IF blocks = <<>> THEN 0 ELSE FrontBlock.beg + n
  IN  /\ total' = total - n
      /\ total_read' = total_read + n
      /\ synced' = Less(synced, n)
      /\ \E k \in 0 .. Len(blocks) :
           /\ \A i \in 1 .. k : blocks[i].end <= head
           /\ k < Len(blocks) => blocks[k + 1].end > head
           /\ blocks' = [i \in 1 .. Len(blocks) - k |->
                           [beg |-> Greatest(blocks[k + i].beg, head),
                            end |-> blocks[k + i].end, cap |-> blocks[k + i].cap]]
      /\ UNCHANGED total_written

\* Mutant: read() trusts the count it is asked for.
Read_Unclamped(n) == Consume(n)

\* read(): from the blocks in order, up to n bytes.
Read(n) == Consume(Least(n, Avail))

\* ev_request::complete(): read, then queue the call of the handler.  A request for one
\* byte is taken for a request for a character.
Complete(r) ==
  /\ Read(r.size)
  /\ tasks' = Append(tasks, [what |-> "done", id |-> r.id, kind |-> r.kind, size |-> r.size,
                             gets |-> IF r.kind = "getn" /\ r.size > 1 THEN "count" ELSE "char",
                             from |-> IF blocks = <<>> THEN 0 ELSE FrontBlock.beg,
                             count |-> Least(r.size, Avail)])

\* Mutant: update_write_head() does not look at the reads that wait.
Extend_Silent(n, newBlocks) ==
  /\ blocks' = newBlocks
  /\ total' = total + n
  /\ total_written' = total_written + n
  /\ UNCHANGED <<total_read, synced, fulfilling>>

\* update_write_head(), which ends in fulfill_outstanding().
Extend(n, newBlocks) ==
  /\ blocks' = newBlocks
  /\ total' = total + n
  /\ total_written' = total_written + n
  /\ fulfilling' = TRUE
  /\ UNCHANGED <<total_read, synced>>

\* Mutant: write() does not check the room left in the back block.
BlocksWith_NoRoomCheck(n) ==
  IF blocks = <<>>
  THEN Append(blocks, [beg |-> total_written, end |-> total_written + n,
                       cap |-> total_written + Greatest(n, AllocSize)])
  ELSE [blocks EXCEPT ![Len(blocks)].end = @ + n]

\* write(): in the back block when it has room, else in a new one.
BlocksWith(n) ==
  IF blocks = <<>> \/ BackBlock.cap - BackBlock.end < n
  THEN Append(blocks, [beg |-> total_written, end |-> total_written + n,
                       cap |-> total_written + Greatest(n, AllocSize)])
  ELSE [blocks EXCEPT ![Len(blocks)].end = @ + n]

Write(n) ==
  IF can_write /\ can_read
  THEN Extend(n, BlocksWith(n))
  ELSE UNCHANGED <<counters, blocks, fulfilling>>

-----------------------------------------------------------------------------
(* The thread: fulfill_outstanding(), the tasks *)

\* Mutant: a request that is completed stays in the queue.
FulfillOne_NoPop ==
  /\ fulfilling
  /\ requests # <<>>
  /\ CanSatisfy(Head(requests).size)
  /\ Complete(Head(requests))
  /\ UNCHANGED <<flags, allocblock, requests, fulfilling, held, ops, calls>>

\* One turn of the loop of fulfill_outstanding(); nothing else runs until it returns.
FulfillOne ==
  /\ fulfilling
  /\ requests # <<>>
  /\ CanSatisfy(Head(requests).size)
  /\ Complete(Head(requests))
  /\ requests' = Tail(requests)
  /\ UNCHANGED <<flags, allocblock, fulfilling, held, ops, calls>>

FulfillEnds ==
  /\ fulfilling
  /\ requests # <<>> => ~CanSatisfy(Head(requests).size)
  /\ fulfilling' = FALSE
  /\ UNCHANGED <<flags, allocblock, counters, blocks, requests, tasks, held, ops, calls>>

\* The next task of the queue: a deferred write and its handler, or a handler.
RunTask ==
  /\ ~fulfilling
  /\ tasks # <<>>
  /\ tasks' = Tail(tasks)
  /\ calls' = [calls EXCEPT ![Head(tasks).id] = @ + 1]
  /\ IF Head(tasks).what = "write"
     THEN Write(Head(tasks).size)
     ELSE UNCHANGED <<counters, blocks, fulfilling>>
  /\ UNCHANGED <<flags, allocblock, requests, held, ops>>

-----------------------------------------------------------------------------
(* The calls of the client *)

NewOp == ~fulfilling /\ ops < MaxOps /\ ops' = ops + 1

\* Queue a write, or the handler of a call that is refused, which gets 0 or EOF.
Queue(what, kind, n) ==
  tasks' = Append(tasks, [what |-> what, id |-> ops + 1, kind |-> kind, size |-> n,
                          gets |-> IF kind \in {"getn", "putn"} THEN "count" ELSE "char",
                          from |-> 0, count |-> 0])

\* putn() and putc() queue the write.  (putn(0) does nothing.)
Put(kind, n) ==
  /\ NewOp
  /\ Queue(IF can_write THEN "write" ELSE "done", kind, n)
  /\ UNCHANGED <<flags, allocblock, counters, blocks, requests, fulfilling, held, calls>>

\* getn() and bumpc(): enqueue_request() completes the read at once when it can.
Get(kind, n) ==
  LET r == [id |-> ops + 1, kind |-> kind, size |-> n]
  IN  /\ NewOp
      /\ IF ~can_read
         THEN Queue("done", kind, n) /\ UNCHANGED <<counters, blocks, requests>>
         ELSE IF CanSatisfy(n)
              THEN Complete(r) /\ UNCHANGED requests
              ELSE requests' = Append(requests, r) /\ UNCHANGED <<counters, blocks, tasks>>
      /\ UNCHANGED <<flags, allocblock, fulfilling, held, calls>>

\* sgetn() that does not answer requires_async.
Sgetn(n) ==
  /\ ~fulfilling /\ can_read
  /\ CanSatisfy(n)
  /\ Read(n)
  /\ UNCHANGED <<flags, allocblock, requests, fulfilling, tasks, held, ops, calls>>

\* Mutant: requires_async is taken for the end of the stream.
AtEnd_OrEmpty == Avail = 0

AtEnd == CanSatisfy(1) /\ Avail = 0

\* sbumpc() and, without advancing, sgetc(): the result is EOF when there is no byte,
\* and is_eof() remembers whether it was.
SyncChar(advance) ==
  /\ ~fulfilling /\ can_read
  /\ read_eof' = AtEnd
  /\ IF advance /\ CanSatisfy(1) THEN Read(1) ELSE UNCHANGED <<counters, blocks>>
  /\ UNCHANGED <<can_read, can_write, allocblock, requests, fulfilling, tasks, held, ops, calls>>

\* sync(), which throws when the stream is closed for writing.
Sync ==
  /\ ~fulfilling /\ can_write
  /\ synced' = total
  /\ fulfilling' = TRUE
  /\ UNCHANGED <<flags, allocblock, total, total_read, total_written, blocks, requests, tasks,
                 held, ops, calls>>

\* alloc(), which throws when a block is allocated already.
Alloc(n) ==
  /\ NewOp
  /\ can_write /\ allocblock = None
  /\ allocblock' = n
  /\ UNCHANGED <<flags, counters, blocks, requests, fulfilling, tasks, held, calls>>

\* commit() of n of the allocated bytes; after close it does nothing.
Commit(n) ==
  /\ ~fulfilling /\ can_write
  /\ allocblock # None /\ n <= allocblock
  /\ Extend(n, Append(blocks, [beg |-> total_written, end |-> total_written + n,
                               cap |-> total_written + allocblock]))
  /\ allocblock' = None
  /\ UNCHANGED <<flags, requests, tasks, held, ops, calls>>

\* Mutant: acquire() announces all the bytes of the stream as contiguous.
AcquireResult_AllBytes ==
  IF can_write /\ can_read /\ blocks # <<>>
  THEN [ok |-> TRUE, null |-> FALSE, count |-> total]
  ELSE [ok |-> FALSE, null |-> TRUE, count |-> 0]

\* What acquire() returns: the base refuses it once the stream is closed for writing.
AcquireResult ==
  IF can_write /\ can_read /\ blocks # <<>>
  THEN [ok |-> TRUE, null |-> FALSE, count |-> FrontBlock.end - FrontBlock.beg]
  ELSE [ok |-> FALSE, null |-> TRUE, count |-> 0]

Acquire ==
  /\ ~fulfilling
  /\ AcquireResult.ok
  /\ held' = [at |-> FrontBlock.beg, count |-> AcquireResult.count]
  /\ UNCHANGED <<flags, allocblock, counters, blocks, requests, fulfilling, tasks, ops, calls>>

\* release() of n of the acquired bytes works on the block that is at the front now; after close
\* it does nothing.  When that block has fewer bytes the process ends at the assertion (the
\* Makefile builds with assertions), and when it is gone anything may happen: neither is a step.
Release(n) ==
  /\ ~fulfilling
  /\ held.at # None /\ n <= held.count
  /\ held' = NotHeld
  /\ IF can_write
     THEN blocks # <<>> /\ n <= FrontBlock.end - FrontBlock.beg /\ Consume(n)
     ELSE UNCHANGED <<counters, blocks>>
  /\ UNCHANGED <<flags, allocblock, requests, fulfilling, tasks, ops, calls>>

\* Mutant: close_write() leaves the reads that wait alone.
Close_Silent(mode) ==
  /\ ~fulfilling
  /\ can_read' = (can_read /\ "in" \notin mode)
  /\ can_write' = (can_write /\ "out" \notin mode)
  /\ UNCHANGED <<read_eof, allocblock, counters, blocks, requests, fulfilling, tasks, held, ops,
                 calls>>

\* close(): in, out or both; closing the write head answers every read that waits.
Close(mode) ==
  /\ ~fulfilling
  /\ can_read' = (can_read /\ "in" \notin mode)
  /\ can_write' = (can_write /\ "out" \notin mode)
  /\ fulfilling' = (can_write /\ "out" \in mode)
  /\ UNCHANGED <<read_eof, allocblock, counters, blocks, requests, tasks, held, ops, calls>>

-----------------------------------------------------------------------------
Fulfill == FulfillOne \/ FulfillEnds

Next ==
  \/ Fulfill
  \/ RunTask
  \/ \E n \in WriteSizes : Put("putn", n) \/ Alloc(n)
  \/ Put("putc", 1)
  \/ \E n \in ReadSizes : Get("getn", n) \/ Sgetn(n)
  \/ Get("bumpc", 1)
  \/ \E advance \in BOOLEAN : SyncChar(advance)
  \/ Sync
  \/ allocblock # None /\ \E n \in 0 .. allocblock : Commit(n)
  \/ Acquire
  \/ held.at # None /\ \E n \in 0 .. held.count : Release(n)
  \/ \E mode \in {{"in"}, {"out"}, {"in", "out"}} : Close(mode)

\* The worker thread runs the loop it is in, then its tasks (ThreadPool!AcceptedTaskRuns).
Fairness == WF_vars(Fulfill) /\ WF_vars(RunTask)

Spec == Init /\ [][Next]_vars /\ Fairness

-----------------------------------------------------------------------------
(* Properties *)

\* The type of every variable (producer_consumer_buf.h:608-638).
TypeOK ==
  /\ can_read \in BOOLEAN /\ can_write \in BOOLEAN /\ read_eof \in BOOLEAN
  /\ allocblock \in Nat \cup {None}
  /\ total \in Nat /\ total_read \in Nat /\ total_written \in Nat /\ synced \in Nat
  /\ blocks \in Seq(Block)
  /\ requests \in Seq(Request)
  /\ fulfilling \in BOOLEAN
  /\ tasks \in Seq(Task)
  /\ held \in Held
  /\ ops \in 0 .. MaxOps
  /\ calls \in [OpId -> Nat]

\* The blocks hold the unread part of the stream, each byte once and in order, and the
\* counters agree with them, whatever mix of writes, commits, reads and releases has
\* moved the two heads (update_write_head, update_read_head, write, read).
BlocksTileStream ==
  /\ total_written = total_read + total
  /\ total = Avail
  /\ synced <= total
  /\ \A i \in 1 .. Len(blocks) :
       blocks[i].beg <= blocks[i].end /\ blocks[i].end <= blocks[i].cap
  /\ \A i \in 1 .. Len(blocks) - 1 : blocks[i].end = blocks[i + 1].beg
  /\ blocks # <<>> => FrontBlock.beg = total_read /\ BackBlock.end = total_written

\* No missed fulfilment: when fulfill_outstanding() is not running, the oldest read that
\* waits could not be answered now (fulfill_outstanding, enqueue_request, can_satisfy).
NoMissedFulfilment ==
  ~fulfilling /\ requests # <<>> => ~CanSatisfy(Head(requests).size)

Pending(id) == \/ \E i \in 1 .. Len(requests) : requests[i].id = id
               \/ \E i \in 1 .. Len(tasks) : tasks[i].id = id

\* The handler of a call waits in one place, is called once and never again: no call is queued
\* both as a request and as a task (fulfill_outstanding, enqueue_request).
HandlerAtMostOnce ==
  /\ \A i, j \in 1 .. Len(requests) : requests[i].id = requests[j].id => i = j
  /\ \A i, j \in 1 .. Len(tasks) : tasks[i].id = tasks[j].id => i = j
  /\ \A i \in 1 .. Len(requests), j \in 1 .. Len(tasks) : requests[i].id # tasks[j].id
  /\ \A id \in OpId : calls[id] <= 1 /\ (Pending(id) => calls[id] = 0)

\* What acquire() returned stays at the front, whole, for as long as the read head has not
\* moved, whatever is written, committed, synced or answered with nothing meanwhile
\* (acquire, release): release() then finds the block it is meant for.
AcquiredDataStays ==
  can_write /\ held.at = total_read
     => blocks # <<>> /\ FrontBlock.beg = held.at /\ held.count <= FrontBlock.end - FrontBlock.beg

\* is_eof() is never reported early: nothing can be read after it, ever
\* (check_sync_read_eof, sbumpc, sgetc).
EofIsFinal == read_eof => ~can_write /\ total = 0

\* Each handler is given the bytes that follow the last byte any reader took, and the read
\* head moves past exactly those (ev_request::complete, read).
ReadsFollowStream ==
  [][\A i \in (1 .. Len(tasks')) \ (1 .. Len(tasks)) :
        tasks'[i].what = "done" /\ tasks'[i].count > 0
          => /\ tasks'[i].from = total_read
             /\ total_read' = total_read + tasks'[i].count]_vars

\* The buffer keeps the promises of an asynchronous stream (async_streams.h:144-580).
Contract == INSTANCE AsyncStream WITH
  Size     <- ReadSizes \cup {1},
  written  <- total_written,
  consumed <- total_read,
  flushed  <- synced,
  open     <- can_write,
  waiting  <- [i \in 1 .. Len(requests) |-> requests[i].size]
StreamContract == Contract!Spec

\* Once the write head is closed every read that waits gets its handler called, and so does
\* every write that was queued (close_write).
CloseAnswersEveryCall ==
  \A id \in OpId : (~can_write /\ Pending(id)) ~> calls[id] = 1

\* async_streams.h:460: the handler of getn() gets "the character count read or 0 if the
\* end of the stream is reached", whatever the count asked for.
GetnReportsCount ==
  \A i \in 1 .. Len(tasks) : tasks[i].kind = "getn" => tasks[i].gets = "count"
=============================================================================
