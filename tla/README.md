# snode: TLA+ specifications and proofs

snode is an asynchronous HTTP server library in C++11 on top of boost::asio.
One main thread does the socket I/O; worker threads of a pool run everything
else as tasks. This directory models the parts of it on whose behaviour the
rest stands, checks them with TLC on small instances, and proves the main
invariants with TLAPS for every value of the constants.

All line numbers are those of the files under `src/src/`.

## 1. The system

| component | state it keeps | operations |
|---|---|---|
| thread pool (`threadpool.h`), task queues (`synchronised_queue.h`, `async_op.h`), `async_task.h` | threads, one queue per thread, the index from thread id to queue | constructor, `schedule`, `stop`, the loop of a worker, `async_task::connect` |
| stream buffer base (`async_streams.h:140-580`) | can read, can write, end of file, a block is allocated | the guard of every call, `close`, `is_eof` |
| producer/consumer buffer (`producer_consumer_buf.h`) | blocks, counters of bytes, the flushed count, the reads that wait | `putc putn getn bumpc sgetn sbumpc sgetc sync alloc commit acquire release close` |
| stream operations (`async_streams.h:583-1398`) | per operation: a local buffer and a total | read, read to a delimiter, to the end of a line, to the end; write, print |
| container buffer (`container_buffer.h`) | a container, one position for reads and writes | the same calls, seeks |
| source buffer (`sourcebuf.h`) | a window on a source, offsets | refills, reads, seeks |
| server core (`snode_core.*`), services and listeners (`net_service*.h`) | acceptors, services per port, last listener used | `init`, `run`, `stop`, `handle_accept`, round robin |
| HTTP connection (`http_service.*`) | socket, two buffers, progress of the request and of the response | one handler per step of a request and of its response |
| HTTP messages (`http_msg.*`) | headers, body streams, handlers that wait for the response or for the body | `reply`, `get_response`, `content_ready`, `complete` |
| HTTP helpers (`http_helpers.*`, `http_headers.h`, `uri_utils.*`) | none | parsing and formatting |
| handler allocator (`handler_allocator.h`) | one block and its flag | allocate, deallocate, dispatch to a worker |
| timer (`async_timer.h`) | the current deadline timer | `schedule`, `clear` |
| configuration, registry, utilities, media player | | sequential, or not part of the build |

How they interact:

* The main thread accepts a socket (`handle_accept`), picks a listener round
  robin and posts the socket to the listener's worker (`async_task::connect`,
  which is `threadpool::schedule`).
* Everything of a connection then runs on that worker: asio completes on the
  main thread and `asio_handler_dispatcher` posts the handler to the worker.
* A stream buffer posts its deferred writes and the calls of its handlers to
  the queue of the thread that called it. The task queue of a worker is thus
  the only scheduler that buffers, streams and connections know, and what the
  pool promises about it (order, once, no lost wakeup) is what they rely on.
* The HTTP connection writes the body of a request into one stream buffer and
  reads the body of the response from another.

What is hard, and what must hold:

* **Pool.** Workers register in an unprotected map while others search it;
  `stop()` runs against tasks that schedule more tasks, may throw half way and
  is called again by the destructor. No wakeup may be lost, tasks must run once
  and in order, `stop()` must come back and leave nothing running.
* **Producer/consumer buffer.** Reads that wait, writes that are deferred, a
  flush that makes short reads legal, zero-copy access in both directions and
  half closes, in any order. The blocks and the four counters must agree, each
  byte must reach one reader in order, every handler must be called once, and
  no read may wait that could be answered.
* **Stream operations.** Loops of handlers over two buffers that must go on
  after each partial result and come to an end.
* **Server core.** An accept chain must survive errors; stop is posted across
  threads.
* **HTTP connection.** Two chains of handlers, one that reads the body and one
  that answers, share the state of the connection; each must end in exactly one
  of "next request" and "close".

`PROJECT.json` lists every hazard at its line with the properties that watch it.

## 2. The modules

| module | what it is |
|---|---|
| `TaskMailbox` | abstract: what the pool promises its clients |
| `ThreadPool` | `threadpool`, `synchronised_queue`, `async_op`, `async_task` |
| `AsyncStream` | abstract: what a stream buffer promises its reader and writer |
| `ProducerConsumerBuf` | `producer_consumer_buffer` under the calls of `async_streambuf` |
| `StreamOps` | the reads of `async_istream` into another buffer, over an instance of `AsyncStream` |
| `ContainerBuf` | `container_buffer` |
| `SnodeCore` | `snode_core`, the round robin over listeners, composed with `ThreadPool` |
| `HttpConnection` | `http_connection` with the request it drives (`http_request_impl`, `http_msg_base`) |
| `MCHttpConnection` | the values of the constants of `HttpConnection` that a configuration cannot write |
| `RequestSearch` | `crlf_nonascii_searcher`: the search for the end of a request head |
| `HttpText` | the functions on the text of a request: headers, content type, paths, chunk frames; composed with `RequestSearch` |
| `ThreadPoolProofs` | invariants, and the refinement `ThreadPool => TaskMailbox` |
| `ProducerConsumerBufProofs` | invariants, and the safety part of `ProducerConsumerBuf => AsyncStream` |
| `SnodeCoreProofs` | the core keeps to the interface of the pool; its invariants, with those of the pool carried over |
| `StreamOpsProofs`, `ContainerBufProofs`, `HttpConnectionProofs`, `RequestSearchProofs` | the invariants of the modules they are named after |
| `HttpTextProofs` | what the functions of `HttpText` give for inputs of any length |

### ThreadPool

A worker (`wstate`) goes through `created`, `inserting`, `ready`, `waiting`,
`running`, `exited`. The insertion into `queues_index_` (line 98) is a data
race; it is split into `InsertReads`, which notes what the tree held
(`seen`), and `InsertWrites`, which links the node and may lose any entry that
was linked in between. `Wait` and `Dequeue` are the two ways through
`dequeue()`; `SpuriousWake` and `Notified` are the two ways out of the wait.
`Finish` and `TaskThrows` are the two ends of an operation.

`Schedule` is the handler of `schedule()` that finds the queue; one that does
not find it throws and changes nothing. It is taken by the main thread when it
is not inside `stop()` (`MainSchedules`) and by a running task
(`TaskSchedules`). `stop()` is `StopBegin` (with the early return of line 51),
then `StopThread` and `Join` for each thread, or `StopThreadThrows`. After a
throw or an early return `stop()` may be called again, which the destructor
does; `joined` keeps the threads whose id no longer names a thread.

`terminated` stands for `std::terminate()`: an exception that left a thread
function, or a destructor. Nothing happens after it.

`AcceptedTaskRuns` asks of a task that was accepted that it runs as long as
nobody stops the pool. Of a stop it asks nothing: that the tasks ahead of the
poison still run is what the code does, while `snode_core.h:52` says that they are
cancelled.

### ProducerConsumerBuf

The lock of the buffer is commented out (lines 500-506, 624-632), so a buffer
belongs to one worker, whose tasks run one at a time; the model has one action
per call and `RunTask` for the next task of the queue. `async_task::connect`
appends to the same queue, which is `tasks`. The loop of
`fulfill_outstanding()` is `FulfillOne` and `FulfillEnds`; while it runs
(`fulfilling`) nothing else does.

A byte is represented by its position in the stream, so that "the right bytes
in the right order" can be said. A block is the positions of its first unread
byte, of its write head and of its capacity. The code keeps offsets into each
block instead; that both are the same as long as blocks follow each other
without a gap is what `BlocksTileStream` says, and it is proved.

`calls`, `held` and `ops` are not in the code: how often each handler was
called, what the client acquired, and the bound. `Release` is taken only where
the block that was acquired is still in front and has the bytes: a read in
between may have popped it, and then the client holds memory that was freed; in a
block that is shorter an assertion ends the process. No release follows then.

### SnodeCore

The main thread in `run()`, over an instance of `ThreadPool` whose tasks are the
first two of each connection: `on_accept`, which starts a read, and the
completion of that read, which the main thread posts to the connection's
worker. `io` is the queue of completions of `io_service`, `armed` and `reading`
are its outstanding operations; `io_service` is external and only its order and
the two ways out of `run()`, no work left and an exception, are modelled.

`HandleAccept` is `handle_accept()` with the round robin and the schedule on the
worker; when that throws (`Refuse`) the socket is closed and the port is not
armed again. `PostStop` is `stop()` off the main thread. `HandleStop`,
`StopsPool`, `StopThrows` and `StopEnds` are `stop()` on it, with the loop of
the pool step by step, since workers run meanwhile. `ios.stop()` followed by
`ios.reset()` has no effect on a `run()` that is on the stack, and so has no
variable. A second stop finds no acceptors, since the first one has cleared them
(`CancelAccepts`), and may find threads that are gone. `Destroy` and
`DestroysPool` are the end of `main()`: the destructor of the core deletes the
pool.

A pool without threads is excluded by `CoreAssumption`: the configuration
allows it, and the first accepted socket then goes through a null listener.

### StreamOps

`read_to_delim()`, `read_line()` and `read_to_end()` of `async_istream`
(`async_streams.h:880-1160`), one operation on one worker. The source is an
instance of `AsyncStream`: what it takes and answers is what
`ProducerConsumerBuf` was shown to give. The target is a list of bytes that may
be closed for writing at any moment between two tasks, and so may the source for
reading (`CloseSource`): from then on `getn()` and `bumpc()` answer the end at
once (`Request`) and `sbumpc()` in the loop does so too (`LoopEof`).

The loop over the bytes that are there is `LoopByte`, `LoopDelim`, `LoopCr` and
`LoopDrained`, while which no other task runs. `Put` is `putn()` of the target:
through the base class (`base_target`) an empty write has no answer, and a write
to a closed target is answered at once with 0; used directly it becomes a task.
`OnReadByte`, `OnReadEnd`, `TargetWrites`, `OnWriteByte` and `OnWriteEnd` are
the handlers. `OnWriteThrows` is the exception of `sync()` for a target that was
closed behind the write, which ends the process. `result` collects what the
user's handler is given.

### ContainerBuf

A container with one head for reads and writes. The asynchronous reads are tasks
that read where the head is when they run (`Defer`, `RunGetn`, `RunChar`), while
synchronous reads, seeks and writes act at once. The model has the two uses the
code has: a container made with data and read, and one made empty and written.
`got` and `start` are not in the code: the bytes that callers were given since
the head was last set. Those of `getn()` are the ones at the head when its task
runs; those of `acquire()` are the ones that were there when the block was lent
(`acquired`), so a release that moves the head by another number shows.
`ungetc()` moves the head when it is called and looks at the character later.

### HttpConnection

Two threads: the main thread completes reads and writes of the socket
(`ReadCompletes`, `ReadFails`, `WriteCompletes`) and posts each handler to the
connection's worker, which runs `queue` in order. One action per handler, but for
`handle_headers()`, which starts the read of the body before it dispatches the
request; `HandleHeaders` and `DispatchRequest` are two steps so that the read can
complete in between. The bytes in `request_buf_` are counted, the body is
`read_`, `read_size_` and what the message's stream took (`stored`).

What the code leaves undefined is a choice. The stream buffer of the body is on
the stack and `create_istream()` asks for a shared pointer to it
(`http_service.cpp:378`): it throws, which ends the process (`StreamThrows`), or
goes on. `putn()` of a copy of the buffer that is sliced to its base
(lines 442 and 476) ends the process, stores all, stores nothing or never
answers. It never stores a count below 0, which as a `size_t` is more than any
memory has.

The size of a chunk is any `int`. The code looks at it only for 0
(`http_service.cpp:420-431`): a negative one is added to `read_`, one more than
the largest less a line end overflows, and both are asked for as a `size_t`
(`AsInt`, `AsSize`). `-1` waits for one byte, `-2` for none, and less than that
for more than an `int` counts, which never comes. `PutHasBytes` therefore speaks
only of sizes above 0: for `-1` and `-2` `putn()` is given more bytes than there
are. TLC's configurations cannot write a negative number, so the sizes are
defined in `MCHttpConnection`.

`get_req_handler()` returns NULL for every path, so every reply is the one of
`reply_if_not_already()` and has no body; the senders of a response body
(lines 624-702) are not reached.

### RequestSearch and HttpText

`RequestSearch` is the state machine of the searcher over one byte at a time,
and asio's protocol with it: after each piece it is called again from the place
it returned, without any memory of what it saw. `HttpText` extends it with
functions on inputs: `HeadersOf` (the map with its rules for repeated and empty
values), `ParseContentType`, `AskedPaths` (the paths of a URL for which a handler
is looked up), `AddChunkedDelimiters` and the reader of chunks, `Unframed`. Each
is compared with what it should give. The variable `given` picks one input.

`Sent` is what `handle_chunked_response_buff_read()` makes of its buffer.
`DelimitersReadBack` says that the frame is right around the bytes from
`data_offset` (10) on. `Framed` is the whole of what the program does with a
chunk: `handle_write_chunked_response()` reads the data to byte 12
(`http_service.cpp:647`) and leaves the buffer's old bytes in front. What a client
reads back is then not the chunk, and `ChunksAreShifted` says what it is: a frame of
the right size with two old bytes and the data without its last two.

`PathsAsked` is about which paths are asked for, the longest first. The loop at
`http_service.cpp:534` keeps only the answer to the last of them, the root, since
each answer overwrites the one before; as no handler is registered for any path
that has no effect yet. A URL with no scheme is asked for at the root alone.

The inputs leave out a charset of which only semicolons are there: the code then
takes the last character of an empty string.

## 3. What is checked

| run | instance | shows |
|---|---|---|
| `threadpool` | 2 workers, 3 tasks | type, `NoLostWakeup`, `StopLeavesNoThread`, the refinement `MailboxSpec`, and under fairness `AcceptedTaskRuns` and `StopReturns` |
| `pcbuf` | blocks of 2, reads of 1 and 2, writes of 1 and 3, 3 asynchronous calls or allocations | type, `BlocksTileStream`, `NoMissedFulfilment`, `HandlerAtMostOnce`, `AcquiredDataStays`, `EofIsFinal`, `ReadsFollowStream`, the refinement `StreamContract` with its fairness, `CloseAnswersEveryCall` |
| `pcbuf_getn` | 2 calls | **violated**: the handler of `getn` gets a count |
| `core` | 2 workers, 1 port, 3 sockets, 1 posted stop | type, `SharedOutEvenly`, `OneWorkerPerConnection`, `NoWorkAfterStop`, the use of the pool as `ThreadPool` describes it (`UsesPool`), and under fairness `StopEndsAtLast` and `AcceptedIsServed` |
| `core_stop` | 1 worker, 1 socket | **violated**: `run()` returns after `stop()` |
| `threadpool_early_stop` | 1 worker | **violated**: the early return of `stop()` is a second stop |
| `http` | bodies of 0 and 3 bytes read by 2, chunks of 1, 2, 4, -1, -2 and -3, up to 6 bytes read ahead; the largest `int` is 4 and a `size_t` has 16 values | type, `OneOperation`, `NothingAfterDrop`, `PutHasBytes`, `BodyIsWhole`, `AnsweredOnce`, and under fairness `RefusedIsDropped` |
| `http_stall` | the same, 1 byte ahead | **violated**: a handler that waits for the body is run when the body is there |
| `streams` | a buffer of 2, every text of up to 4 bytes | type, `BytesInOrder`, `StopsAtDelim`, `EndCounts`, and under fairness `EndReadFinishes` |
| `streams_stall` | every text of up to 2 bytes | **violated**: a read to a delimiter ends when the stream does |
| `container` | 3 bytes of two values, reads of 1 and 2, 5 calls | type, `EveryByteOnce`, `OnlyWrittenChanges` |
| `text` | heads of up to 6 bytes in all divisions, up to 4 header lines, paths of up to 7 characters, every spelling of a content type, chunks of up to 260 bytes | `SearchFindsEnd`, `HeadIsUnderstood` (`HeadersCombine`, `PathsAsked`, `ContentTypeIsRead`), `FramesReadBack` (`DelimitersReadBack`, `ChunksAreShifted`) |

The five violated runs each check one sentence of the documentation or of a
comment that the code does not keep; `PROJECT.json` quotes them under
"findings". The two of `http_stall` and `streams_stall` weigh most: a request
that is accepted is never answered, because `complete()` (`http_msg.cpp:94-103`)
leaves the waiting handlers in their queue (the trace is of a library whose
`create_istream()` goes on at `http_service.cpp:379`; the common ones throw
`bad_weak_ptr` there and the process ends even before); and a read to a
delimiter whose loop takes the last byte of the source leaves nothing behind
that would go on.

Other divergences were met and have no run of their own: `stop()` of the pool
runs the tasks queued before the poison, while `snode_core.h:52` says they are
cancelled; a read takes a block away that `acquire()` has lent, while
`async_streams.h:560` says that it may not be de-allocated before `release()`;
the data of a chunk is read to byte 12 of a frame that is laid out for byte 10
(`http_service.cpp:647`, `http_helpers.h:61`), where no run of the program comes
yet; `acquire()` of the producer/consumer buffer does not report the end of the
stream (`async_streams.h:561`); `read_line()` writes what it has at a carriage
return and goes on in its loop, so that bytes are written twice and the handler
is called more than once (`async_streams.h:1311`); the character reads of the
container buffer cannot tell the end from the byte 255
(`container_buffer.h:225`); `close_`, set for HTTP/1.0, is reset with the
headers (`http_service.cpp:365`).

**Bounds.** Two workers are enough for two registrations to overlap, for one to
be joined while the other still schedules on it, and for `stop()` to throw
between them. Three tasks let one be queued behind the poison while another
waits ahead of it and a third runs and schedules. In the buffer a write of 3
overfills a block of 2, a write of 1 fits in what another left, a read of 2
crosses a block and one of 1 ends inside one; three asynchronous calls are
enough for two reads to wait in front of a write and for a write to be queued
behind a close. In the core three sockets make the round robin wrap over two
workers, and one stop meets an accept that has completed, one that is
outstanding, an idle connection and a worker that has not registered; the
destructor stops a second time. A second posted stop is in the proofs only,
which hold for any number of them; it would double the time of this run. The
number of synchronous calls is not bounded. `TaskMailbox` and `AsyncStream` have
no bounds.

In the connection a body of 3 takes two reads of 2; two chunks of different
sizes follow each other, and one of a negative size or one whose sum with the
line end overflows may come first or behind; 6 bytes read ahead hold a chunk,
its line end and more, and less than that leaves every part of one in the
buffer. In the stream operations 4 bytes fill the buffer twice, and the
delimiter can be at every place of either half. In the container 3 bytes are
enough for two reads to meet between a seek and an `ungetc()`. A head of 6 bytes
has room for a blank line that begins again inside itself (CR LF CR CR LF ...)
and for every division of it. Four header lines let one name come first empty,
then twice with a value, with another name in between; a path of 7 characters
has two segments with slashes doubled before and between them. 260 bytes make a
chunk size of one, two and three digits, which is also where a carry would show.
The proofs have no such bound.

**Fairness.** `ThreadPool`: weak fairness of each worker's own steps and of the
main thread's steps inside `stop()`. The operating system runs threads that can
run; a task is assumed to return or throw, which the code does not enforce. No
fairness is assumed of spurious wakeups, of exceptions, or of any client's
call. `ProducerConsumerBuf`: weak fairness of the loop that runs and of the
next task, which is what `AcceptedTaskRuns` gives for the queue of a worker
that is not stopped. Nothing is assumed of the client: it need not write, flush
or close. `SnodeCore`: weak fairness of the main thread and of each worker, none
of clients, of errors or of a call of stop. `StreamOps`: weak fairness of the
tasks of the operation and of the answers of the source, which `AsyncStream`
promises; none of the user's call, the writer or the closing of the target.
`HttpConnection`: weak fairness of the worker and of the completion of a write,
which the socket takes or fails; none of a client, so a read may wait for ever.
`RequestSearch` and `ContainerBuf` have no liveness: the first waits for a
client, the second answers in one task.

**Deadlock** is not checked in these runs: a pool that was stopped, a buffer that
was closed and emptied, a connection that was dropped and a search that has found
its end have nothing left to do, which is where they should end.

## 4. What is proved

The proofs assume the named assumptions of the modules and nothing else:
`NumThreads` is a natural number (0 included), the poison is not a task, the
sizes of reads and writes are positive naturals, for the core there is at least
one thread and the ports are finitely many. For the connection a `size_t` has at
least the values of an unsigned `int`, the length of a body fits a `size_t`, and
the size of a chunk is any `int`, negative or not, which is what the code reads it
into (`http_service.cpp:421`). For the frame of a chunk its length with the line
end fits an `int`.

**ThreadPool.** `TypeCorrect`, `NoLostWakeupCorrect` and
`StopLeavesNoThreadCorrect`. The last needs a strengthening, `Shutdown`: a
worker has ended exactly when its poison was run (`PoisonEnds`), a thread that
was joined has ended (`JoinedEnded`), and the poison is queued only while
`stop()` waits for that thread or has passed it (`PoisonInOrder`). Without the
order, a stop after a throw could poison a thread twice and clear the threads
while the second is still running. `ImplementsMailbox` is the whole refinement: no
liveness is asked of `TaskMailbox`, so the pool implements it entirely. It uses
that a worker that ended takes no further step (`Closed` in the abstract). Two
lemmas serve the core: when the threads have been cleared, the index is empty
(`IndexClearedStep`, since no joined thread can still be inserting), and then the
queues and what was run stay as they are (`QuietOnceStopped`).

**ProducerConsumerBuf.** `TypedData` (types, the tiling of the blocks and their
order) is inductive and gives `TypeCorrect` and `BlocksTileStreamCorrect`; the
tiling cannot be separated from the types, since `total - n` is a natural
number only because reads are clamped to what the blocks hold. On top of it
stand `NoMissedFulfilmentCorrect`, `EofIsFinalCorrect`,
`AcquiredDataStaysCorrect` (with: what is held is never ahead of the read
head), `ReadsFollowStreamCorrect`, `HandlerAtMostOnceCorrect` (with: every id
in use was issued), and `ContractSafety`, the initial state and the steps of
the refinement to `AsyncStream`.

**SnodeCore.** `UsesPoolCorrect`: every step of the core is a step of
`ThreadPool` or leaves the pool alone, for any number of workers, ports, sockets
and stops. It needs `CoreInv`: while the main thread runs completions it is not
inside the loop of `stop()` (`MainIdle`), so a schedule from a completion is a
call the pool allows; the worker whose turn it is exists and a completion is one
of those asio can deliver (`Turns`). `SharedOutEvenlyCorrect` adds `Rounds`: after
n full turns the workers up to the last one used have had one socket more. The
bound alone is not inductive, it does not say which workers are ahead.
`TypeCorrect` takes the types of the pool from an instance of
`ThreadPoolProofs`. `OneWorkerPerConnectionCorrect` rests on `Home`: a read is
outstanding or completed only for a connection whose accept task some worker has
run, only one worker ever gets that task, and the read's task is only with it;
and a worker that runs has a task it runs, which is the one that may start a
read.

`NoWorkAfterStopCorrect` is an action property and rests on `StoppedInv`: the
types together with `Shutdown` and `IndexCleared` of the pool, which
`UsesPoolCorrect` carries over to it. With the index empty `schedule()` finds no
queue, so `HandleAccept` ends in `Refuse`, and only a socket that was posted
arms its port again (`ArmsWhenPosted`). Neither invariant of the pool can be
left out: the flag of the stop alone says nothing of a worker that is still to
be joined. `ServesMailboxesCorrect` puts the two refinements together: the core
takes only steps of the pool, and each of those is one of `TaskMailbox`; no run
repeats it, since `UsesPool` and `MailboxSpec` are each checked where they
belong.

**HttpConnection.** Everything follows from `Stage`: an open connection is in one
of the stages new, reading its head, refused, serving, dropped, and each stage
says which operation is outstanding, what is queued and how the counters of the
body stand. `OneOperation`, say, is not inductive by itself, since nothing in it
forbids that a handler that starts a read is queued while the response of a
refused request is being written. Proved for every chunk size, body length and
amount read ahead: `TypeCorrect`, `OneOperationCorrect`,
`NothingAfterDropCorrect`, `PutHasBytesCorrect`, `BodyIsWholeCorrect` and
`AnsweredOnceCorrect`.

**ContainerBuf.** `EveryByteOnceCorrect`, `OnlyWrittenChangesCorrect` and
`TypeCorrect`, from the types, the fact that the reader's side allocates and the
writer's side acquires nothing (`Sides`), that the head is never before where it
was set, and that a block that is lent is still what lies behind the head
(`Lent`).

**StreamOps.** `BytesInOrderCorrect`, `StopsAtDelimCorrect`, `EndCountsCorrect`
and `TypeCorrect`, for a buffer of any size, texts of any length and a source
and a target closed at any moment on this side. None of them is inductive: none
says which handler may be under way. `Stage` says that there is one chain: it
looks at the source, waits for it, has its answer or has one write under way;
only a line read can have several writes. Over that `InPlace` says where the
bytes are that left the source: those in the target, then those in `outbuf` or
in the task, one after the other up to `Passed`, the last byte taken that is not
the delimiter. `Delims` says that nothing is read behind a delimiter, `Once`
that the user's handler is the last to be called, and `Counted` how `total`
relates to the target while a write is under way. Line reads are left out of
`BytesInOrder` on purpose, since `read_line()` writes what it has more than
once.

**RequestSearch.** `SearchFindsEndCorrect`, for inputs of any length in any
pieces. The invariant ties `state` to the bytes just passed and says that no
match that is still possible begins before `excluded`.

**HttpText.** Each property of a function is a theorem about that function for
inputs of any length, and an invariant of the run that follows from it for every
bound. The functions are recursive, and a recursive definition says nothing until
a function with that recursion is known to exist. `RecursionExists` shows that
for recursion over the places of a sequence, and `AllPlaces` is the induction over
them: both take a set in place of a predicate and go by the least element of what
is missing (`LeastNumber`), so that no theorem with an operator parameter is
needed.

* `ChunkReadsBack`, of any buffer with the bytes from `data_offset` on, and
  `WriterShiftsChunk`, of the buffer that the response writer fills: the digits in
  the field are those of the length, right-aligned
  (`left[i]` is zero exactly from the number of digits on); the reader stops at
  the CR behind them, has the same number, and takes the bytes of the chunk.
* `HeadersAreCombined`: after k lines the entry of a name has the values of its
  lines from the first that is not empty (`After`); one more line adds to it
  (`OwnLine`) or is another header's (`OtherLine`).
* `PathsLeadToResource`: the loop of `split_path()` and the one over its segments
  are followed together. The paths that are asked for are the prefixes that end
  in a slash, as long as no slash is doubled; that a doubled slash changes nothing
  is shown by the loops over both texts, which agree behind it.
* `TypesAreRead`: what lies before the first semicolon and before the first equal
  sign is known from the way the text is put together, and `TrimIs` takes the
  blanks from both sides of each piece.

**Only model-checked.** Every invariant and every action property of the passing
runs is a theorem. The liveness properties `AcceptedTaskRuns`, `StopReturns`,
`CloseAnswersEveryCall`, `StopEndsAtLast`, `AcceptedIsServed`,
`RefusedIsDropped`, `EndReadFinishes` and the fairness condition of
`StreamContract` stay with TLC: liveness under fairness is out of the prover's
reach.

## 5. What is abstracted or left out

* The lost update is the outcome of the map race that is modelled. The race is
  undefined behaviour and may also corrupt the tree; no property could hold
  then.
* An assertion that fails ends the process: the Makefile (`src/Makefile:4`) builds
  without `NDEBUG`. The model has no step there (`Release` of more than the front
  block holds, `Alloc` twice).
* `getc` and `nextc` of the producer/consumer buffer do not compile when they
  are instantiated (the constructor of the request takes a pointer second), so
  nobody calls them. `putn_nocopy` of the base passes two arguments where three
  are needed and does not compile either.
* `scopy`, `getpos`, `in_avail` change nothing. A call with count 0 does nothing.
* Bytes of the producer/consumer buffer and of the stream operations are their
  positions; of a text of `StreamOps` it is kept which ones are line ends.
* The buffer has one worker. Its comment says that a reader and a writer need not
  coordinate (`producer_consumer_buf.h:624`), but its lock is commented out; two
  workers on one buffer would be a data race with no defined outcome.
* The target of a stream operation is closed only for writing, by its writer; its
  blocks are
  those of `ProducerConsumerBuf` and are not repeated.
* An exception that leaves `run()` of the core (`snode_core.cpp:26`) ends in
  `main()`; the model has the way out of `run()`, not what `main()` prints.

**Not modelled.**

* The senders of a response body, `set_body()`, `extract_string()` and their
  like, and the table of request handlers: no handler can be found, so no run of
  the program reaches them.
* `read()` into a buffer and `write()` of n from one: one call of `getn()` and one
  of `putn()`, which are modelled; single characters and seeks of the streams,
  which forward one call.
* `sourcebuf.h` and the media player: the player is not part of the build, and a
  test is the only other user.
* `async_timer.h`: nothing schedules a timer, so the program has no state in which
  it would be one.
* The second allocation of the handler allocator, an ordinary `new`: `OneOperation`
  shows that it is not needed.
* Configuration, registry, sequence generator, thread wrapper, tables of MIME
  types, of status texts and of characters: a library call or a constant each.

## 6. How the project grew, and what could follow

The order was: the pool and its proofs, the buffer and its proofs, the core over
the pool, then the connection, the stream operations, the container buffer and
the functions on text, each with its proofs where the provers reach. What could
follow: the senders of a response body once `get_req_handler()` finds a handler,
and the source buffer once something in the server uses it.
