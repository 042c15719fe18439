---------------------------- MODULE HttpConnection ----------------------------
(***************************************************************************)
(* One HTTP connection (http_connection, http_service.cpp) and the part of *)
(* the request it drives (http_request_impl and http_msg_base in http_msg).*)
(*                                                                         *)
(* Two threads take part.  The main thread completes reads and writes of   *)
(* the socket; asio_handler_dispatcher (handler_allocator.h) posts each    *)
(* handler to the worker of the connection, which runs its tasks in order. *)
(* A handler is one step, but for handle_headers(), which starts the read  *)
(* of the body before it dispatches the request: the read may complete in  *)
(* between.                                                                *)
(*                                                                         *)
(* What a request says is what the code tells apart: whether the request   *)
(* line and the header lines are accepted, the Connection header, the      *)
(* transfer encoding and the length of the body.  Bytes are counted.       *)
(* The size of a chunk is any int, as the code has it: a negative one is   *)
(* added to read_ and asked for like any other, and int and size_t wrap    *)
(* around, as they do in the build (-O0).                                  *)
(*                                                                         *)
(* Undefined behaviour is a choice.  create_istream() of a buffer that no  *)
(* shared_ptr owns throws on the worker, which ends the process, or goes   *)
(* on; putn() of a copy of the stream buffer that is sliced to its base    *)
(* ends the process, stores all, stores nothing or never answers.  It      *)
(* never stores a count below 0, which is a size_t that no memory has.     *)
(*                                                                         *)
(* Every reply the code makes has no body: get_req_handler() finds nothing *)
(* and only reply_if_not_already() replies.  The senders of a body are not *)
(* reached and not modelled.                                               *)
(***************************************************************************)
EXTENDS Integers, Sequences

CONSTANTS ChunkSize,   \* the most bytes of a body that one read asks for
          BodyLength,  \* the Content-Length headers that clients send, 0 for none
          ChunkLength, \* the sizes of chunks that clients send, negative ones among them
          IntMax,      \* the largest int
          SizeMod,     \* the number of values of size_t
          Ahead,       \* bound: bytes a read may take beyond those it waits for
          MaxBody      \* bound: the most bytes of chunks in a request

ASSUME HttpAssumption == /\ IntMax \in Nat /\ SizeMod \in Nat /\ 2 * IntMax + 2 <= SizeMod
                         /\ ChunkSize \in 1 .. SizeMod - 1
                         /\ BodyLength \subseteq 0 .. SizeMod - 1
                         /\ ChunkLength \subseteq (-IntMax - 1) .. IntMax
                         /\ Ahead \in Nat /\ MaxBody \in 0 .. SizeMod - 1

VARIABLES
  conn,            \* "new", in connections_ of the listener ("open"), or "dropped"
  reading,         \* the read outstanding on the socket: its handler and the bytes it waits for
  writing,         \* a write is outstanding on the socket
  queue,           \* the tasks of this connection on its worker, in order
  dispatching,     \* the worker is in handle_headers(), before the dispatch
  reply,           \* the status of response_ once initiated_response_ is set, or "none"
  data_available_, \* the size of the body once complete() was called, else 0
  waiting,         \* the number of data_ready_handlers_
  close_, chunked_, read_, read_size_,
  bufsize,         \* bytes in request_buf_
  stored,          \* bytes of the body that the stream of the message took
  completed,       \* how often complete() was called
  sent,            \* the responses written to the socket, in order
  terminated       \* std::terminate() was called

body == <<data_available_, read_, bufsize, stored, completed>>
ends == <<reply, waiting, close_, chunked_, read_size_, sent>>
vars == <<conn, reading, writing, queue, dispatching, body, ends, terminated>>

Error   == {"eof", "error"}
NoRead  == [h |-> "none", need |-> 0, len |-> 0]
Task(h, ec, n) == [h |-> h, ec |-> ec, n |-> n]

Lesser(m, n)  == IF m <= n THEN m ELSE n

\* Mutant: the comparison of the sizes is left out.
Less_Uncompared(m, n) == m - n

\* The bytes of m beyond n.
Less(m, n) == IF n <= m THEN m - n ELSE 0

\* The size_t that n becomes, and the int that a sum of two becomes.
AsSize(n) == IF n < 0 THEN n + SizeMod ELSE n
AsInt(n)  == IF n > IntMax THEN n - 2 * (IntMax + 1) ELSE n

Init ==
  /\ conn = "new" /\ reading = NoRead /\ writing = FALSE /\ queue = <<>>
  /\ dispatching = FALSE /\ reply = "none" /\ data_available_ = 0 /\ waiting = 0
  /\ close_ \in BOOLEAN /\ chunked_ \in BOOLEAN  \* the constructor leaves them unset
  /\ read_ = 0 /\ read_size_ = 0 /\ bufsize = 0 /\ stored = 0
  /\ completed = 0 /\ sent = <<>> /\ terminated = FALSE

-----------------------------------------------------------------------------
(* The main thread *)

\* A read up to a line end leaves what it took behind the line; a read of so many bytes ends
\* with those bytes in the buffer, with more behind them or not; a read of none takes none.
\* More bytes than an int counts never come.
ReadCompletes ==
  /\ ~terminated /\ reading # NoRead /\ reading.need <= IntMax
  /\ \E extra \in 0 .. Ahead :
       bufsize' = IF reading.h \in {"http_line", "chunked_header"} THEN extra
                  ELSE IF reading.need = 0 THEN bufsize ELSE bufsize + reading.need + extra
  /\ queue' = Append(queue, Task(reading.h, "ok", reading.len))
  /\ reading' = NoRead
  /\ UNCHANGED <<conn, writing, dispatching, data_available_, read_, stored, completed, ends,
                 terminated>>

\* The client has closed its end, or the socket fails.
ReadFails ==
  /\ ~terminated /\ reading # NoRead
  /\ \E ec \in Error : queue' = Append(queue, Task(reading.h, ec, 0))
  /\ reading' = NoRead
  /\ UNCHANGED <<conn, writing, dispatching, body, ends, terminated>>

\* A write completes, with the response on its way to the client or with an error.
WriteCompletes ==
  /\ ~terminated /\ writing
  /\ \/ /\ queue' = Append(queue, Task("headers_written", "ok", 0))
        /\ sent' = Append(sent, reply)
     \/ /\ queue' = Append(queue, Task("headers_written", "error", 0))
        /\ UNCHANGED sent
  /\ writing' = FALSE
  /\ UNCHANGED <<conn, reading, dispatching, body, reply, waiting, close_, chunked_, read_size_,
                 terminated>>

-----------------------------------------------------------------------------
(* The worker *)

Runs(h) == ~terminated /\ ~dispatching /\ queue # <<>> /\ Head(queue).h = h
Done    == queue' = Tail(queue)
DoneAndPost(t) == queue' = Append(Tail(queue), t)

\* Mutant: with enough bytes for a part of it, nothing is waited for.
ReadUntilSize_Any(n, h, len) ==
  reading' = [h |-> h, need |-> IF bufsize' > 0 THEN 0 ELSE n, len |-> len]

\* async_read_until_buffersize(): waits for the bytes that are not in the buffer yet.
ReadUntilSize(n, h, len) == reading' = [h |-> h, need |-> Less(n, bufsize'), len |-> len]

ReadUntilMatch(h) == reading' = [h |-> h, need |-> 0, len |-> 0]

\* Mutant: complete() is called with what was asked for instead of what was read.
Complete_Asked(n) == /\ data_available_' = IF n = 0 THEN read_size_ ELSE n
                     /\ completed' = completed + 1

\* complete() of the request: the handlers that wait for the data stay where they are.
Complete(n) == /\ data_available_' = n
               /\ completed' = completed + 1

\* Mutant: the read of the next request is left outstanding.
Finish_StillReading ==
  /\ conn' = "dropped" /\ close_' = TRUE /\ ReadUntilMatch("http_line")

\* finish_request_response(): the socket is closed and the listener drops the connection.
Finish == /\ conn' = "dropped" /\ close_' = TRUE /\ UNCHANGED reading

\* reply_if_not_already(): the first reply is the response.
Reply(status) == reply' = IF reply = "none" THEN status ELSE reply

\* do_response(): the response is ready, so handle_response() becomes a task.
DoResponse(tasks, how) == queue' = Append(tasks, Task("response", how, 0))

\* Mutants: a second reply takes the place of the first one; the connection is kept open.
Refuse_Again ==
  /\ reply' = "BadRequest" /\ close_' = TRUE
  /\ queue' = Tail(queue) \o <<Task("response", "bad", 0), Task("response", "bad", 0)>>
Refuse_NoTask == reply' = "BadRequest" /\ close_' = TRUE /\ Done

\* reply_if_not_already(BadRequest), then do_response(true), which finds the response ready.
Refuse == Reply("BadRequest") /\ close_' = TRUE /\ DoResponse(Tail(queue), "bad")

\* The listener accepts: the connection is made, which starts to read, and kept.
DoAccept ==
  /\ ~terminated /\ conn = "new"
  /\ conn' = "open"
  /\ bufsize' = 0 /\ read_' = 0 /\ read_size_' = 0
  /\ ReadUntilMatch("http_line")
  /\ UNCHANGED <<writing, queue, dispatching, data_available_, stored, completed, reply, waiting,
                 close_, chunked_, sent, terminated>>

\* The request line cannot be read or is not accepted, or a header line has no name.
HandleBadRequest ==
  /\ Runs("http_line")
  /\ Head(queue).ec # "eof"
  /\ Refuse
  /\ UNCHANGED <<conn, reading, writing, dispatching, body, waiting, chunked_, read_size_, sent,
                 terminated>>

\* The client has gone before it sent a request.
HandleGone ==
  /\ Runs("http_line")
  /\ Head(queue).ec = "eof"
  /\ Finish
  /\ Done
  /\ UNCHANGED <<writing, dispatching, body, reply, waiting, chunked_, read_size_, sent,
                 terminated>>

\* The stream buffer of the body is on the stack: create_istream() may throw.
StreamThrows ==
  /\ Runs("http_line")
  /\ Head(queue).ec = "ok"
  /\ terminated' = TRUE
  /\ UNCHANGED <<conn, reading, writing, queue, dispatching, body, ends>>

\* handle_http_line() and handle_headers() of a request that is accepted, up to the dispatch.
\* close_ is what the Connection header says: a close_ set for HTTP/1.0 is lost here.
HandleHeaders ==
  /\ Runs("http_line")
  /\ Head(queue).ec = "ok"
  /\ close_' \in BOOLEAN
  /\ \/ /\ chunked_' = TRUE
        /\ ReadUntilMatch("chunked_header")
        /\ UNCHANGED <<read_size_, data_available_, completed, bufsize>>
     \/ /\ chunked_' = FALSE
        /\ read_size_' \in BodyLength
        /\ UNCHANGED bufsize
        /\ IF read_size_' = 0
           THEN Complete(0) /\ UNCHANGED reading
           ELSE /\ ReadUntilSize(Lesser(ChunkSize, read_size_'), "body", 0)
                /\ UNCHANGED <<data_available_, completed>>
  /\ dispatching' = TRUE
  /\ Done
  /\ UNCHANGED <<conn, writing, read_, stored, reply, waiting, sent, terminated>>

\* dispatch_request_to_listener(): no handler is ever found.
DispatchRequest ==
  /\ ~terminated /\ dispatching
  /\ dispatching' = FALSE
  /\ Reply("NotFound")
  /\ DoResponse(queue, "good")
  /\ UNCHANGED <<conn, reading, writing, body, waiting, close_, chunked_, read_size_, sent,
                 terminated>>

\* putn() of a sliced copy of the stream buffer.
Put(n, h) ==
  \/ \E count \in {0, n} \cap Nat : DoneAndPost(Task(h, "ok", count)) /\ UNCHANGED terminated
  \/ Done /\ UNCHANGED terminated
  \/ terminated' = TRUE /\ UNCHANGED queue

\* The size of a chunk was read: the last one ends the body.
ChunkOf(len) ==
  IF len = 0
  THEN Complete(read_) /\ UNCHANGED <<reading, read_, bufsize>>
  ELSE /\ read_' = AsSize(read_ + len)
       /\ UNCHANGED <<data_available_, completed, bufsize>>
       /\ ReadUntilSize(AsSize(AsInt(len + 2)), "chunked_body", len)

HandleChunkedHeader ==
  /\ Runs("chunked_header")
  /\ IF Head(queue).ec # "ok"
     THEN Complete(0) /\ UNCHANGED <<reading, read_, bufsize>>
     ELSE \E len \in ChunkLength \cup {0} : read_ + len <= MaxBody /\ ChunkOf(len)
  /\ Done
  /\ UNCHANGED <<conn, writing, dispatching, stored, ends, terminated>>

HandleChunkedBody ==
  /\ Runs("chunked_body")
  /\ IF Head(queue).ec # "ok"
     THEN Complete(0) /\ Done /\ UNCHANGED terminated
     ELSE Put(Head(queue).n, "chunked_written") /\ UNCHANGED <<data_available_, completed>>
  /\ UNCHANGED <<conn, reading, writing, dispatching, read_, bufsize, stored, ends>>

\* handle_chunked_body_buff_write()
ChunkedBodyWritten ==
  /\ Runs("chunked_written")
  /\ LET count == Head(queue).n
     IN  IF count # 0
         THEN /\ stored' = stored + count
              /\ bufsize' = Less(bufsize, 2 + count)
              /\ ReadUntilMatch("chunked_header")
              /\ UNCHANGED <<data_available_, completed>>
         ELSE Complete(0) /\ UNCHANGED <<stored, bufsize, reading>>
  /\ Done
  /\ UNCHANGED <<conn, writing, dispatching, read_, ends, terminated>>

HandleBody ==
  /\ Runs("body")
  /\ IF Head(queue).ec # "ok"
     THEN Complete(0) /\ Done /\ UNCHANGED terminated
     ELSE IF read_ < read_size_
     THEN /\ Put(Lesser(bufsize, read_size_ - read_), "body_written")
          /\ UNCHANGED <<data_available_, completed>>
     ELSE Complete(read_) /\ Done /\ UNCHANGED terminated
  /\ UNCHANGED <<conn, reading, writing, dispatching, read_, bufsize, stored, ends>>

\* handle_body_buff_write()
BodyWritten ==
  /\ Runs("body_written")
  /\ LET count == Head(queue).n
     IN  IF count # 0
         THEN /\ stored' = stored + count
              /\ read_' = read_ + count
              /\ bufsize' = Less(bufsize, count)
              /\ ReadUntilSize(Lesser(ChunkSize, read_size_ - read_'), "body", 0)
              /\ UNCHANGED <<data_available_, completed>>
         ELSE Complete(0) /\ UNCHANGED <<stored, read_, bufsize, reading>>
  /\ Done
  /\ UNCHANGED <<conn, writing, dispatching, ends, terminated>>

\* Mutant: the response does not wait for the request.
MaySend_Always == TRUE

\* A refused request is answered at once, another one when its body is there.
MaySend == Head(queue).ec = "bad" \/ data_available_ # 0

\* content_ready(): the handler is kept until there is data.
WaitForData == waiting' = waiting + 1

\* handle_response(): async_process_response(), or a handler waits.
HandleResponse ==
  /\ Runs("response")
  /\ IF MaySend
     THEN writing' = TRUE /\ chunked_' = FALSE /\ UNCHANGED waiting
     ELSE WaitForData /\ UNCHANGED <<writing, chunked_>>
  /\ Done
  /\ UNCHANGED <<conn, reading, dispatching, body, reply, close_, read_size_, sent, terminated>>

\* start_request_response()
StartRequestResponse ==
  /\ read_size_' = 0 /\ read_' = 0 /\ bufsize' = 0
  /\ ReadUntilMatch("http_line")
  /\ UNCHANGED <<conn, close_>>

\* handle_headers_written(): there is no body to write, the response is out, or has failed.
HandleHeadersWritten ==
  /\ Runs("headers_written")
  /\ IF Head(queue).ec = "ok" /\ ~close_
     THEN StartRequestResponse
     ELSE Finish /\ UNCHANGED <<read_size_, read_, bufsize>>
  /\ Done
  /\ UNCHANGED <<writing, dispatching, data_available_, stored, completed, reply, waiting,
                 chunked_, sent, terminated>>

-----------------------------------------------------------------------------
Worker ==
  \/ DoAccept \/ HandleBadRequest \/ HandleGone \/ StreamThrows \/ HandleHeaders
  \/ DispatchRequest \/ HandleChunkedHeader \/ HandleChunkedBody \/ ChunkedBodyWritten
  \/ HandleBody \/ BodyWritten \/ HandleResponse \/ HandleHeadersWritten

Next == ReadCompletes \/ ReadFails \/ WriteCompletes \/ Worker

\* The worker runs the tasks it has; the socket takes or fails a small response.  Nothing makes
\* a client send.
Fairness == WF_vars(Worker) /\ WF_vars(WriteCompletes)
Spec     == Init /\ [][Next]_vars /\ Fairness

-----------------------------------------------------------------------------
(* Properties *)

Handler == {"none", "http_line", "chunked_header", "chunked_body", "chunked_written", "body",
            "body_written", "response", "headers_written"}

\* The tasks and the reads: only those of a chunk may have a number below 0.
Tasks == [h : Handler, ec : {"ok", "good", "bad"} \cup Error, n : Nat]
           \cup [h : {"chunked_body"}, ec : {"ok"}, n : Int]
Reads == [h : Handler, need : Nat, len : Nat] \cup [h : {"chunked_body"}, need : Nat, len : Int]

\* Every variable of the connection keeps the kind of value it has in the code: all sizes but
\* that of a chunk are from 0 on, and read_ stays within size_t.
TypeOK ==
  /\ conn \in {"new", "open", "dropped"}
  /\ reading \in Reads
  /\ writing \in BOOLEAN /\ dispatching \in BOOLEAN /\ terminated \in BOOLEAN
  /\ queue \in Seq(Tasks)
  /\ reply \in {"none", "BadRequest", "NotFound"} /\ sent \in Seq({"BadRequest", "NotFound"})
  /\ data_available_ \in Nat /\ waiting \in Nat /\ read_ \in 0 .. SizeMod - 1
  /\ read_size_ \in 0 .. SizeMod - 1 /\ bufsize \in Nat /\ stored \in Nat /\ completed \in Nat
  /\ close_ \in BOOLEAN /\ chunked_ \in BOOLEAN

\* The tasks that go on from a read or a write of the connection, by their places in the queue.
\* Only the response is a task of its own.
Chained == {i \in 1 .. Len(queue) : queue[i].h # "response"}

\* Although the read of a body and the response are two chains of handlers that both threads
\* work on, there is never more than one operation under way, be it outstanding on the socket
\* or a task that goes on from one: nothing uses request_buf_, or the one block of
\* handler_allocator, while the other thread does.
OneOperation ==
  /\ ~(reading # NoRead /\ writing)
  /\ reading # NoRead \/ writing => Chained = {}
  /\ \A i, j \in Chained : i = j

\* The handlers hold a bare pointer to the connection: none is left when it is dropped.
NothingAfterDrop ==
  conn = "dropped" => reading = NoRead /\ ~writing /\ queue = <<>> /\ ~dispatching

\* The handlers of the body give putn() bytes that are in request_buf_: a chunk of a size above
\* 0 with the line end behind it, or at least one byte of a body that is not complete.  Nothing
\* is said of a chunk of a negative size, which handle_chunked_header() does not refuse.
PutHasBytes ==
  \A i \in 1 .. Len(queue) :
    queue[i].ec = "ok" =>
      /\ queue[i].h = "chunked_body" /\ queue[i].n > 0 => queue[i].n + 2 <= bufsize
      /\ queue[i].h = "body" /\ read_ < read_size_ => bufsize > 0

\* complete() is called once; a size other than 0 is that of the whole body, which the stream
\* of the message has.  No chunk of a negative size makes read_ that of a body.
BodyIsWhole ==
  /\ completed <= 1
  /\ data_available_ # 0 => /\ data_available_ = stored
                            /\ ~chunked_ => data_available_ = read_size_

\* A request is answered at most once, with the reply it was given: no handler that runs later
\* replies again, or answers with another status.
AnsweredOnce ==
  /\ Len(sent) <= 1
  /\ \A i \in 1 .. Len(sent) : sent[i] = reply

\* A connection whose request was refused is dropped, whether or not the response gets out.
RefusedIsDropped == reply = "BadRequest" ~> (conn = "dropped" \/ terminated)

\* content_ready() (http_msg.h:810): a handler that waits for the body of a request is run when
\* all of it was received.  It is not: complete() leaves the handlers in their queue.
ContentReadyIsSignalled ==
  (waiting > 0 /\ data_available_ # 0) ~> (waiting = 0 \/ terminated)
=============================================================================
