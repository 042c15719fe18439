------------------------------- MODULE StreamOps -------------------------------
(***************************************************************************)
(* The reads of a stream into another buffer (async_streams.h):            *)
(* read_to_delim(), read_line() and read_to_end() of async_istream, each   *)
(* a chain of handlers on one worker.  The source is the asynchronous      *)
(* stream of AsyncStream.tla, which ProducerConsumerBuf.tla implements;    *)
(* the target is a producer_consumer_buffer, of which the bytes written    *)
(* are kept, and whether it can be written.                                *)
(*                                                                         *)
(* A byte is its number in the source.  The text says which bytes are line *)
(* ends: the delimiter of read_to_delim() is the line feed.  The loop over *)
(* the bytes that are there is a step for each byte; nothing else runs on  *)
(* the worker until it ends, and both buffers belong to the worker.        *)
(***************************************************************************)
EXTENDS Integers, Sequences

CONSTANTS BufSize,  \* buf_size_
          MaxText   \* bound: the most bytes written to the source

ASSUME StreamAssumption == BufSize \in Nat \ {0} /\ MaxText \in Nat

VARIABLES
  text,         \* the kind of every byte that the writer will write
  written, consumed, flushed, open, waiting,  \* the source: see AsyncStream
  readable,     \* the source can be read: its reader has not closed it
  op,           \* the operation: "delim", "line" or "end"
  base_target,  \* the target is used through async_streambuf, which drops an empty putn()
  target,       \* the bytes in the target
  target_open,  \* the target can be written
  tasks,        \* the tasks of the operation on the worker, in order
  pc,           \* "start" before the call, then "enter" and "loop" of the read, "idle", or
                \* "terminated" when an exception has ended the process
  done,         \* eof_or_delim_ or eof_or_crlf_ of the running handler
  outbuf,       \* the bytes in outbuf of the helper, as many as write_pos (or as getn() gave)
  total,        \* total of the helper
  result        \* the counts given to the user's handler, in order

Source == INSTANCE AsyncStream WITH Size <- {1, BufSize}

source == <<text, written, consumed, flushed, open, waiting>>
sides  == <<readable, op, base_target, target, target_open>>
read   == <<tasks, pc, done, outbuf, total, result>>
vars   == <<source, sides, read>>

Kind   == {"x", "cr", "lf"}
Eof    == 0
Texts  == UNION {[1 .. n -> Kind] : n \in 0 .. MaxText}

Span(m, n) == [i \in 1 .. n - m |-> m + i]   \* the bytes after m up to n
Unread == written - consumed

\* The handlers that wait on the worker: a read that was answered, a write of the target, and
\* the answer to a write.
OnRead(bytes)     == [h |-> "on_read", bytes |-> bytes, done |-> FALSE, n |-> 0]
PutTask(bytes, d) == [h |-> "put", bytes |-> bytes, done |-> d, n |-> 0]
OnWrite(n, d)     == [h |-> "on_write", bytes |-> <<>>, done |-> d, n |-> n]

Init ==
  /\ text \in Texts /\ Source!Init
  /\ op \in {"delim", "line", "end"} /\ base_target \in BOOLEAN
  /\ readable = TRUE /\ target = <<>> /\ target_open = TRUE
  /\ tasks = <<>> /\ pc = "start" /\ done = FALSE /\ outbuf = <<>> /\ total = 0 /\ result = <<>>

-----------------------------------------------------------------------------
(* The other users of the two buffers, on the same worker *)

Idle == pc \in {"start", "idle"}

\* Bytes that are written while nobody can read are only pretended to be, unless they were
\* allocated and committed.
Write ==
  /\ Idle /\ written < Len(text)
  /\ written' \in written + 1 .. Len(text) /\ Source!Write
  /\ UNCHANGED <<text, sides, read>>

Flush == Idle /\ Source!Flush /\ UNCHANGED <<text, sides, read>>

Close ==
  /\ Idle /\ open /\ (readable => written = Len(text))
  /\ Source!Close
  /\ UNCHANGED <<text, sides, read>>

\* close() of the istream, and of the target.  A read that waits goes on waiting.
CloseSource ==
  /\ Idle /\ readable
  /\ readable' = FALSE
  /\ UNCHANGED <<source, op, base_target, target, target_open, read>>

CloseTarget ==
  /\ Idle /\ target_open
  /\ target_open' = FALSE
  /\ UNCHANGED <<source, readable, op, base_target, target, read>>

\* The source answers a read that waited.
Answer ==
  /\ Idle
  /\ Source!Answer
  /\ tasks' = Append(tasks, OnRead(Span(consumed, consumed')))
  /\ UNCHANGED <<text, sides, pc, done, outbuf, total, result>>

-----------------------------------------------------------------------------
(* The steps of a read *)

\* bumpc() or getn() of the source: it has ended for a reader that closed it; else the read is
\* answered at once, or it waits.
Request(n, rest) ==
  IF ~readable THEN tasks' = Append(rest, OnRead(<<>>)) /\ UNCHANGED source
  ELSE IF Source!Ready(n)
  THEN /\ Source!Take(n)
       /\ tasks' = Append(rest, OnRead(Span(consumed, consumed')))
       /\ UNCHANGED <<text, waiting>>
  ELSE /\ waiting' = Append(waiting, n)
       /\ tasks' = rest
       /\ UNCHANGED <<text, written, consumed, flushed, open>>

\* putn() of the target, with what follows: an empty one has no answer through the base.
Put(bytes, d, rest) ==
  tasks' = IF base_target /\ bytes = <<>> THEN rest
           ELSE IF base_target /\ ~target_open THEN Append(rest, OnWrite(0, d))
           ELSE Append(rest, PutTask(bytes, d))

\* The user calls the operation, of a source that can be read and a target that can be written.
Call ==
  /\ pc = "start" /\ readable /\ target_open
  /\ pc' = "enter"
  /\ UNCHANGED <<source, sides, tasks, done, outbuf, total, result>>

\* read_to_delim() and read_line(): with nothing in the source they wait for a byte.
Enter ==
  /\ pc = "enter" /\ op # "end"
  /\ IF Unread = 0
     THEN Request(1, tasks) /\ pc' = "idle"
     ELSE pc' = "loop" /\ UNCHANGED <<source, tasks>>
  /\ UNCHANGED <<sides, done, outbuf, total, result>>

\* Mutant: the next read is not started.
ReadMore_Stops(rest) == tasks' = rest /\ UNCHANGED source

\* read_to_end() goes on.
ReadMore(rest) == Request(BufSize, rest)

\* read_to_end()
EnterEnd ==
  /\ pc = "enter" /\ op = "end"
  /\ ReadMore(tasks)
  /\ pc' = "idle"
  /\ UNCHANGED <<sides, done, outbuf, total, result>>

Take(n) == Source!Take(n) /\ UNCHANGED <<text, waiting>>

\* The loop ends when the source has no more: nothing is left behind that would go on.
LoopDrained ==
  /\ pc = "loop" /\ Unread = 0
  /\ pc' = "idle"
  /\ UNCHANGED <<source, sides, tasks, done, outbuf, total, result>>

\* Mutant: the loop goes on behind the delimiter.
LeaveLoop_GoesOn == UNCHANGED pc

\* break
LeaveLoop == pc' = "idle"

\* sbumpc() of a source that its reader closed: the end, although bytes are there.
LoopEof ==
  /\ pc = "loop" /\ Unread > 0 /\ ~readable
  /\ done' = TRUE
  /\ Put(outbuf, TRUE, tasks)
  /\ LeaveLoop
  /\ UNCHANGED <<source, sides, outbuf, total, result>>

\* A delimiter in the loop: what was read is written, the loop ends.
LoopDelim ==
  /\ pc = "loop" /\ Unread > 0 /\ readable /\ op = "delim" /\ text[consumed + 1] = "lf"
  /\ Take(1)
  /\ done' = TRUE
  /\ Put(outbuf, TRUE, tasks)
  /\ LeaveLoop
  /\ UNCHANGED <<sides, outbuf, total, result>>

\* A carriage return in the loop: update_after_cr() takes a line feed behind it, if it is there,
\* and writes what was read.  The loop goes on.
LoopCr ==
  /\ pc = "loop" /\ Unread > 0 /\ readable /\ op = "line" /\ text[consumed + 1] = "cr"
  /\ Take(IF Unread > 1 /\ text[consumed + 2] = "lf" THEN 2 ELSE 1)
  /\ done' = TRUE
  /\ Put(outbuf, TRUE, tasks)
  /\ UNCHANGED <<sides, pc, outbuf, total, result>>

\* Any other byte in the loop: a full buffer is written, and the loop ends.
LoopByte ==
  /\ pc = "loop" /\ Unread > 0 /\ readable
  /\ text[consumed + 1] # (IF op = "delim" THEN "lf" ELSE "cr")
  /\ Take(1)
  /\ outbuf' = Append(outbuf, consumed + 1)
  /\ IF Len(outbuf') = BufSize
     THEN Put(outbuf', done, tasks) /\ LeaveLoop
     ELSE UNCHANGED <<tasks, pc>>
  /\ UNCHANGED <<sides, done, total, result>>

-----------------------------------------------------------------------------
(* The handlers *)

Runs(h) == Idle /\ tasks # <<>> /\ Head(tasks).h = h

\* on_read() of a delimiter or line read, which waited for one byte.
OnReadByte ==
  /\ Runs("on_read") /\ op # "end"
  /\ LET bytes == Head(tasks).bytes
         rest  == Tail(tasks)
         kind  == IF bytes = <<>> THEN "eof" ELSE text[bytes[1]]
     IN  IF kind = "eof" \/ (op = "delim" /\ kind = "lf")
         THEN Put(outbuf, TRUE, rest) /\ UNCHANGED <<source, outbuf, pc, done>>
         ELSE IF op = "line" /\ kind = "cr"
         THEN /\ IF readable /\ Unread > 0 /\ text[consumed + 1] = "lf" THEN Take(1)
                 ELSE UNCHANGED source
              /\ Put(outbuf, TRUE, rest)
              /\ UNCHANGED <<outbuf, pc, done>>
         ELSE /\ outbuf' = outbuf \o bytes
              /\ done' = FALSE
              /\ IF Len(outbuf') = BufSize
                 THEN Put(outbuf', FALSE, rest) /\ UNCHANGED pc
                 ELSE pc' = "enter" /\ tasks' = rest
              /\ UNCHANGED source
  /\ UNCHANGED <<sides, total, result>>

\* on_read() of read_to_end()
OnReadEnd ==
  /\ Runs("on_read") /\ op = "end"
  /\ LET bytes == Head(tasks).bytes
     IN  IF bytes # <<>>
         THEN outbuf' = bytes /\ Put(bytes, FALSE, Tail(tasks)) /\ UNCHANGED result
         ELSE result' = Append(result, total) /\ tasks' = Tail(tasks) /\ UNCHANGED outbuf
  /\ UNCHANGED <<source, sides, pc, done, total>>

\* The target's write of the copy that putn() made.
TargetWrites ==
  /\ Runs("put")
  /\ LET t == Head(tasks)
     IN  /\ target' = IF target_open THEN target \o t.bytes ELSE target
         /\ tasks' = Append(Tail(tasks), OnWrite(IF target_open THEN Len(t.bytes) ELSE 0, t.done))
  /\ UNCHANGED <<source, readable, op, base_target, target_open, pc, done, outbuf, total, result>>

\* Mutants: the buffer is not emptied; the total is that of the last write.
Written_Keeps(n) == total' = total + n /\ UNCHANGED outbuf
Written_Last(n)  == total' = n /\ outbuf' = <<>>

\* The bytes in outbuf are in the target.
Written(n) == total' = total + n /\ outbuf' = <<>>

\* sync() of the target in on_write(): through the base it throws when the target was closed
\* after the write, and nothing on the worker catches that.
SyncThrows == Head(tasks).n # 0 /\ base_target /\ ~target_open

OnWriteThrows ==
  /\ Runs("on_write") /\ SyncThrows
  /\ pc' = "terminated"
  /\ UNCHANGED <<source, sides, tasks, done, outbuf, total, result>>

\* on_write() of a delimiter or line read: the user gets the count of the last write.
OnWriteByte ==
  /\ Runs("on_write") /\ op # "end" /\ ~SyncThrows
  /\ tasks' = Tail(tasks)
  /\ LET t == Head(tasks)
     IN  IF t.n = 0
         THEN result' = Append(result, total) /\ UNCHANGED <<pc, done, outbuf, total>>
         ELSE /\ Written(t.n)
              /\ IF t.done
                 THEN result' = Append(result, t.n) /\ UNCHANGED <<pc, done>>
                 ELSE pc' = "enter" /\ done' = FALSE /\ UNCHANGED result
  /\ UNCHANGED <<source, sides>>

\* on_write() of read_to_end()
OnWriteEnd ==
  /\ Runs("on_write") /\ op = "end" /\ ~SyncThrows
  /\ LET t == Head(tasks)
     IN  IF t.n = 0
         THEN /\ result' = Append(result, total)
              /\ tasks' = Tail(tasks)
              /\ UNCHANGED <<source, outbuf, total>>
         ELSE /\ Written(t.n)
              /\ ReadMore(Tail(tasks))
              /\ UNCHANGED result
  /\ UNCHANGED <<sides, pc, done>>

-----------------------------------------------------------------------------
Reader == \/ Enter \/ EnterEnd \/ LoopDrained \/ LoopEof \/ LoopDelim \/ LoopCr \/ LoopByte
          \/ OnReadByte \/ OnReadEnd \/ TargetWrites \/ OnWriteThrows \/ OnWriteByte \/ OnWriteEnd
Next   == Call \/ Write \/ Flush \/ Close \/ CloseSource \/ CloseTarget \/ Answer \/ Reader

\* The worker runs what it has, and the source answers (AsyncStream).  Nothing makes the user
\* call, or the writer write or close.
Spec == Init /\ [][Next]_vars /\ WF_vars(Reader) /\ WF_vars(Answer)

-----------------------------------------------------------------------------
(* Properties *)

Byte == 1 .. MaxText

\* Every variable keeps the kind of value it has in the code; outbuf is never overrun.
TypeOK ==
  /\ text \in Seq(Kind) /\ Len(text) <= MaxText
  /\ consumed \in 0 .. written /\ written \in 0 .. Len(text) /\ flushed \in 0 .. Unread
  /\ open \in BOOLEAN /\ waiting \in Seq({1, BufSize})
  /\ op \in {"delim", "line", "end"} /\ base_target \in BOOLEAN
  /\ readable \in BOOLEAN /\ target_open \in BOOLEAN
  /\ target \in Seq(Byte) /\ outbuf \in Seq(Byte) /\ Len(outbuf) <= BufSize
  /\ tasks \in Seq([h : {"on_read", "put", "on_write"}, bytes : Seq(Byte), done : BOOLEAN, n : Nat])
  /\ pc \in {"start", "enter", "loop", "idle", "terminated"} /\ done \in BOOLEAN
  /\ total \in Nat /\ result \in Seq(Nat)

\* The data among bytes of the source: a delimiter behind them is not data.
Data(bytes) ==
  IF op = "delim" /\ bytes # <<>> /\ text[bytes[Len(bytes)]] = "lf"
  THEN [i \in 1 .. Len(bytes) - 1 |-> bytes[i]] ELSE bytes

\* The data that has left the source and is not in the target yet.
Moving ==
  IF tasks = <<>> THEN outbuf
  ELSE LET t == Head(tasks)
       IN  CASE t.h = "on_read"  -> outbuf \o Data(t.bytes)
             [] t.h = "put"      -> t.bytes
             [] t.h = "on_write" -> <<>>

\* read_to_delim() and read_to_end() move the bytes of the source in order, whatever the pieces
\* in which they arrive: as long as the target takes them, none is lost, doubled or overtaken.
BytesInOrder == op # "line" /\ target_open => target \o Moving = Data(Span(0, consumed))

\* read_to_delim() takes no byte behind the delimiter, and the user's handler is called once.
StopsAtDelim ==
  /\ op = "delim" => \A i \in 1 .. consumed - 1 : text[i] # "lf"
  /\ op # "line" => Len(result) <= 1

\* The count that read_to_end() gives is the number of bytes it wrote to the target: all those
\* of the source, which has ended, unless one of the two was closed on this side.
EndCounts ==
  op = "end" /\ result # <<>> =>
    /\ result = <<Len(target)>>
    /\ target_open /\ readable => ~open /\ target = Span(0, Len(text))

\* read_to_end() of a stream that its writer has closed comes to its end, whichever of the two
\* sides is closed meanwhile, unless the exception of sync() ends the process.
EndReadFinishes ==
  pc # "start" /\ op = "end" /\ ~open ~> result # <<>> \/ pc = "terminated"

\* The handler of read_to_delim() is called when the read completes (async_streams.h:1296), so
\* it is called when the stream has ended.  It is not: the loop that takes the last byte of the
\* source leaves nothing behind that would see the end.
DelimReadFinishes ==
  pc # "start" /\ op = "delim" /\ ~base_target /\ ~open ~>
    result # <<>> \/ ~readable \/ ~target_open
=============================================================================
