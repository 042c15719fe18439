-------------------------- MODULE HttpConnectionProofs --------------------------
(***************************************************************************)
(* What holds of a connection for any size of reads, bodies and chunks.    *)
(*                                                                         *)
(* The invariant goes through the life of a connection, stage by stage.    *)
(* In the one stage that has two chains of handlers, an accepted request   *)
(* being read and answered, it says what the next handler of the body can  *)
(* rely on, wherever that handler is: outstanding on the socket or in the  *)
(* queue.  The response is in the queue before the second handler of the   *)
(* body is, so it finds no data; this is why there is one chain only.      *)
(***************************************************************************)
EXTENDS HttpConnection, SequenceTheorems, TLAPS

\* Nothing was received of a body, nothing waits for one.
NoBody == data_available_ = 0 /\ completed = 0 /\ stored = 0 /\ waiting = 0

\* Before the connection is made.
New ==
  /\ conn = "new" /\ reading = NoRead /\ ~writing /\ queue = <<>> /\ ~dispatching
  /\ reply = "none" /\ sent = <<>> /\ read_ = 0 /\ NoBody

\* The head of the request is read.
Reading ==
  /\ conn = "open" /\ ~writing /\ ~dispatching /\ reply = "none" /\ sent = <<>>
  /\ read_ = 0 /\ NoBody
  /\ \/ reading # NoRead /\ reading.h = "http_line" /\ queue = <<>>
     \/ reading = NoRead /\ Len(queue) = 1 /\ queue[1].h = "http_line"

\* A refused request is answered.
Refused ==
  /\ conn = "open" /\ reading = NoRead /\ ~dispatching /\ reply = "BadRequest" /\ close_ /\ NoBody
  /\ \/ ~writing /\ queue = <<Task("response", "bad", 0)>> /\ sent = <<>>
     \/ writing /\ queue = <<>> /\ sent = <<>>
     \/ ~writing /\ Len(queue) = 1 /\ queue[1].h = "headers_written" /\ sent \in {<<>>, <<"BadRequest">>}

Dropped ==
  /\ conn = "dropped" /\ reading = NoRead /\ ~writing /\ queue = <<>> /\ ~dispatching
  /\ data_available_ = 0 /\ completed = 0
  /\ \/ sent = <<>>
     \/ sent = <<"BadRequest">> /\ reply = "BadRequest"

Good      == Task("response", "good", 0)
BodyReads == {"chunked_header", "chunked_body", "body"}
Writes    == {"chunked_written", "body_written"}

\* What a handler of the body can rely on, with n bytes for it and b bytes in the buffer: nothing
\* for a chunk of a negative size, of which nothing is ever stored.
Ready(h, n, b) ==
  /\ h = "chunked_header"  => chunked_ /\ stored = read_
  /\ h = "chunked_body"    => chunked_ /\ (n > 0 => stored + n = read_ /\ n + 2 <= b)
  /\ h = "chunked_written" => chunked_ /\ (n # 0 => stored + n = read_)
  /\ h = "body"            => /\ ~chunked_ /\ stored = read_ /\ read_ <= read_size_
                              /\ read_ < read_size_ => b > 0
  /\ h = "body_written"    => ~chunked_ /\ stored = read_ /\ read_ + n <= read_size_

\* The tasks of an accepted request: the response and one handler of the body, in any order.
ServingTasks ==
  /\ Len(queue) <= 2
  /\ \A i \in 1 .. Len(queue) :
       queue[i] = Good \/ /\ queue[i].h \in BodyReads \cup Writes
                          /\ queue[i].ec = "ok" => Ready(queue[i].h, queue[i].n, bufsize)
                          /\ queue[i].h \in Writes => queue[i].ec = "ok"
  /\ Len(queue) = 2 => (queue[1] = Good <=> queue[2] # Good)

\* The read of the body, unless it has a task or has ended.
ServingRead ==
  reading # NoRead =>
    /\ reading.h \in BodyReads /\ Ready(reading.h, reading.len, bufsize + reading.need)
    /\ \A i \in 1 .. Len(queue) : queue[i] = Good

\* The first handler of the body, which has nothing yet, or none.
AtStart ==
  /\ read_ = 0 /\ data_available_ = 0
  /\ queue # <<>> => queue[1].h \in {"chunked_header", "body"}
  /\ reading # NoRead => reading.h \in {"chunked_header", "body"}

\* The response is in the queue before anything of the body has been handled but the first size.
ServingOrder ==
  /\ dispatching => AtStart /\ \A i \in 1 .. Len(queue) : queue[i] # Good
  /\ Len(queue) = 2 /\ queue[2] = Good => AtStart
  /\ \A i \in 1 .. Len(queue) : queue[i] = Good => data_available_ = 0

\* complete() is called by the last handler of the body.
ServingEnd ==
  /\ completed \in {0, 1}
  /\ completed = 0 => data_available_ = 0
  /\ completed = 1 => reading = NoRead /\ \A i \in 1 .. Len(queue) : queue[i] = Good
  /\ data_available_ # 0 => data_available_ = stored /\ (~chunked_ => data_available_ = read_size_)

\* An accepted request is read and answered.
Serving ==
  /\ conn = "open" /\ ~writing /\ sent = <<>>
  /\ reply = IF dispatching THEN "none" ELSE "NotFound"
  /\ ServingTasks /\ ServingRead /\ ServingOrder /\ ServingEnd

Stage == New \/ Reading \/ Refused \/ Dropped \/ Serving

IInv == TypeOK /\ Stage

-----------------------------------------------------------------------------
(* Types *)

\* What the operators return.
LEMMA Types ==
  /\ \A h \in Handler, ec \in {"ok", "good", "bad"} \cup Error, n \in Nat : Task(h, ec, n) \in Tasks
  /\ NoRead \in Reads
  /\ \A n \in Int : Task("chunked_body", "ok", n) \in Tasks
  /\ \A m, n \in Nat : Less(m, n) \in Nat /\ Lesser(m, n) \in Nat
<1>1. \A h \in Handler, ec \in {"ok", "good", "bad"} \cup Error, n \in Nat : Task(h, ec, n) \in Tasks
  BY DEF Task, Tasks
<1>2. NoRead \in Reads
  BY DEF NoRead, Reads, Handler
<1>3. \A m, n \in Nat : Less(m, n) \in Nat /\ Lesser(m, n) \in Nat
  BY DEF Less, Lesser
<1>4. \A n \in Int : Task("chunked_body", "ok", n) \in Tasks
  BY DEF Task, Tasks
<1> QED
  BY <1>1, <1>2, <1>3, <1>4

\* The types of the queue and of the read are those that change in most actions.
LEMMA TypeOfQueue ==
  ASSUME TypeOK, queue # <<>>
  PROVE  /\ Head(queue) \in Tasks /\ Tail(queue) \in Seq(Tasks)
         /\ Head(queue).h \in Handler /\ Head(queue).n \in Int
         /\ Head(queue).h # "chunked_body" => Head(queue).n \in Nat
<1>1. queue \in Seq(Tasks)
  BY DEF TypeOK, Tasks
<1>2. Head(queue) \in Tasks /\ Tail(queue) \in Seq(Tasks)
  BY <1>1
<1> QED
  BY <1>2 DEF Tasks, Handler

LEMMA InitType == Init => TypeOK
<1> SUFFICES ASSUME Init PROVE TypeOK
  OBVIOUS
<1>1. reading \in Reads
  BY Types DEF Init
<1>2. queue = <<>> /\ sent = <<>>
  BY DEF Init
<1>3. /\ writing \in BOOLEAN /\ dispatching \in BOOLEAN /\ terminated \in BOOLEAN
      /\ close_ \in BOOLEAN /\ chunked_ \in BOOLEAN
  BY Zenon DEF Init
<1>4. /\ conn \in {"new", "open", "dropped"} /\ reply \in {"none", "BadRequest", "NotFound"}
      /\ data_available_ \in Nat /\ waiting \in Nat /\ read_ \in 0 .. SizeMod - 1
      /\ read_size_ \in 0 .. SizeMod - 1
      /\ bufsize \in Nat /\ stored \in Nat /\ completed \in Nat
  BY HttpAssumption DEF Init
<1>5. queue \in Seq(Tasks) /\ sent \in Seq({"BadRequest", "NotFound"})
  BY <1>2
<1> QED
  BY <1>1, <1>3, <1>4, <1>5 DEF TypeOK, Reads, Tasks

LEMMA ReadType ==
  ASSUME TypeOK, bufsize' \in Nat, NEW n \in Nat, NEW h \in Handler, NEW len \in Nat
  PROVE  /\ ReadUntilSize(n, h, len) => reading' \in Reads
         /\ ReadUntilMatch(h) => reading' \in Reads
         /\ \A k \in Int : ReadUntilSize(n, "chunked_body", k) => reading' \in Reads
<1>1. Less(n, bufsize') \in Nat
  BY Types
<1> QED
  BY <1>1 DEF ReadUntilSize, ReadUntilMatch, Reads

\* A task is put behind others.
LEMMA AppendType ==
  ASSUME NEW q \in Seq(Tasks), NEW h \in Handler, NEW ec \in {"ok", "good", "bad"} \cup Error,
         NEW n \in Nat
  PROVE  Append(q, Task(h, ec, n)) \in Seq(Tasks)
<1>1. Task(h, ec, n) \in Tasks
  BY Types
<1> QED
  BY <1>1

\* The task of a read has the size of its chunk.
LEMMA TaskOfRead ==
  ASSUME reading \in Reads PROVE Task(reading.h, "ok", reading.len) \in Tasks
<1>1. CASE reading \in [h : Handler, need : Nat, len : Nat]
  BY <1>1, Types
<1>2. CASE reading \in [h : {"chunked_body"}, need : Nat, len : Int]
  BY <1>2, Types
<1> QED
  BY <1>1, <1>2 DEF Reads

LEMMA SocketType ==
  ASSUME IInv, ReadCompletes \/ ReadFails \/ WriteCompletes PROVE TypeOK'
<1> USE DEF IInv, TypeOK, body, ends
<1>1. reading \in Reads /\ queue \in Seq(Tasks)
  BY DEF Reads, Tasks
<1>2. CASE ReadCompletes
  <2>1. reading.h \in Handler /\ reading.need \in Nat
    BY <1>1 DEF Reads, Handler
  <2>2. queue' \in Seq(Tasks)
    BY <1>1, <1>2, TaskOfRead DEF ReadCompletes
  <2>3. bufsize' \in Nat
    BY <1>2, <2>1, HttpAssumption DEF ReadCompletes
  <2>4. reading' \in Reads
    BY <1>2, Types DEF ReadCompletes
  <2> QED
    BY <1>2, <2>2, <2>3, <2>4 DEF ReadCompletes, Reads, Tasks
<1>3. CASE ReadFails
  <2>1. reading.h \in Handler
    BY <1>1 DEF Reads, Handler
  <2>2. PICK ec \in Error : queue' = Append(queue, Task(reading.h, ec, 0))
    BY <1>3 DEF ReadFails
  <2>3. queue' \in Seq(Tasks)
    BY <1>1, <2>1, <2>2, AppendType
  <2>4. reading' \in Reads
    BY <1>3, Types DEF ReadFails
  <2> QED
    BY <1>3, <2>3, <2>4 DEF ReadFails, Reads, Tasks
<1>4. CASE WriteCompletes
  <2>1. reply \in {"BadRequest", "NotFound"}
    BY <1>4 DEF WriteCompletes, Stage, New, Reading, Refused, Dropped, Serving
  <2>2. "headers_written" \in Handler /\ "error" \in Error
    BY DEF Handler, Error
  <2>3. queue' \in Seq(Tasks)
    <3>1. CASE queue' = Append(queue, Task("headers_written", "ok", 0))
      BY <1>1, <2>2, <3>1, AppendType
    <3>2. CASE queue' = Append(queue, Task("headers_written", "error", 0))
      BY <1>1, <2>2, <3>2, AppendType
    <3> QED
      BY <1>4, <3>1, <3>2 DEF WriteCompletes
  <2>4. sent' \in Seq({"BadRequest", "NotFound"})
    <3>1. sent' = sent \/ sent' = Append(sent, reply)
      BY <1>4, Zenon DEF WriteCompletes
    <3> QED
      BY <2>1, <3>1
  <2> QED
    BY <1>4, <2>3, <2>4 DEF WriteCompletes, Tasks
<1> QED
  BY <1>2, <1>3, <1>4

\* The handlers of the head, the replies and the end.
LEMMA HeadType ==
  ASSUME IInv, DoAccept \/ HandleBadRequest \/ HandleGone \/ StreamThrows \/ HandleHeaders
                 \/ DispatchRequest \/ HandleResponse \/ HandleHeadersWritten
  PROVE  TypeOK'
<1> USE DEF IInv, TypeOK, body, ends
<1>1. reading \in Reads /\ queue \in Seq(Tasks)
  BY DEF Reads, Tasks
<1>2. /\ "http_line" \in Handler /\ "chunked_header" \in Handler /\ "body" \in Handler
      /\ "response" \in Handler
  BY DEF Handler
<1>3. CASE DoAccept
  <2>1. reading' \in Reads
    BY <1>2, <1>3, ReadType DEF DoAccept
  <2> QED
    BY <1>1, <1>3, <2>1, HttpAssumption DEF DoAccept, Reads, Tasks
<1>4. CASE HandleBadRequest
  <2>1. queue' \in Seq(Tasks)
    BY <1>2, <1>4, TypeOfQueue, AppendType DEF HandleBadRequest, Runs, Refuse, DoResponse
  <2>2. reply' \in {"none", "BadRequest", "NotFound"} /\ close_' \in BOOLEAN
    BY <1>4 DEF HandleBadRequest, Refuse, Reply
  <2> QED
    BY <1>1, <1>4, <2>1, <2>2 DEF HandleBadRequest, Reads, Tasks
<1>5. CASE HandleGone
  <2>1. queue' \in Seq(Tasks)
    BY <1>5, TypeOfQueue DEF HandleGone, Runs, Done
  <2> QED
    BY <1>1, <1>5, <2>1 DEF HandleGone, Finish, Reads, Tasks
<1>6. CASE StreamThrows
  BY <1>1, <1>6 DEF StreamThrows, Reads, Tasks
<1>7. CASE HandleHeaders
  <2>1. queue' \in Seq(Tasks)
    BY <1>7, TypeOfQueue DEF HandleHeaders, Runs, Done
  <2>2. close_' \in BOOLEAN /\ dispatching' \in BOOLEAN
    BY <1>7, Zenon DEF HandleHeaders
  <2>3. CASE chunked_' = TRUE
    <3>1. /\ ReadUntilMatch("chunked_header")
          /\ UNCHANGED <<read_size_, data_available_, completed, bufsize>>
      BY <1>7, <2>3 DEF HandleHeaders
    <3>2. reading' \in Reads
      BY <1>2, <3>1, ReadType
    <3> QED
      BY <1>1, <1>7, <2>1, <2>2, <2>3, <3>1, <3>2 DEF HandleHeaders, Reads, Tasks
  <2>4. CASE chunked_' = FALSE
    <3>1. /\ read_size_' \in 0 .. SizeMod - 1 /\ bufsize' = bufsize
          /\ \/ Complete(0) /\ UNCHANGED reading
             \/ ReadUntilSize(Lesser(ChunkSize, read_size_'), "body", 0)
                /\ UNCHANGED <<data_available_, completed>>
      BY <1>7, <2>4, HttpAssumption DEF HandleHeaders
    <3>2. Lesser(ChunkSize, read_size_') \in Nat
      <4>1. ChunkSize \in Nat /\ read_size_' \in Nat
        BY <3>1, HttpAssumption
      <4> QED
        BY <4>1, Types
    <3>3. reading' \in Reads
      BY <1>1, <1>2, <3>1, <3>2, ReadType
    <3>4. data_available_' \in Nat /\ completed' \in Nat
      BY <3>1 DEF Complete
    <3> QED
      BY <1>1, <1>7, <2>1, <2>2, <2>4, <3>1, <3>3, <3>4 DEF HandleHeaders, Reads, Tasks
  <2> QED
    BY <1>7, <2>3, <2>4 DEF HandleHeaders
<1>8. CASE DispatchRequest
  <2>1. queue' \in Seq(Tasks)
    BY <1>1, <1>2, <1>8, AppendType DEF DispatchRequest, DoResponse
  <2>2. reply' \in {"none", "BadRequest", "NotFound"} /\ dispatching' \in BOOLEAN
    BY <1>8 DEF DispatchRequest, Reply
  <2> QED
    BY <1>1, <1>8, <2>1, <2>2 DEF DispatchRequest, Reads, Tasks
<1>9. CASE HandleResponse
  <2>1. queue' \in Seq(Tasks)
    BY <1>9, TypeOfQueue DEF HandleResponse, Runs, Done
  <2>2. writing' \in BOOLEAN /\ chunked_' \in BOOLEAN /\ waiting' \in Nat
    <3>1. \/ writing' = TRUE /\ chunked_' = FALSE /\ waiting' = waiting
          \/ waiting' = waiting + 1 /\ writing' = writing /\ chunked_' = chunked_
      <4>1. CASE MaySend
        BY <1>9, <4>1, Zenon DEF HandleResponse
      <4>2. CASE ~MaySend
        BY <1>9, <4>2, Zenon DEF HandleResponse, WaitForData
      <4> QED
        BY <4>1, <4>2
    <3>2. writing' \in BOOLEAN /\ chunked_' \in BOOLEAN
      BY <3>1, Zenon
    <3>3. waiting' \in Nat
      BY <3>1
    <3> QED
      BY <3>2, <3>3
  <2> QED
    BY <1>1, <1>9, <2>1, <2>2 DEF HandleResponse, Reads, Tasks
<1>10. CASE HandleHeadersWritten
  <2>1. queue' \in Seq(Tasks)
    BY <1>10, TypeOfQueue DEF HandleHeadersWritten, Runs, Done
  <2>2. /\ reading' \in Reads /\ conn' \in {"new", "open", "dropped"} /\ close_' \in BOOLEAN
        /\ read_' \in 0 .. SizeMod - 1 /\ read_size_' \in 0 .. SizeMod - 1 /\ bufsize' \in Nat
    <3>1. CASE StartRequestResponse
      BY <1>2, <3>1, ReadType, HttpAssumption DEF StartRequestResponse
    <3>2. CASE Finish /\ UNCHANGED <<read_size_, read_, bufsize>>
      BY <1>1, <3>2 DEF Finish
    <3> QED
      BY <1>10, <3>1, <3>2 DEF HandleHeadersWritten
  <2> QED
    BY <1>1, <1>10, <2>1, <2>2 DEF HandleHeadersWritten, Reads, Tasks
<1> QED
  BY <1>3, <1>4, <1>5, <1>6, <1>7, <1>8, <1>9, <1>10

\* Runs("...") of a handler of the body, and what putn() leads to.
LEMMA PutType ==
  ASSUME TypeOK, queue # <<>>, NEW n \in Int, NEW h \in Handler, Put(n, h)
  PROVE  queue' \in Seq(Tasks) /\ terminated' \in BOOLEAN
<1>1. queue \in Seq(Tasks) /\ Tail(queue) \in Seq(Tasks) /\ terminated \in BOOLEAN
  BY TypeOfQueue DEF TypeOK, Tasks
<1>2. CASE \E count \in {0, n} \cap Nat : DoneAndPost(Task(h, "ok", count)) /\ UNCHANGED terminated
  <2>1. PICK count \in {0, n} \cap Nat : DoneAndPost(Task(h, "ok", count)) /\ UNCHANGED terminated
    BY <1>2
  <2>2. count \in Nat
    OBVIOUS
  <2> QED
    BY <1>1, <2>1, <2>2, AppendType DEF DoneAndPost
<1>3. CASE Done /\ UNCHANGED terminated
  BY <1>1, <1>3 DEF Done
<1>4. CASE terminated' = TRUE /\ UNCHANGED queue
  BY <1>1, <1>4
<1> QED
  BY <1>2, <1>3, <1>4 DEF Put

-----------------------------------------------------------------------------
(* Stages *)

\* In which stage what can happen.
LEMMA StageOf ==
  ASSUME IInv
  PROVE  /\ conn = "new" => New
         /\ reading # NoRead => Reading \/ Serving
         /\ writing => Refused
         /\ dispatching => Serving
<1> QED
  BY DEF IInv, Stage, New, Reading, Refused, Dropped, Serving

LEMMA HeadOf ==
  ASSUME IInv, queue # <<>>
  PROVE  /\ Len(queue) \in Nat /\ Len(queue) >= 1 /\ Head(queue) = queue[1]
         /\ Len(queue) = 1 => Tail(queue) = <<>>
         /\ Len(queue) = 2 => Tail(queue) = <<queue[2]>>
<1>1. queue \in Seq(Tasks)
  BY DEF IInv, TypeOK, Tasks
<1>2. Len(queue) \in Nat /\ Len(queue) >= 1 /\ Head(queue) = queue[1]
  BY <1>1
<1>3. ASSUME Len(queue) = 1 PROVE Tail(queue) = <<>>
  <2>1. Tail(queue) \in Seq(Tasks) /\ Len(Tail(queue)) = Len(queue) - 1
    BY <1>1, HeadTailProperties
  <2>2. Len(Tail(queue)) = 0
    BY <1>3, <2>1
  <2> QED
    BY <2>1, <2>2, EmptySeq
<1>4. ASSUME Len(queue) = 2 PROVE Tail(queue) = <<queue[2]>>
  <2>1. Tail(queue) \in Seq(Tasks) /\ Len(Tail(queue)) = 1 /\ Tail(queue)[1] = queue[2]
    BY <1>1, <1>4, HeadTailProperties
  <2>2. <<queue[2]>> \in Seq(Tasks) /\ Len(<<queue[2]>>) = 1 /\ <<queue[2]>>[1] = queue[2]
    BY <1>1, <1>4
  <2>3. \A i \in 1 .. Len(Tail(queue)) : Tail(queue)[i] = <<queue[2]>>[i]
    BY <2>1, <2>2
  <2> QED
    BY <2>1, <2>2, <2>3, SeqEqual
<1> QED
  BY <1>2, <1>3, <1>4

LEMMA StageOfTask ==
  ASSUME IInv, NEW h \in Handler, Runs(h)
  PROVE  /\ h = "http_line" => Reading
         /\ h \in BodyReads \cup Writes => Serving
         /\ h = "response" => Refused \/ Serving
         /\ h = "headers_written" => Refused
<1>1. queue # <<>> /\ queue[1].h = h /\ Len(queue) \in Nat /\ Len(queue) >= 1
  BY HeadOf DEF Runs
<1>2. Reading => h = "http_line"
  BY <1>1 DEF Reading
<1>3. Refused => h \in {"response", "headers_written"}
  BY <1>1 DEF Refused, Task
<1>4. Serving => h \in BodyReads \cup Writes \cup {"response"}
  BY <1>1 DEF Serving, ServingTasks, Good, Task
<1>5. ~New /\ ~Dropped
  BY <1>1 DEF New, Dropped
<1> QED
  BY <1>2, <1>3, <1>4, <1>5 DEF IInv, Stage, BodyReads, Writes

\* A handler of the body runs: nothing else of the body is there, and behind it is the response
\* at most, and then the body is at its start.
LEMMA BodyTask ==
  ASSUME IInv, NEW h \in BodyReads \cup Writes, Runs(h)
  PROVE  /\ Serving /\ ~dispatching /\ reading = NoRead /\ completed = 0 /\ data_available_ = 0
         /\ Head(queue).ec = "ok" => Ready(h, Head(queue).n, bufsize)
         /\ h \in Writes => Head(queue).ec = "ok"
         /\ \/ Tail(queue) = <<>>
            \/ Tail(queue) = <<Good>> /\ read_ = 0 /\ h \in {"chunked_header", "body"}
<1>1. /\ queue # <<>> /\ Head(queue) = queue[1] /\ queue[1].h = h
      /\ Len(queue) \in Nat /\ Len(queue) >= 1
  BY HeadOf DEF Runs
<1>2. Serving /\ ~dispatching
  BY StageOfTask DEF Runs, BodyReads, Writes, Handler
<1>3. queue[1] # Good
  BY <1>1 DEF Good, Task, BodyReads, Writes
<1>4. reading = NoRead /\ completed = 0 /\ data_available_ = 0
  BY <1>1, <1>2, <1>3 DEF Serving, ServingRead, ServingEnd
<1>5. /\ queue[1].ec = "ok" => Ready(h, queue[1].n, bufsize)
      /\ h \in Writes => queue[1].ec = "ok"
  BY <1>1, <1>2, <1>3 DEF Serving, ServingTasks
<1>6. Len(queue) = 1 \/ (Len(queue) = 2 /\ queue[2] = Good /\ AtStart)
  <2>1. Len(queue) <= 2 /\ (Len(queue) = 2 => queue[2] = Good)
    BY <1>2, <1>3 DEF Serving, ServingTasks
  <2>2. Len(queue) = 2 => AtStart
    BY <1>2, <2>1 DEF Serving, ServingOrder
  <2>3. Len(queue) \in {1, 2}
    <3>1. Len(queue) \in Nat /\ Len(queue) >= 1
      BY <1>1
    <3>2. Len(queue) <= 2
      BY <2>1
    <3>3. \A n \in Nat : n >= 1 /\ n <= 2 => n \in {1, 2}
      OBVIOUS
    <3> QED
      BY <3>1, <3>2, <3>3
  <2> QED
    BY <2>1, <2>2, <2>3, Zenon
<1> QED
  BY <1>1, <1>2, <1>4, <1>5, <1>6, HeadOf DEF AtStart

\* Sizes of chunks as int and as size_t: the sum with a line end wraps to a size that is not less.
LEMMA Sizes ==
  ASSUME NEW len \in (-IntMax - 1) .. IntMax
  PROVE  /\ AsSize(AsInt(len + 2)) \in Nat
         /\ len > 0 => len + 2 <= AsSize(AsInt(len + 2))
         /\ \A m \in 0 .. SizeMod - 1 :
              m + len <= MaxBody => /\ AsSize(m + len) \in 0 .. SizeMod - 1
                                    /\ len > 0 => AsSize(m + len) = m + len
<1>1. /\ IntMax \in Nat /\ SizeMod \in Nat /\ 2 * IntMax + 2 <= SizeMod
      /\ MaxBody \in Nat /\ MaxBody <= SizeMod - 1
  BY HttpAssumption
<1>2. AsInt(len + 2) = IF len + 2 > IntMax THEN len + 2 - 2 * (IntMax + 1) ELSE len + 2
  BY <1>1 DEF AsInt
<1>3. AsSize(AsInt(len + 2)) \in Nat /\ (len > 0 => len + 2 <= AsSize(AsInt(len + 2)))
  BY <1>1, <1>2 DEF AsSize
<1> QED
  BY <1>1, <1>3 DEF AsSize

LEMMA BodyType ==
  ASSUME IInv, HandleChunkedHeader \/ HandleChunkedBody \/ ChunkedBodyWritten \/ HandleBody
                 \/ BodyWritten
  PROVE  TypeOK'
<1> USE DEF IInv, TypeOK, body, ends
<1>1. reading \in Reads /\ queue \in Seq(Tasks)
  BY DEF Reads, Tasks
<1>2. /\ "chunked_header" \in Handler /\ "chunked_body" \in Handler /\ "body" \in Handler
      /\ "chunked_written" \in Handler /\ "body_written" \in Handler
  BY DEF Handler
<1>3. CASE HandleChunkedHeader
  <2>1. queue' \in Seq(Tasks)
    BY <1>3, TypeOfQueue DEF HandleChunkedHeader, Runs, Done
  <2> DEFINE Typed == /\ reading' \in Reads /\ read_' \in 0 .. SizeMod - 1 /\ bufsize' \in Nat
                      /\ data_available_' \in Nat /\ completed' \in Nat
  <2>2. Typed
    <3>1. CASE Complete(0) /\ UNCHANGED <<reading, read_, bufsize>>
      BY <1>1, <3>1 DEF Complete
    <3>2. ASSUME NEW len \in ChunkLength \cup {0}, read_ + len <= MaxBody, ChunkOf(len)
          PROVE  Typed
      <4>1. len \in Int /\ AsSize(AsInt(len + 2)) \in Nat /\ AsSize(read_ + len) \in 0 .. SizeMod - 1
        <5>1. len \in (-IntMax - 1) .. IntMax /\ len \in Int
          BY HttpAssumption
        <5>2. read_ \in 0 .. SizeMod - 1
          OBVIOUS
        <5> QED
          BY <3>2, <5>1, <5>2, Sizes
      <4>2. CASE len = 0
        BY <1>1, <3>2, <4>2 DEF ChunkOf, Complete
      <4>3. CASE len # 0
        <5>1. /\ read_' = AsSize(read_ + len) /\ UNCHANGED <<data_available_, completed, bufsize>>
              /\ ReadUntilSize(AsSize(AsInt(len + 2)), "chunked_body", len)
          BY <3>2, <4>3 DEF ChunkOf
        <5>2. reading' \in Reads
          BY <1>2, <4>1, <5>1, ReadType
        <5> QED
          BY <4>1, <5>1, <5>2
      <4> QED
        BY <4>2, <4>3
    <3>3. \/ Complete(0) /\ UNCHANGED <<reading, read_, bufsize>>
          \/ \E len \in ChunkLength \cup {0} : read_ + len <= MaxBody /\ ChunkOf(len)
      BY <1>3 DEF HandleChunkedHeader
    <3> HIDE DEF Typed
    <3> QED
      BY <3>1, <3>2, <3>3
  <2> QED
    BY <1>1, <1>3, <2>1, <2>2 DEF HandleChunkedHeader, Reads, Tasks
<1>4. CASE HandleChunkedBody
  <2>1. queue # <<>> /\ Head(queue).n \in Int /\ Tail(queue) \in Seq(Tasks)
    BY <1>4, TypeOfQueue DEF HandleChunkedBody, Runs
  <2>2. /\ queue' \in Seq(Tasks) /\ terminated' \in BOOLEAN
        /\ data_available_' \in Nat /\ completed' \in Nat
    <3>1. CASE Complete(0) /\ Done /\ UNCHANGED terminated
      BY <2>1, <3>1 DEF Complete, Done
    <3>2. CASE Put(Head(queue).n, "chunked_written") /\ UNCHANGED <<data_available_, completed>>
      BY <1>2, <2>1, <3>2, PutType
    <3> QED
      BY <1>4, <3>1, <3>2 DEF HandleChunkedBody
  <2> QED
    BY <1>1, <1>4, <2>2 DEF HandleChunkedBody, Reads, Tasks
<1>5. CASE ChunkedBodyWritten
  <2>1. queue # <<>> /\ Head(queue).n \in Nat /\ Tail(queue) \in Seq(Tasks)
    BY <1>5, TypeOfQueue DEF ChunkedBodyWritten, Runs
  <2>2. queue' \in Seq(Tasks)
    BY <1>5, <2>1 DEF ChunkedBodyWritten, Done
  <2>3. /\ stored' \in Nat /\ bufsize' \in Nat /\ reading' \in Reads
        /\ data_available_' \in Nat /\ completed' \in Nat
    <3>1. CASE Head(queue).n # 0
      <4>1. /\ stored' = stored + Head(queue).n /\ bufsize' = Less(bufsize, 2 + Head(queue).n)
            /\ ReadUntilMatch("chunked_header") /\ UNCHANGED <<data_available_, completed>>
        BY <1>5, <3>1 DEF ChunkedBodyWritten
      <4>2. bufsize' \in Nat
        BY <2>1, <4>1 DEF Less
      <4> QED
        BY <1>2, <2>1, <4>1, <4>2, ReadType
    <3>2. CASE Head(queue).n = 0
      BY <1>1, <1>5, <3>2 DEF ChunkedBodyWritten, Complete
    <3> QED
      BY <3>1, <3>2
  <2> QED
    BY <1>1, <1>5, <2>2, <2>3 DEF ChunkedBodyWritten, Reads, Tasks
<1>6. CASE HandleBody
  <2>1. queue # <<>> /\ Tail(queue) \in Seq(Tasks)
    BY <1>6, TypeOfQueue DEF HandleBody, Runs
  <2>2. /\ queue' \in Seq(Tasks) /\ terminated' \in BOOLEAN
        /\ data_available_' \in Nat /\ completed' \in Nat
    <3>1. CASE Head(queue).ec = "ok" /\ read_ < read_size_
      <4>1. Lesser(bufsize, read_size_ - read_) \in Nat
        BY <3>1 DEF Lesser
      <4> QED
        BY <1>2, <1>6, <2>1, <3>1, <4>1, PutType DEF HandleBody
    <3>2. CASE ~(Head(queue).ec = "ok" /\ read_ < read_size_)
      <4>1. (Complete(0) \/ Complete(read_)) /\ Done /\ UNCHANGED terminated
        BY <1>6, <3>2, Zenon DEF HandleBody
      <4> QED
        BY <2>1, <4>1 DEF Complete, Done
    <3> QED
      BY <3>1, <3>2
  <2> QED
    BY <1>1, <1>6, <2>2 DEF HandleBody, Reads, Tasks
<1>7. CASE BodyWritten
  <2>1. queue # <<>> /\ Head(queue).n \in Nat /\ Tail(queue) \in Seq(Tasks)
    BY <1>7, TypeOfQueue DEF BodyWritten, Runs
  <2>2. queue' \in Seq(Tasks)
    BY <1>7, <2>1 DEF BodyWritten, Done
  <2>3. /\ stored' \in Nat /\ read_' \in 0 .. SizeMod - 1 /\ bufsize' \in Nat /\ reading' \in Reads
        /\ data_available_' \in Nat /\ completed' \in Nat
    <3>1. CASE Head(queue).n # 0
      <4>1. /\ stored' = stored + Head(queue).n /\ read_' = read_ + Head(queue).n
            /\ bufsize' = Less(bufsize, Head(queue).n)
            /\ ReadUntilSize(Lesser(ChunkSize, read_size_ - read_'), "body", 0)
            /\ UNCHANGED <<data_available_, completed>>
        BY <1>7, <3>1 DEF BodyWritten
      <4>2. stored' \in Nat /\ read_' \in Nat /\ bufsize' \in Nat
        <5>1. stored' = stored + Head(queue).n /\ read_' = read_ + Head(queue).n
          BY <4>1
        <5>2. bufsize' = Less(bufsize, Head(queue).n)
          BY <4>1
        <5>3. stored' \in Nat /\ read_' \in Nat
          <6>1. \A m, n \in Nat : m + n \in Nat
            OBVIOUS
          <6>2. stored \in Nat /\ read_ \in Nat
            OBVIOUS
          <6> QED
            BY ONLY <2>1, <5>1, <6>1, <6>2
        <5>4. Less(bufsize, Head(queue).n) \in Nat
          BY <2>1, Types
        <5> QED
          BY <5>2, <5>3, <5>4
      <4>3. read_size_ - read_' \in Int
        BY <4>2
      <4>4. Lesser(ChunkSize, read_size_ - read_') \in Int
        BY <4>3, HttpAssumption DEF Lesser
      <4>5. Less(Lesser(ChunkSize, read_size_ - read_'), bufsize') \in Nat
        BY <4>2, <4>4 DEF Less
      <4>6. reading' \in Reads
        BY <1>2, <4>1, <4>5 DEF ReadUntilSize, Reads
      <4>7. data_available_' \in Nat /\ completed' \in Nat
        BY <4>1
      <4>8. read_' <= SizeMod - 1
        <5>1. read_ + Head(queue).n <= read_size_
          BY <1>7, BodyTask DEF BodyWritten, Writes, Ready
        <5>2. read_size_ <= SizeMod - 1 /\ read_' = read_ + Head(queue).n
          BY <4>1
        <5> QED
          BY <2>1, <4>2, <5>1, <5>2, HttpAssumption
      <4> QED
        BY <4>2, <4>6, <4>7, <4>8, HttpAssumption
    <3>2. CASE Head(queue).n = 0
      BY <1>1, <1>7, <3>2 DEF BodyWritten, Complete
    <3> QED
      BY <3>1, <3>2
  <2> QED
    BY <1>1, <1>7, <2>2, <2>3 DEF BodyWritten, Reads, Tasks
<1> QED
  BY <1>3, <1>4, <1>5, <1>6, <1>7

LEMMA StepType == ASSUME IInv, [Next]_vars PROVE TypeOK'
<1>1. CASE UNCHANGED vars
  BY <1>1 DEF IInv, TypeOK, vars, body, ends
<1>2. CASE Next
  BY <1>2, SocketType, HeadType, BodyType DEF Next, Worker
<1> QED
  BY <1>1, <1>2

\* What a handler of the body leaves: the response at most, with the next read, with nothing, or
\* with the write of a part of the body; or the end of the body.
LEMMA ServingAgain ==
  ASSUME conn' = "open", ~writing', sent' = <<>>, reply' = "NotFound", ~dispatching',
         NEW rest \in {<<>>, <<Good>>},
         \/ /\ queue' = rest /\ data_available_' = 0 /\ completed' = 0
            /\ reading' # NoRead =>
                 /\ reading'.h \in BodyReads
                 /\ Ready(reading.h, reading.len, bufsize + reading.need)'
         \/ /\ queue' = rest /\ completed' = 1 /\ reading' = NoRead
            /\ \/ data_available_' = 0
               \/ /\ rest = <<>> /\ data_available_' = stored'
                  /\ ~chunked_' => data_available_' = read_size_'
         \/ \E t \in Tasks :
              /\ queue' = Append(rest, t) /\ t.ec = "ok" /\ t.h \in Writes
              /\ (Ready(t.h, t.n, bufsize))' /\ reading' = NoRead
              /\ data_available_' = 0 /\ completed' = 0
  PROVE  Serving'
<1> USE DEF Serving, ServingTasks, ServingRead, ServingOrder, ServingEnd
<1>1. Good.h = "response" /\ Good \in [h : {"response"}, ec : {"good"}, n : {0}]
  BY DEF Good, Task
<1>2. CASE queue' = rest
  <2>1. Len(queue') \in {0, 1} /\ \A i \in 1 .. Len(queue') : queue'[i] = Good
    BY <1>2
  <2> QED
    BY <1>2, <2>1
<1>3. ASSUME NEW t \in Tasks,
             queue' = Append(rest, t), t.ec = "ok", t.h \in Writes,
             (Ready(t.h, t.n, bufsize))', reading' = NoRead,
             data_available_' = 0, completed' = 0
      PROVE  Serving'
  <2>1. t # Good
    BY <1>1, <1>3 DEF Writes
  <2>2. \/ Len(queue') = 1 /\ queue'[1] = t
        \/ Len(queue') = 2 /\ queue'[1] = Good /\ queue'[2] = t
    BY <1>3
  <2>3. ServingTasks'
    BY <1>1, <1>3, <2>1, <2>2 DEF BodyReads, Writes
  <2> QED
    BY <1>3, <2>1, <2>2, <2>3
<1> QED
  BY <1>2, <1>3

\* Only the process ends, or nothing changes.
LEMMA SameStage ==
  ASSUME IInv,
         UNCHANGED <<conn, reading, writing, queue, dispatching, reply, data_available_, waiting,
                     close_, chunked_, read_, read_size_, bufsize, stored, completed, sent>>
  PROVE  Stage'
<1>1. New => New'
  BY DEF New, NoBody
<1>2. Reading => Reading'
  BY DEF Reading, NoBody
<1>3. Refused => Refused'
  BY DEF Refused, NoBody
<1>4. Dropped => Dropped'
  BY DEF Dropped
<1>5. Serving => Serving'
  BY DEF Serving, ServingTasks, ServingRead, ServingOrder, ServingEnd, AtStart, Ready
<1> QED
  BY <1>1, <1>2, <1>3, <1>4, <1>5 DEF IInv, Stage

\* A read of the head or of the body ends: its task is in the queue.
LEMMA ReadStage ==
  ASSUME IInv, ReadCompletes \/ ReadFails PROVE Stage'
<1>1. /\ reading \in Reads /\ reading # NoRead /\ reading' = NoRead
      /\ UNCHANGED <<conn, writing, dispatching, data_available_, read_, stored, completed, reply,
                     waiting, close_, chunked_, read_size_, sent>>
  BY DEF IInv, TypeOK, Reads, ReadCompletes, ReadFails, ends, body
<1>2. PICK t \in Tasks :
        /\ queue' = Append(queue, t) /\ t.h = reading.h
        /\ t.ec = "ok" => /\ t.n = reading.len /\ bufsize' \in Nat
                          /\ reading.h \notin {"http_line", "chunked_header"} =>
                               bufsize' >= bufsize + reading.need
        /\ t.ec \in {"ok"} \cup Error
  <2>1. CASE ReadCompletes
    <3>1. PICK extra \in 0 .. Ahead :
            bufsize' = IF reading.h \in {"http_line", "chunked_header"} THEN extra
                       ELSE IF reading.need = 0 THEN bufsize ELSE bufsize + reading.need + extra
      BY <2>1 DEF ReadCompletes
    <3>2. bufsize \in Nat /\ reading.need \in Nat
      BY <1>1 DEF IInv, TypeOK, Reads
    <3>3. /\ bufsize' \in Nat
          /\ reading.h \notin {"http_line", "chunked_header"} => bufsize' >= bufsize + reading.need
      BY <3>1, <3>2, HttpAssumption
    <3>4. Task(reading.h, "ok", reading.len) \in Tasks
      BY <1>1, TaskOfRead
    <3>5. queue' = Append(queue, Task(reading.h, "ok", reading.len))
      BY <2>1 DEF ReadCompletes
    <3> QED
      BY <3>3, <3>4, <3>5 DEF Task
  <2>2. CASE ReadFails
    <3>1. PICK ec \in Error : queue' = Append(queue, Task(reading.h, ec, 0))
      BY <2>2 DEF ReadFails
    <3>2. reading.h \in Handler
      BY <1>1 DEF Reads, Handler
    <3>3. Task(reading.h, ec, 0) \in Tasks
      BY <3>2, Types
    <3> QED
      BY <3>1, <3>3 DEF Task, Error
  <2> QED
    BY <2>1, <2>2
<1>3. CASE Reading
  <2>1. queue = <<>> /\ reading.h = "http_line"
    BY <1>1, <1>3 DEF Reading
  <2>2. Len(queue') = 1 /\ queue'[1].h = "http_line"
    BY <1>2, <2>1
  <2> QED
    BY <1>1, <1>3, <2>2 DEF Stage, Reading, NoBody
<1>4. CASE Serving
  <2>1. /\ reading.h \in BodyReads /\ Ready(reading.h, reading.len, bufsize + reading.need)
        /\ queue \in {<<>>, <<Good>>}
    <3>1. /\ reading.h \in BodyReads /\ Ready(reading.h, reading.len, bufsize + reading.need)
          /\ \A i \in 1 .. Len(queue) : queue[i] = Good
      BY <1>1, <1>4 DEF Serving, ServingRead
    <3>2. queue \in Seq(Tasks)
      BY DEF IInv, TypeOK, Tasks
    <3>3. Len(queue) # 2
      BY <1>4, <3>1, <3>2 DEF Serving, ServingTasks
    <3>4. Len(queue) \in {0, 1}
      <4>1. Len(queue) \in Nat /\ Len(queue) <= 2
        BY <1>4, <3>2 DEF Serving, ServingTasks
      <4>2. \A n \in Nat : n <= 2 => n \in {0, 1, 2}
        OBVIOUS
      <4> QED
        BY <3>3, <4>1, <4>2
    <3> QED
      BY <3>1, <3>2, <3>4
  <2>2. t # Good /\ t.h \in BodyReads \cup Writes /\ t.h \notin Writes
    BY <1>2, <2>1 DEF Good, Task, BodyReads, Writes
  <2>3. t.ec = "ok" => (Ready(t.h, t.n, bufsize))'
    <3>1. reading.h # "http_line"
      BY <2>1 DEF BodyReads
    <3>2. bufsize \in Nat /\ reading.need \in Nat /\ reading.len \in Int
      BY <1>1 DEF IInv, TypeOK, Reads
    <3> QED
      BY <1>1, <1>2, <2>1, <3>1, <3>2 DEF Ready
  <2>4. \/ queue = <<>> /\ Len(queue') = 1 /\ queue'[1] = t
        \/ queue = <<Good>> /\ Len(queue') = 2 /\ queue'[1] = Good /\ queue'[2] = t
    BY <1>2, <2>1
  <2>5. ServingTasks'
    <3>1. Len(queue') <= 2 /\ \A i \in 1 .. Len(queue') : queue'[i] = Good \/ queue'[i] = t
      <4>1. CASE Len(queue') = 1 /\ queue'[1] = t
        BY <4>1
      <4>2. CASE Len(queue') = 2 /\ queue'[1] = Good /\ queue'[2] = t
        <5>1. 1 .. Len(queue') = {1, 2}
          BY <4>2
        <5> QED
          BY <4>2, <5>1
      <4> QED
        BY <2>4, <4>1, <4>2
    <3>2. Len(queue') = 2 => queue'[1] = Good /\ queue'[2] # Good
      <4>1. CASE queue = <<>> /\ Len(queue') = 1
        BY <4>1
      <4>2. CASE queue'[1] = Good /\ queue'[2] = t
        BY <2>2, <4>2
      <4> QED
        BY <2>4, <4>1, <4>2
    <3> QED
      BY <2>2, <2>3, <3>1, <3>2, Zenon DEF ServingTasks
  <2>6. ServingOrder'
    BY <1>1, <1>2, <1>4, <2>2, <2>4 DEF Serving, ServingOrder, AtStart
  <2>7. ServingRead' /\ ServingEnd'
    BY <1>1, <1>4, <2>4 DEF Serving, ServingRead, ServingEnd
  <2> QED
    BY <1>1, <1>4, <2>5, <2>6, <2>7 DEF Stage, Serving
<1> QED
  BY <1>1, <1>3, <1>4, StageOf

\* A refused request: it is answered, and the connection is dropped.
LEMMA RefusedStage ==
  ASSUME IInv, WriteCompletes \/ HandleHeadersWritten \/ (HandleResponse /\ Refused)
  PROVE  Stage'
<1>1. Refused
  <2>1. HandleHeadersWritten => Refused
    BY StageOfTask DEF HandleHeadersWritten, Handler
  <2>2. WriteCompletes => Refused
    BY StageOf DEF WriteCompletes
  <2> QED
    BY <2>1, <2>2
<1>2. CASE WriteCompletes
  <2>1. queue = <<>> /\ sent = <<>> /\ reply = "BadRequest"
    BY <1>1, <1>2 DEF Refused, WriteCompletes
  <2>2. Len(queue') = 1 /\ queue'[1].h = "headers_written" /\ sent' \in {<<>>, <<"BadRequest">>}
    BY <1>2, <2>1 DEF WriteCompletes, Task
  <2>3. ~writing' /\ UNCHANGED <<conn, reading, dispatching, body, reply, waiting, close_>>
    BY <1>2 DEF WriteCompletes
  <2> QED
    BY <1>1, <2>2, <2>3 DEF Stage, Refused, NoBody, body
<1>3. CASE HandleHeadersWritten
  <2>1. queue # <<>> /\ Head(queue).h = "headers_written" /\ queue' = Tail(queue)
    BY <1>3 DEF HandleHeadersWritten, Runs, Done
  <2>2. Len(queue) = 1 /\ ~writing /\ close_ /\ sent \in {<<>>, <<"BadRequest">>}
    BY <1>1, <2>1 DEF Refused, Task
  <2>3. Finish
    BY <1>3, <2>2 DEF HandleHeadersWritten
  <2>4. queue' = <<>>
    BY <2>1, <2>2, HeadOf
  <2>5. /\ conn' = "dropped" /\ reading' = reading
        /\ UNCHANGED <<writing, dispatching, data_available_, completed, reply, sent>>
    BY <1>3, <2>3 DEF HandleHeadersWritten, Finish
  <2> QED
    BY <1>1, <2>2, <2>4, <2>5 DEF Stage, Refused, Dropped, NoBody
<1>4. CASE HandleResponse
  <2>1. queue # <<>> /\ Head(queue).h = "response" /\ queue' = Tail(queue)
    BY <1>4 DEF HandleResponse, Runs, Done
  <2>2. queue = <<Task("response", "bad", 0)>> /\ sent = <<>>
    BY <1>1, <2>1 DEF Refused, Task
  <2>3. MaySend /\ queue' = <<>>
    BY <2>1, <2>2 DEF MaySend, Task
  <2>4. writing' /\ UNCHANGED waiting
    BY <1>4, <2>3, Zenon DEF HandleResponse
  <2>5. UNCHANGED <<conn, reading, dispatching, body, reply, close_, sent>>
    BY <1>4 DEF HandleResponse
  <2> QED
    BY <1>1, <2>2, <2>3, <2>4, <2>5 DEF Stage, Refused, NoBody, body
<1> QED
  BY <1>2, <1>3, <1>4

\* The head of a request: it is read, accepted or refused, or the client has gone.
LEMMA HeadStage ==
  ASSUME IInv, DoAccept \/ HandleBadRequest \/ HandleGone \/ StreamThrows \/ HandleHeaders
  PROVE  Stage'
<1>1. CASE DoAccept
  <2>1. New
    BY <1>1, StageOf DEF DoAccept
  <2>2. reading' # NoRead /\ reading'.h = "http_line"
    BY <1>1 DEF DoAccept, ReadUntilMatch, NoRead
  <2>3. /\ conn' = "open" /\ read_' = 0
        /\ UNCHANGED <<writing, queue, dispatching, data_available_, stored, completed, reply,
                       waiting, sent>>
    BY <1>1 DEF DoAccept
  <2> QED
    BY <2>1, <2>2, <2>3 DEF Stage, New, Reading, NoBody
<1>2. ASSUME Runs("http_line")
      PROVE  /\ Reading /\ reading = NoRead /\ Tail(queue) = <<>>
             /\ queue # <<>>
  <2>1. Reading /\ queue # <<>>
    BY <1>2, StageOfTask DEF Runs, Handler
  <2>2. reading = NoRead /\ Len(queue) = 1
    BY <2>1 DEF Reading
  <2> QED
    BY <2>1, <2>2, HeadOf
<1>3. CASE HandleBadRequest
  <2>1. Reading /\ reading = NoRead /\ Tail(queue) = <<>>
    BY <1>2, <1>3 DEF HandleBadRequest
  <2>2. reply' = "BadRequest" /\ close_' /\ queue' = <<Task("response", "bad", 0)>>
    <3>1. reply = "none" /\ Refuse
      BY <1>3, <2>1 DEF HandleBadRequest, Reading
    <3>2. queue' = Append(<<>>, Task("response", "bad", 0))
      BY <2>1, <3>1 DEF Refuse, DoResponse
    <3>3. reply' = "BadRequest" /\ close_'
      BY <3>1 DEF Refuse, Reply
    <3> QED
      BY <3>2, <3>3
  <2>3. UNCHANGED <<conn, reading, writing, dispatching, body, waiting, sent>>
    BY <1>3 DEF HandleBadRequest
  <2> QED
    BY <2>1, <2>2, <2>3 DEF Stage, Reading, Refused, NoBody, body
<1>4. CASE HandleGone
  <2>1. Reading /\ reading = NoRead /\ Tail(queue) = <<>>
    BY <1>2, <1>4 DEF HandleGone
  <2>2. conn' = "dropped" /\ UNCHANGED reading /\ queue' = <<>>
    BY <1>4, <2>1 DEF HandleGone, Finish, Done
  <2>3. UNCHANGED <<writing, dispatching, body, sent>>
    BY <1>4 DEF HandleGone
  <2> QED
    BY <2>1, <2>2, <2>3 DEF Stage, Reading, Dropped, NoBody, body
<1>5. CASE StreamThrows
  BY <1>5, SameStage DEF StreamThrows, body, ends
<1>6. CASE HandleHeaders
  <2>1. Reading /\ reading = NoRead /\ Tail(queue) = <<>>
    BY <1>2, <1>6 DEF HandleHeaders
  <2>2. /\ queue' = <<>> /\ dispatching'
        /\ UNCHANGED <<conn, writing, read_, stored, reply, waiting, sent>>
    BY <1>6, <2>1 DEF HandleHeaders, Done
  <2>3. /\ completed' \in {0, 1} /\ data_available_' = 0
        /\ completed' = 1 => reading' = NoRead
        /\ reading' # NoRead => /\ reading'.h \in {"chunked_header", "body"}
                                /\ (Ready(reading.h, reading.len, bufsize + reading.need))'
    <3>1. CASE /\ chunked_' = TRUE
               /\ ReadUntilMatch("chunked_header")
               /\ UNCHANGED <<read_size_, data_available_, completed, bufsize>>
      BY <2>1, <2>2, <3>1 DEF Reading, NoBody, ReadUntilMatch, Ready
    <3>2. CASE chunked_' = FALSE /\ read_size_' \in BodyLength /\ Complete(0) /\ UNCHANGED reading
      BY <2>1, <3>2 DEF Reading, NoBody, Complete
    <3>3. CASE /\ chunked_' = FALSE /\ read_size_' \in BodyLength /\ UNCHANGED bufsize
               /\ read_size_' # 0
               /\ ReadUntilSize(Lesser(ChunkSize, read_size_'), "body", 0)
               /\ UNCHANGED <<data_available_, completed>>
      <4>1. /\ reading'.h = "body"
            /\ reading'.need = Less(Lesser(ChunkSize, read_size_'), bufsize')
        BY <3>3 DEF ReadUntilSize
      <4>2. read_size_' \in Nat /\ bufsize' \in Nat
        BY <3>3, HttpAssumption DEF IInv, TypeOK
      <4>3. bufsize' + reading'.need > 0
        <5>1. \A b, k \in Nat : k > 0 => b + Less(k, b) > 0
          BY DEF Less
        <5>2. Lesser(ChunkSize, read_size_') \in Nat \ {0}
          BY <3>3, <4>2, HttpAssumption DEF Lesser
        <5> QED
          BY <4>1, <4>2, <5>1, <5>2
      <4>4. read_' = 0 /\ stored' = 0 /\ ~chunked_'
        BY <2>1, <2>2, <3>3 DEF Reading, NoBody
      <4> QED
        BY <2>1, <3>3, <4>1, <4>2, <4>3, <4>4 DEF Ready, Reading, NoBody
    <3> QED
      BY <1>6, <3>1, <3>2, <3>3 DEF HandleHeaders
  <2>4. ServingTasks' /\ ServingRead'
    BY <2>2, <2>3 DEF ServingTasks, ServingRead, BodyReads
  <2>5. ServingOrder' /\ ServingEnd'
    BY <2>1, <2>2, <2>3 DEF ServingOrder, ServingEnd, AtStart, Reading
  <2> QED
    BY <2>1, <2>2, <2>4, <2>5 DEF Stage, Serving, Reading
<1> QED
  BY <1>1, <1>3, <1>4, <1>5, <1>6

\* The response of an accepted request becomes a task and finds no data.
LEMMA ResponseStage ==
  ASSUME IInv, DispatchRequest \/ (HandleResponse /\ Serving) PROVE Stage'
<1>1. queue \in Seq(Tasks) /\ Len(queue) \in Nat
  BY DEF IInv, TypeOK, Tasks
<1>2. CASE DispatchRequest
  <2>1. Serving /\ dispatching
    BY <1>2, StageOf DEF DispatchRequest
  <2>2. /\ queue' = Append(queue, Good) /\ ~dispatching' /\ reply' = "NotFound"
        /\ UNCHANGED <<conn, reading, writing, body, waiting, close_, chunked_, read_size_, sent>>
    BY <1>2, <2>1 DEF DispatchRequest, DoResponse, Reply, Good, Serving
  <2>3. AtStart /\ \A i \in 1 .. Len(queue) : queue[i] # Good
    BY <2>1 DEF Serving, ServingOrder
  <2>4. Len(queue) \in {0, 1}
    <3>1. Len(queue) <= 2 /\ Len(queue) # 2
      BY <1>1, <2>1, <2>3 DEF Serving, ServingTasks
    <3>2. \A n \in Nat : n <= 2 => n \in {0, 1, 2}
      OBVIOUS
    <3> QED
      BY <1>1, <3>1, <3>2
  <2>5. \/ queue = <<>> /\ queue' = <<Good>>
        \/ Len(queue) = 1 /\ Len(queue') = 2 /\ queue'[1] = queue[1] /\ queue'[2] = Good
    <3>1. CASE Len(queue) = 0
      <4>1. queue = <<>>
        BY <1>1, <3>1, EmptySeq
      <4> QED
        BY <2>2, <4>1
    <3>2. CASE Len(queue) = 1
      <4>1. queue' = Append(queue, Good)
        BY <2>2
      <4>2. /\ Len(Append(queue, Good)) = 2 /\ Append(queue, Good)[1] = queue[1]
            /\ Append(queue, Good)[2] = Good
        <5>1. Good \in Tasks
          BY DEF Good, Task, Tasks, Handler
        <5>2. /\ Len(Append(queue, Good)) = Len(queue) + 1
              /\ \A i \in 1 .. Len(queue) : Append(queue, Good)[i] = queue[i]
              /\ Append(queue, Good)[Len(queue) + 1] = Good
          BY <1>1, <5>1, AppendProperties
        <5> QED
          BY <3>2, <5>2
      <4> QED
        BY <3>2, <4>1, <4>2
    <3> QED
      BY <2>4, <3>1, <3>2
  <2>6. CASE queue = <<>> /\ queue' = <<Good>>
    BY <2>1, <2>2, <2>3, <2>6
       DEF Stage, Serving, ServingTasks, ServingRead, ServingOrder, ServingEnd, AtStart, Ready, body
  <2>7. CASE Len(queue) = 1 /\ Len(queue') = 2 /\ queue'[1] = queue[1] /\ queue'[2] = Good
    <3>1. queue[1] # Good /\ reading = NoRead /\ completed = 0
      BY <2>1, <2>3, <2>7 DEF Serving, ServingRead, ServingEnd
    <3>2. 1 .. Len(queue') = {1, 2}
      BY <2>7
    <3>3. ServingTasks'
      BY <2>1, <2>2, <2>7, <3>1, <3>2 DEF Serving, ServingTasks, Ready, body
    <3>4. ServingOrder'
      BY <2>2, <2>3, <2>7, <3>1, <3>2 DEF ServingOrder, AtStart, body
    <3>5. ServingRead' /\ ServingEnd'
      BY <2>1, <2>2, <3>1 DEF Serving, ServingRead, ServingEnd, body
    <3> QED
      BY <2>1, <2>2, <3>3, <3>4, <3>5 DEF Stage, Serving
  <2> QED
    BY <2>5, <2>6, <2>7
<1>3. CASE HandleResponse /\ Serving
  <2>1. queue # <<>> /\ queue[1].h = "response" /\ Head(queue) = queue[1] /\ ~dispatching
    BY <1>3, HeadOf DEF HandleResponse, Runs
  <2>2. queue[1] = Good /\ data_available_ = 0
    BY <1>1, <1>3, <2>1
       DEF Serving, ServingTasks, ServingOrder, BodyReads, Writes
  <2>3. ~MaySend
    BY <2>1, <2>2 DEF MaySend, Good, Task
  <2>4. UNCHANGED <<writing, chunked_>>
    BY <1>3, <2>3, Zenon DEF HandleResponse
  <2>5. /\ queue' = Tail(queue)
        /\ UNCHANGED <<conn, reading, dispatching, body, reply, read_size_, sent>>
    BY <1>3 DEF HandleResponse, Done
  <2>6. \/ queue' = <<>>
        \/ Len(queue) = 2 /\ queue' = <<queue[2]>> /\ queue[2] # Good
    <3>1. Len(queue) <= 2 /\ (Len(queue) = 2 => queue[2] # Good)
      BY <1>3, <2>2 DEF Serving, ServingTasks
    <3>2. \A n \in Nat : n >= 1 /\ n <= 2 => n \in {1, 2}
      OBVIOUS
    <3>3. Len(queue) \in {1, 2}
      BY <2>1, <3>1, <3>2, HeadOf
    <3> QED
      BY <2>1, <2>5, <3>1, <3>3, HeadOf
  <2>7. CASE queue' = <<>>
    BY <1>3, <2>1, <2>4, <2>5, <2>7
       DEF Stage, Serving, ServingTasks, ServingRead, ServingOrder, ServingEnd, Ready, body
  <2>8. CASE Len(queue) = 2 /\ queue' = <<queue[2]>> /\ queue[2] # Good
    <3>1. Len(queue') = 1 /\ queue'[1] = queue[2] /\ 1 .. Len(queue') = {1}
      BY <2>8
    <3>2. reading = NoRead /\ completed = 0
      BY <1>3, <2>8 DEF Serving, ServingRead, ServingEnd
    <3>3. ServingTasks'
      <4>1. /\ queue[2].h \in BodyReads \cup Writes
            /\ queue[2].ec = "ok" => Ready(queue[2].h, queue[2].n, bufsize)
            /\ queue[2].h \in Writes => queue[2].ec = "ok"
        BY <1>3, <2>8 DEF Serving, ServingTasks
      <4>2. queue[2].ec = "ok" => (Ready(queue[1].h, queue[1].n, bufsize))'
        BY <2>4, <2>5, <2>8, <3>1, <4>1 DEF Ready, body
      <4> QED
        BY <3>1, <4>1, <4>2 DEF ServingTasks
    <3>4. ServingOrder'
      BY <2>1, <2>5, <2>8, <3>1 DEF ServingOrder
    <3>5. ServingRead' /\ ServingEnd'
      BY <1>3, <2>4, <2>5, <3>2 DEF Serving, ServingRead, ServingEnd, body
    <3> QED
      BY <1>3, <2>1, <2>4, <2>5, <3>3, <3>4, <3>5 DEF Stage, Serving
  <2> QED
    BY <2>6, <2>7, <2>8
<1> QED
  BY <1>2, <1>3

\* A handler of the body of an accepted request leads to the next one, or to the end of it.
LEMMA ChunkedStage ==
  ASSUME IInv, HandleChunkedHeader \/ HandleChunkedBody \/ ChunkedBodyWritten
  PROVE  Stage'
<1>1. CASE HandleChunkedHeader
  <2>1. Runs("chunked_header") /\ "chunked_header" \in BodyReads \cup Writes
    BY <1>1 DEF HandleChunkedHeader, BodyReads
  <2>2. /\ Serving /\ ~dispatching /\ reading = NoRead /\ completed = 0 /\ data_available_ = 0
        /\ Head(queue).ec = "ok" => chunked_ /\ stored = read_
        /\ Tail(queue) = <<>> \/ (Tail(queue) = <<Good>> /\ read_ = 0)
    BY <2>1, BodyTask DEF Ready
  <2>3. /\ queue' = Tail(queue)
        /\ UNCHANGED <<conn, writing, dispatching, stored, reply, chunked_, read_size_, sent>>
    BY <1>1 DEF HandleChunkedHeader, Done, ends
  <2>4. CASE Complete(0) /\ UNCHANGED reading
    BY <2>2, <2>3, <2>4, ServingAgain DEF Complete, Serving, Stage
  <2>5. CASE Head(queue).ec = "ok" /\ Complete(read_) /\ UNCHANGED <<reading, read_>>
    BY <2>2, <2>3, <2>5, ServingAgain DEF Complete, Serving, Stage
  <2>6. ASSUME Head(queue).ec = "ok", NEW len \in ChunkLength, len # 0, read_ + len <= MaxBody,
               ChunkOf(len)
        PROVE  Stage'
    <3> DEFINE size == AsSize(AsInt(len + 2))
    <3>1. /\ read_' = AsSize(read_ + len)
          /\ UNCHANGED <<data_available_, completed, bufsize>>
          /\ reading' = [h |-> "chunked_body", need |-> Less(size, bufsize'), len |-> len]
      BY <2>6 DEF ChunkOf, ReadUntilSize
    <3>2. /\ len \in Int /\ size \in Nat /\ bufsize' \in Nat
          /\ len > 0 => len + 2 <= size /\ read_' = read_ + len
      <4>1. len \in (-IntMax - 1) .. IntMax /\ len \in Int
        BY HttpAssumption
      <4>2. read_ \in 0 .. SizeMod - 1 /\ bufsize' \in Nat
        BY <3>1 DEF IInv, TypeOK
      <4>3. /\ size \in Nat /\ (len > 0 => len + 2 <= size)
            /\ len > 0 => AsSize(read_ + len) = read_ + len
        BY <2>6, <4>1, <4>2, Sizes
      <4> QED
        BY <3>1, <4>1, <4>2, <4>3
    <3> HIDE DEF size
    <3>3. \A m, n \in Nat : n + Less(m, n) >= m
      BY DEF Less
    <3>4. len > 0 => len + 2 <= bufsize' + reading'.need
      <4>1. bufsize' + Less(size, bufsize') >= size /\ Less(size, bufsize') \in Nat
        BY <3>2, <3>3, Types
      <4> QED
        BY <3>1, <3>2, <4>1
    <3>5. (Ready(reading.h, reading.len, bufsize + reading.need))'
      BY <2>2, <2>3, <2>6, <3>1, <3>2, <3>4 DEF Ready
    <3> QED
      BY <2>2, <2>3, <3>1, <3>5, ServingAgain DEF Serving, Stage, BodyReads
  <2>7. \/ Complete(0) /\ UNCHANGED reading
        \/ Head(queue).ec = "ok" /\ Complete(read_) /\ UNCHANGED <<reading, read_>>
        \/ Head(queue).ec = "ok" /\ \E len \in ChunkLength :
                                      len # 0 /\ read_ + len <= MaxBody /\ ChunkOf(len)
    BY <1>1 DEF HandleChunkedHeader, ChunkOf
  <2> QED
    BY <2>4, <2>5, <2>6, <2>7
<1>2. CASE HandleChunkedBody
  <2>1. /\ Runs("chunked_body") /\ "chunked_body" \in BodyReads \cup Writes
        /\ queue # <<>>
    BY <1>2 DEF HandleChunkedBody, BodyReads, Runs
  <2>2. /\ Serving /\ ~dispatching /\ reading = NoRead /\ completed = 0 /\ data_available_ = 0
        /\ Head(queue).ec = "ok" =>
             chunked_ /\ (Head(queue).n > 0 => stored + Head(queue).n = read_)
        /\ Tail(queue) = <<>>
    BY <2>1, BodyTask DEF Ready
  <2>3. UNCHANGED <<conn, reading, writing, dispatching, read_, bufsize, stored, ends>>
    BY <1>2 DEF HandleChunkedBody
  <2>4. CASE Complete(0) /\ Done
    BY <2>2, <2>3, <2>4, ServingAgain DEF Complete, Done, Serving, Stage, ends
  <2>5. CASE /\ Head(queue).ec = "ok" /\ Put(Head(queue).n, "chunked_written")
             /\ UNCHANGED <<data_available_, completed>>
    <3>1. CASE terminated' = TRUE /\ UNCHANGED queue
      BY <2>3, <2>5, <3>1, SameStage DEF ends
    <3>2. CASE Done
      BY <2>2, <2>3, <2>5, <3>2, ServingAgain DEF Done, Serving, Stage, ends
    <3>3. ASSUME NEW count \in {0, Head(queue).n} \cap Nat,
                 DoneAndPost(Task("chunked_written", "ok", count))
          PROVE  Stage'
      <4>1. Task("chunked_written", "ok", count) \in Tasks
        BY Types DEF Handler
      <4>2. (Ready("chunked_written", count, bufsize))'
        BY <2>2, <2>3, <2>5 DEF Ready, ends
      <4>3. PICK t \in Tasks : /\ t = Task("chunked_written", "ok", count)
                               /\ t.h = "chunked_written" /\ t.ec = "ok" /\ t.n = count
        BY <4>1 DEF Task
      <4>4. queue' = Append(<<>>, t)
        BY <2>2, <3>3, <4>3 DEF DoneAndPost
      <4> QED
        BY <2>2, <2>3, <2>5, <4>2, <4>3, <4>4, ServingAgain DEF Serving, Stage, Writes, ends
    <3> QED
      BY <2>5, <3>1, <3>2, <3>3 DEF Put
  <2> QED
    BY <1>2, <2>4, <2>5, Zenon DEF HandleChunkedBody
<1>3. CASE ChunkedBodyWritten
  <2>1. Runs("chunked_written") /\ "chunked_written" \in BodyReads \cup Writes
    BY <1>3 DEF ChunkedBodyWritten, Writes
  <2>2. /\ Serving /\ ~dispatching /\ reading = NoRead /\ completed = 0 /\ data_available_ = 0
        /\ chunked_ /\ (Head(queue).n # 0 => stored + Head(queue).n = read_)
        /\ Tail(queue) = <<>>
    BY <2>1, BodyTask DEF Ready, Writes
  <2>3. /\ queue' = <<>>
        /\ UNCHANGED <<conn, writing, dispatching, read_, ends>>
    BY <1>3, <2>2 DEF ChunkedBodyWritten, Done
  <2>4. CASE Head(queue).n = 0
    <3>1. Complete(0) /\ UNCHANGED reading
      BY <1>3, <2>4 DEF ChunkedBodyWritten
    <3> QED
      BY <2>2, <2>3, <3>1, ServingAgain DEF Complete, Serving, Stage, ends
  <2>5. CASE Head(queue).n # 0
    <3>1. /\ stored' = stored + Head(queue).n
          /\ reading' = [h |-> "chunked_header", need |-> 0, len |-> 0]
          /\ UNCHANGED <<data_available_, completed>>
      BY <1>3, <2>5 DEF ChunkedBodyWritten, ReadUntilMatch
    <3>2. (Ready(reading.h, reading.len, bufsize + reading.need))'
      BY <2>2, <2>3, <2>5, <3>1 DEF Ready, ends
    <3> QED
      BY <2>2, <2>3, <3>1, <3>2, ServingAgain DEF Serving, Stage, BodyReads, ends
  <2> QED
    BY <2>4, <2>5
<1> QED
  BY <1>1, <1>2, <1>3

LEMMA CountedStage ==
  ASSUME IInv, HandleBody \/ BodyWritten
  PROVE  Stage'
<1>1. CASE HandleBody
  <2>1. /\ Runs("body") /\ "body" \in BodyReads \cup Writes
        /\ queue # <<>>
    BY <1>1 DEF HandleBody, BodyReads, Runs
  <2>2. /\ Serving /\ ~dispatching /\ reading = NoRead /\ completed = 0 /\ data_available_ = 0
        /\ Head(queue).ec = "ok" => ~chunked_ /\ stored = read_ /\ read_ <= read_size_
        /\ Tail(queue) = <<>> \/ (Tail(queue) = <<Good>> /\ read_ = 0)
    BY <2>1, BodyTask DEF Ready
  <2>3. UNCHANGED <<conn, reading, writing, dispatching, read_, bufsize, stored, ends>>
    BY <1>1 DEF HandleBody
  <2>4. CASE Complete(0) /\ Done
    BY <2>2, <2>3, <2>4, ServingAgain DEF Complete, Done, Serving, Stage, ends
  <2>5. CASE Head(queue).ec = "ok" /\ ~(read_ < read_size_) /\ Complete(read_) /\ Done
    <3>1. read_ = read_size_
      BY <2>2, <2>5 DEF IInv, TypeOK
    <3> QED
      BY <2>2, <2>3, <2>5, <3>1, ServingAgain DEF Complete, Done, Serving, Stage, ends
  <2>6. CASE /\ Head(queue).ec = "ok" /\ read_ < read_size_
             /\ Put(Lesser(bufsize, read_size_ - read_), "body_written")
             /\ UNCHANGED <<data_available_, completed>>
    <3> DEFINE n == Lesser(bufsize, read_size_ - read_)
    <3>1. n \in Nat /\ read_ + n <= read_size_
      BY <2>6 DEF IInv, TypeOK, Lesser
    <3> HIDE DEF n
    <3>2. CASE terminated' = TRUE /\ UNCHANGED queue
      BY <2>3, <2>6, <3>2, SameStage DEF ends
    <3>3. CASE Done
      BY <2>2, <2>3, <2>6, <3>3, ServingAgain DEF Done, Serving, Stage, ends
    <3>4. ASSUME NEW count \in {0, n} \cap Nat, DoneAndPost(Task("body_written", "ok", count))
          PROVE  Stage'
      <4>1. Task("body_written", "ok", count) \in Tasks
        BY <3>1, Types DEF Handler
      <4>2. read_ + count <= read_size_
        <5>1. read_ \in Nat /\ read_size_ \in Nat
          BY DEF IInv, TypeOK
        <5> QED
          BY <2>6, <3>1, <5>1
      <4>3. (Ready("body_written", count, bufsize))'
        BY <2>2, <2>3, <2>6, <4>2 DEF Ready, ends
      <4>4. PICK t \in Tasks : /\ t = Task("body_written", "ok", count)
                               /\ t.h = "body_written" /\ t.ec = "ok" /\ t.n = count
        BY <4>1 DEF Task
      <4>5. queue' = Append(Tail(queue), t)
        BY <3>4, <4>4 DEF DoneAndPost
      <4> QED
        BY <2>2, <2>3, <2>6, <4>3, <4>4, <4>5, ServingAgain DEF Serving, Stage, Writes, ends
    <3> QED
      BY <2>6, <3>2, <3>3, <3>4 DEF Put, n
  <2> QED
    BY <1>1, <2>4, <2>5, <2>6, Zenon DEF HandleBody
<1>2. CASE BodyWritten
  <2>1. /\ Runs("body_written") /\ "body_written" \in BodyReads \cup Writes /\ queue # <<>>
    BY <1>2 DEF BodyWritten, Writes, Runs
  <2>2. /\ Serving /\ ~dispatching /\ reading = NoRead /\ completed = 0 /\ data_available_ = 0
        /\ ~chunked_ /\ stored = read_ /\ read_ + Head(queue).n <= read_size_
        /\ Tail(queue) = <<>>
    BY <2>1, BodyTask DEF Ready, Writes
  <2>3. /\ queue' = <<>>
        /\ UNCHANGED <<conn, writing, dispatching, ends>>
    BY <1>2, <2>2 DEF BodyWritten, Done
  <2>4. CASE Head(queue).n = 0
    <3>1. Complete(0) /\ UNCHANGED reading
      BY <1>2, <2>4 DEF BodyWritten
    <3> QED
      BY <2>2, <2>3, <3>1, ServingAgain DEF Complete, Serving, Stage, ends
  <2>5. CASE Head(queue).n # 0
    <3>1. /\ stored' = stored + Head(queue).n
          /\ read_' = read_ + Head(queue).n
          /\ bufsize' = Less(bufsize, Head(queue).n)
          /\ ReadUntilSize(Lesser(ChunkSize, read_size_ - read_'), "body", 0)
          /\ UNCHANGED <<data_available_, completed>>
      BY <1>2, <2>5 DEF BodyWritten
    <3>2. /\ reading'.h = "body" /\ reading' # NoRead
          /\ reading'.need = Less(Lesser(ChunkSize, read_size_ - read_'), bufsize')
      BY <3>1 DEF ReadUntilSize, NoRead
    <3>3. /\ stored' = read_' /\ read_' <= read_size_' /\ ~chunked_' /\ read_' \in Nat
          /\ bufsize' \in Nat /\ read_size_ \in Nat /\ read_size_' = read_size_
      <4>1. Head(queue).n \in Nat
        BY <2>1, TypeOfQueue DEF IInv, Runs
      <4>2. bufsize' \in Nat
        BY <3>1, <4>1, Types DEF IInv, TypeOK
      <4> QED
        BY <2>2, <2>3, <3>1, <4>1, <4>2 DEF IInv, TypeOK, ends
    <3>4. read_' < read_size_' => bufsize' + reading'.need > 0
      <4>1. \A b, k \in Nat : k > 0 => b + Less(k, b) > 0
        BY DEF Less
      <4>2. read_' < read_size_ => Lesser(ChunkSize, read_size_ - read_') \in Nat \ {0}
        <5>1. \A r, s \in Nat : r < s => Lesser(ChunkSize, s - r) \in Nat \ {0}
          BY HttpAssumption DEF Lesser
        <5> QED
          BY <3>3, <5>1
      <4> QED
        BY <3>2, <3>3, <4>1, <4>2
    <3>5. (Ready(reading.h, reading.len, bufsize + reading.need))'
      BY <3>2, <3>3, <3>4 DEF Ready
    <3> QED
      BY <2>2, <2>3, <3>1, <3>2, <3>5, ServingAgain DEF Serving, Stage, BodyReads, ends
  <2> QED
    BY <2>4, <2>5
<1> QED
  BY <1>1, <1>2

LEMMA StepStage == ASSUME IInv, [Next]_vars PROVE Stage'
<1>1. CASE UNCHANGED vars
  BY <1>1, SameStage DEF vars, body, ends
<1>2. CASE HandleResponse
  <2>1. Refused \/ Serving
    BY <1>2, StageOfTask DEF HandleResponse, Handler
  <2> QED
    BY <1>2, <2>1, RefusedStage, ResponseStage
<1>3. CASE Next /\ ~HandleResponse
  BY <1>3, ReadStage, RefusedStage, HeadStage, ResponseStage, ChunkedStage, CountedStage
     DEF Next, Worker
<1> QED
  BY <1>1, <1>2, <1>3

LEMMA Invariance == Spec => []IInv
<1>1. Init => IInv
  BY InitType DEF Init, IInv, Stage, New, NoBody
<1>2. IInv /\ [Next]_vars => IInv'
  BY StepType, StepStage DEF IInv
<1> QED
  BY <1>1, <1>2, PTL DEF Spec

-----------------------------------------------------------------------------
(* What the invariant means *)

\* Every variable of a connection keeps its kind of value, through every handler.
THEOREM TypeCorrect == Spec => []TypeOK
<1>1. IInv => TypeOK
  BY DEF IInv
<1> QED
  BY <1>1, Invariance, PTL

\* request_buf_, the block of handler_allocator and the socket have one user at a time, whatever
\* the sizes: the handlers of http_service.cpp follow each other.
THEOREM OneOperationCorrect == Spec => []OneOperation
<1>1. ASSUME IInv PROVE OneOperation
  <2>1. CASE New \/ Dropped
    BY <2>1 DEF New, Dropped, OneOperation, Chained
  <2>2. CASE Reading
    BY <2>2 DEF Reading, OneOperation, Chained
  <2>3. CASE Refused
    BY <2>3 DEF Refused, OneOperation, Chained
  <2>4. CASE Serving
    <3>1. \A i \in Chained : i \in 1 .. Len(queue) /\ queue[i] # Good
      BY DEF Chained, Good, Task
    <3>2. ~writing
      BY <2>4 DEF Serving
    <3>3. reading # NoRead => Chained = {}
      BY <2>4, <3>1 DEF Serving, ServingRead
    <3>4. \A i, j \in Chained : i = j
      <4>1. Len(queue) \in Nat /\ Len(queue) <= 2
        BY <1>1, <2>4 DEF Serving, ServingTasks, IInv, TypeOK
      <4>2. Len(queue) = 2 => queue[1] = Good \/ queue[2] = Good
        BY <2>4 DEF Serving, ServingTasks
      <4>3. SUFFICES ASSUME NEW i \in Chained, NEW j \in Chained, i # j PROVE FALSE
        OBVIOUS
      <4>4. i \in {1, 2} /\ j \in {1, 2} /\ Len(queue) = 2
        <5>1. \A n \in Nat : \A k, l \in 1 .. n :
                n <= 2 /\ k # l => k \in {1, 2} /\ l \in {1, 2} /\ n = 2
          OBVIOUS
        <5> QED
          BY <3>1, <4>1, <4>3, <5>1
      <4> QED
        BY <3>1, <4>2, <4>3, <4>4
    <3> QED
      BY <3>2, <3>3, <3>4 DEF OneOperation
  <2> QED
    BY <1>1, <2>1, <2>2, <2>3, <2>4 DEF IInv, Stage
<1> QED
  BY <1>1, Invariance, PTL

\* finish_request_response() leaves nothing behind that could use the connection.
THEOREM NothingAfterDropCorrect == Spec => []NothingAfterDrop
<1>1. IInv => NothingAfterDrop
  BY DEF IInv, Stage, New, Reading, Refused, Dropped, Serving, NothingAfterDrop
<1> QED
  BY <1>1, Invariance, PTL

\* handle_chunked_body() and handle_body() take bytes that were read, whatever the sizes.
THEOREM PutHasBytesCorrect == Spec => []PutHasBytes
<1>1. ASSUME IInv PROVE PutHasBytes
  <2>1. CASE Serving
    <3>1. \A i \in 1 .. Len(queue) :
            queue[i].ec = "ok" /\ queue[i].h \in {"chunked_body", "body"} =>
              Ready(queue[i].h, queue[i].n, bufsize)
      BY <2>1 DEF Serving, ServingTasks, Good, Task
    <3> QED
      BY <3>1 DEF PutHasBytes, Ready
  <2>2. CASE Reading
    BY <2>2 DEF Reading, PutHasBytes
  <2>3. CASE Refused
    BY <2>3 DEF Refused, PutHasBytes, Task
  <2>4. CASE New \/ Dropped
    BY <2>4 DEF New, Dropped, PutHasBytes
  <2> QED
    BY <1>1, <2>1, <2>2, <2>3, <2>4 DEF IInv, Stage
<1> QED
  BY <1>1, Invariance, PTL

\* complete() is called once for a request, with the size of the body that was stored, or 0.
THEOREM BodyIsWholeCorrect == Spec => []BodyIsWhole
<1>1. IInv => BodyIsWhole
  BY DEF IInv, Stage, New, Reading, Refused, Dropped, Serving, NoBody, ServingEnd, BodyIsWhole
<1> QED
  BY <1>1, Invariance, PTL

\* No response is sent twice, and the one that is sent is the first reply: reply_if_not_already().
THEOREM AnsweredOnceCorrect == Spec => []AnsweredOnce
<1>1. ASSUME IInv PROVE AnsweredOnce
  <2>1. sent = <<>> \/ (sent = <<"BadRequest">> /\ reply = "BadRequest")
    BY <1>1 DEF IInv, Stage, New, Reading, Refused, Dropped, Serving
  <2>2. CASE sent = <<>>
    BY <2>2 DEF AnsweredOnce
  <2>3. CASE sent = <<"BadRequest">> /\ reply = "BadRequest"
    <3>1. Len(sent) = 1 /\ sent[1] = "BadRequest"
      BY <2>3
    <3> QED
      BY <2>3, <3>1 DEF AnsweredOnce
  <2> QED
    BY <2>1, <2>2, <2>3
<1> QED
  BY <1>1, Invariance, PTL
=============================================================================
