--------------------------- MODULE StreamOpsProofs ---------------------------
(***************************************************************************)
(* The safety properties of StreamOps, for a buffer of any size and texts  *)
(* of any length.  The invariant says where the one operation stands       *)
(* (Stage) and, over that, where every byte is that has left the source    *)
(* (InPlace) and what was counted (Counted).                               *)
(***************************************************************************)
EXTENDS StreamOps, SequenceTheorems, TLAPS

-----------------------------------------------------------------------------
(* The invariant *)

TaskType == [h : {"on_read", "put", "on_write"}, bytes : Seq(Byte), done : BOOLEAN, n : Nat]

\* The operation has not asked for anything, or looks at the source.
Asking ==
  /\ waiting = <<>>
  /\ Len(outbuf) < BufSize
  /\ pc # "loop" => tasks = <<>> /\ ~done
  /\ pc = "loop" => op # "end" /\ (done => op = "line")

\* The tasks of a line whose end was seen: writes of the target.
Ending == \A i \in 1 .. Len(tasks) : tasks[i].h # "on_read" /\ tasks[i].done

\* It waits for the source, has an answer, has a write under way, or starts nothing any more.
Awaiting == tasks = <<>> /\ waiting # <<>> /\ Len(waiting) = 1 /\ Len(outbuf) < BufSize
            /\ waiting[1] = (IF op = "end" THEN BufSize ELSE 1)
Answered == waiting = <<>> /\ Len(tasks) = 1 /\ tasks[1].h = "on_read" /\ Len(outbuf) < BufSize
            /\ Len(tasks[1].bytes) <= (IF op = "end" THEN BufSize ELSE 1)
Writing  == waiting = <<>> /\ Len(tasks) = 1 /\ tasks[1].h # "on_read" /\ (op = "line" => ~tasks[1].done)
Ends     == waiting = <<>> /\ (IF op = "line" THEN Ending ELSE tasks = <<>>)

Stage ==
  /\ pc \in {"start", "enter", "loop"} => Asking
  /\ pc = "loop" /\ done => Ending
  /\ pc = "loop" /\ ~done => tasks = <<>>
  /\ pc = "idle" => Awaiting \/ Answered \/ Writing \/ Ends

\* The last byte that was taken is the delimiter.
DelimTaken == op = "delim" /\ consumed > 0 /\ text[consumed] = "lf"

\* Behind the delimiter nothing is read.
Delims ==
  /\ op = "delim" => \A i \in 1 .. consumed - 1 : text[i] # "lf"
  /\ DelimTaken => /\ pc \in {"idle", "terminated"} /\ waiting = <<>>
                   /\ tasks # <<>> => IF tasks[1].h = "on_read" THEN tasks[1].bytes # <<>>
                                      ELSE tasks[1].done
  /\ op = "delim" /\ tasks # <<>> /\ tasks[1].h = "on_read" =>
       tasks[1].bytes = <<>> \/ tasks[1].bytes = <<consumed>>

\* The handler of the user is called last.
Once == op # "line" /\ result # <<>> => Len(result) = 1 /\ pc = "idle" /\ waiting = <<>> /\ tasks = <<>>

\* The bytes taken, but the delimiter.
Passed == IF DelimTaken THEN consumed - 1 ELSE consumed

\* Where the bytes are that have left the source: they follow each other in the target and in
\* the buffer or the task that has them.
InPlace ==
  op # "line" /\ target_open =>
    /\ target = Span(0, Len(target))
    /\ IF tasks = <<>> THEN outbuf = Span(Len(target), Passed) /\ Len(target) <= Passed
       ELSE LET t == tasks[1]
                before == Len(target) + Len(outbuf)
            IN  /\ t.h = "on_read" => /\ outbuf = Span(Len(target), before)
                                      /\ before + Len(t.bytes) = consumed
                                      /\ t.bytes = Span(before, consumed)
                /\ t.h = "put"     => /\ outbuf = Span(Len(target), Passed)
                                      /\ Len(target) <= Passed
                                      /\ t.bytes = outbuf
                /\ t.h = "on_write" => Len(target) = Passed /\ t.n = Len(outbuf)

\* What read_to_end() has counted, and what it knows when it sees the end.
Counted ==
  /\ ~open /\ readable => written = Len(text)
  /\ op = "end" =>
       /\ \A i \in 1 .. Len(tasks) :
            /\ tasks[i].h = "on_write" => total + tasks[i].n = Len(target)
            /\ tasks[i].h # "on_write" => total = Len(target)
            /\ tasks[i].h = "on_read" => outbuf = <<>>
            /\ tasks[i].h = "on_read" /\ tasks[i].bytes = <<>> /\ readable =>
                 ~open /\ consumed = written
            /\ tasks[i].h = "put" => tasks[i].bytes # <<>> /\ tasks[i].bytes = outbuf
            /\ tasks[i].h = "on_write" /\ target_open => tasks[i].n # 0
       /\ tasks = <<>> => total = Len(target)
       /\ tasks = <<>> /\ result = <<>> => outbuf = <<>>

IInv == TypeOK /\ Stage /\ Delims /\ Once /\ InPlace /\ Counted /\ EndCounts

-----------------------------------------------------------------------------
(* Bytes that follow each other *)

LEMMA SpanIs ==
  ASSUME NEW m \in Nat, NEW n \in Nat, m <= n
  PROVE  /\ Span(m, n) \in Seq(Nat) /\ Len(Span(m, n)) = n - m
         /\ \A i \in 1 .. n - m : Span(m, n)[i] = m + i
         /\ n <= MaxText => Span(m, n) \in Seq(Byte)
<1>1. n - m \in Nat
  OBVIOUS
<1>2. Span(m, n) \in [1 .. n - m -> Nat]
  BY DEF Span
<1>3. n <= MaxText => Span(m, n) \in [1 .. n - m -> Byte]
  BY StreamAssumption DEF Span, Byte
<1> QED
  BY <1>1, <1>2, <1>3 DEF Span

LEMMA SpanEmpty == ASSUME NEW n \in Nat PROVE Span(n, n) = <<>>
  BY SpanIs, EmptySeq

LEMMA SpanByItems ==
  ASSUME NEW m \in Nat, NEW n \in Nat, m <= n, NEW s \in Seq(Nat), Len(s) = n - m,
         \A i \in 1 .. n - m : s[i] = m + i
  PROVE  s = Span(m, n)
<1>1. /\ Span(m, n) \in Seq(Nat) /\ Len(Span(m, n)) = n - m
      /\ \A i \in 1 .. n - m : Span(m, n)[i] = m + i
  BY SpanIs
<1> HIDE DEF Span
<1> QED
  BY <1>1, SeqEqual

LEMMA SpanNext ==
  ASSUME NEW m \in Nat, NEW n \in Nat, m <= n
  PROVE  Append(Span(m, n), n + 1) = Span(m, n + 1) /\ Span(n, n + 1) = <<n + 1>>
<1> DEFINE s == Span(m, n)
           t == Append(s, n + 1)
<1>1. s \in Seq(Nat) /\ Len(s) = n - m /\ \A i \in 1 .. n - m : s[i] = m + i
  BY SpanIs
<1> HIDE DEF s
<1>2. t \in Seq(Nat) /\ Len(t) = n + 1 - m /\ \A i \in 1 .. n + 1 - m : t[i] = m + i
  BY <1>1
<1> HIDE DEF t
<1>3. n + 1 \in Nat /\ m <= n + 1 /\ n <= n + 1
  OBVIOUS
<1>4. t = Span(m, n + 1)
  BY <1>2, <1>3, SpanByItems
<1>5. Span(n, n + 1) = <<n + 1>>
  <2> DEFINE u == <<n + 1>>
             k == n + 1
  <2>1. u \in Seq(Nat) /\ Len(u) = k - n /\ \A i \in 1 .. k - n : u[i] = n + i
    OBVIOUS
  <2>2. k \in Nat /\ n <= k
    OBVIOUS
  <2> HIDE DEF u, k
  <2>3. u = Span(n, k)
    BY <2>1, <2>2, SpanByItems
  <2> QED
    BY <2>3 DEF u, k
<1> QED
  BY <1>4, <1>5 DEF s, t

LEMMA SpanJoin ==
  ASSUME NEW l \in Nat, NEW m \in Nat, NEW n \in Nat, l <= m, m <= n
  PROVE  Span(l, m) \o Span(m, n) = Span(l, n)
<1> DEFINE s == Span(l, m)
           t == Span(m, n)
           u == s \o t
<1>1. s \in Seq(Nat) /\ Len(s) = m - l /\ \A i \in 1 .. m - l : s[i] = l + i
  BY SpanIs
<1>2. t \in Seq(Nat) /\ Len(t) = n - m /\ \A i \in 1 .. n - m : t[i] = m + i
  BY SpanIs
<1> HIDE DEF s, t
<1>3. u \in Seq(Nat) /\ Len(u) = n - l
  <2>1. u \in Seq(Nat) /\ Len(u) = Len(s) + Len(t)
    BY <1>1, <1>2, ConcatProperties
  <2>2. (m - l) + (n - m) = n - l
    OBVIOUS
  <2> QED
    BY <1>1, <1>2, <2>1, <2>2
<1>4. \A i \in 1 .. n - l : u[i] = l + i
  <2>1. ASSUME NEW i \in 1 .. n - l, i <= m - l PROVE u[i] = l + i
    <3>1. i \in 1 .. m - l /\ i \in 1 .. Len(s)
      BY <1>1, <2>1
    <3>2. u[i] = s[i]
      BY <1>1, <1>2, <3>1
    <3> QED
      BY <1>1, <3>1, <3>2
  <2>2. ASSUME NEW i \in 1 .. n - l, i > m - l PROVE u[i] = l + i
    <3> DEFINE k == i - (m - l)
    <3>1. k \in 1 .. n - m /\ m + k = l + i
      BY <2>2
    <3>2. u[i] = t[k]
      BY <1>1, <1>2, <2>2
    <3> HIDE DEF k
    <3> QED
      BY <1>2, <3>1, <3>2
  <2> HIDE DEF u
  <2>3. \A i \in 1 .. n - l : i <= m - l \/ i > m - l
    OBVIOUS
  <2> QED
    BY <2>1, <2>2, <2>3
<1> HIDE DEF u
<1>5. u = Span(l, n)
  <2>1. l <= n
    OBVIOUS
  <2> QED
    BY <1>3, <1>4, <2>1, SpanByItems
<1> QED
  BY <1>5 DEF s, t, u

LEMMA SpanConcat ==
  ASSUME NEW m \in Nat, NEW n \in Nat, m <= n
  PROVE  Span(0, m) \o Span(m, n) = Span(0, n)
<1>1. 0 \in Nat /\ 0 <= m
  OBVIOUS
<1> QED
  BY <1>1, SpanJoin

-----------------------------------------------------------------------------
(* The types in two parts: the source, and the read *)

SourceOK ==
  /\ text \in Seq(Kind) /\ Len(text) \in Nat /\ Len(text) <= MaxText /\ open \in BOOLEAN
  /\ written \in Nat /\ written <= Len(text)
  /\ consumed \in Nat /\ consumed <= written
  /\ flushed \in Nat /\ flushed + consumed <= written

ReadOK ==
  /\ op \in {"delim", "line", "end"} /\ base_target \in BOOLEAN /\ target_open \in BOOLEAN
  /\ readable \in BOOLEAN /\ target \in Seq(Byte) /\ outbuf \in Seq(Byte) /\ Len(outbuf) <= BufSize
  /\ tasks \in Seq(TaskType) /\ waiting \in Seq({1, BufSize})
  /\ pc \in {"start", "enter", "loop", "idle", "terminated"} /\ done \in BOOLEAN
  /\ total \in Nat /\ result \in Seq(Nat)

LEMMA Parts == TypeOK <=> SourceOK /\ ReadOK
<1>1. text \in Seq(Kind) => Len(text) \in Nat
  OBVIOUS
<1> QED
  BY <1>1 DEF TypeOK, SourceOK, ReadOK, TaskType, Unread

LEMMA PartsNext == TypeOK' <=> SourceOK' /\ ReadOK'
  BY Parts, PTL

-----------------------------------------------------------------------------
(* The other users of the buffers *)

LEMMA WriteStep == ASSUME IInv, Write PROVE IInv'
<1>1. /\ written' \in written + 1 .. Len(text) /\ written \in Nat /\ open
      /\ UNCHANGED <<consumed, flushed, open, waiting, text, sides, read>>
  BY DEF IInv, TypeOK, Write, Source!Write, Unread
<1>2. TypeOK'
  <2>1. SourceOK /\ ReadOK /\ Len(text) \in Nat
    BY Parts DEF IInv, SourceOK
  <2>2. SourceOK'
    <3>1. written \in Nat /\ Len(text) \in Nat /\ consumed \in Nat /\ consumed <= written
          /\ flushed \in Nat /\ flushed + consumed <= written
      BY <2>1 DEF SourceOK
    <3>2. written' \in Nat /\ written' <= Len(text) /\ written <= written'
      <4>1. written' \in written + 1 .. Len(text)
        BY <1>1
      <4> QED
        BY <3>1, <4>1
    <3>3. consumed <= written' /\ flushed + consumed <= written'
      BY <3>1, <3>2
    <3> QED
      BY <1>1, <2>1, <3>2, <3>3 DEF SourceOK, Unread
  <2> QED
    BY <1>1, <2>1, <2>2, PartsNext DEF ReadOK, sides, read
<1>3. Stage'
  BY <1>1 DEF IInv, Stage, Asking, Ending, Awaiting, Answered, Writing, Ends, sides, read
<1>4. Delims' /\ Once'
  BY <1>1 DEF IInv, Delims, DelimTaken, Once, sides, read
<1>5. InPlace'
  BY <1>1 DEF IInv, InPlace, DelimTaken, Passed, sides, read
<1>6. Counted' /\ EndCounts'
  BY <1>1 DEF IInv, Counted, EndCounts, sides, read
<1> QED
  BY <1>2, <1>3, <1>4, <1>5, <1>6 DEF IInv

LEMMA FlushStep == ASSUME IInv, Flush PROVE IInv'
<1>1. /\ flushed' = Unread /\ UNCHANGED <<written, consumed, open, waiting, text, sides, read>>
  BY DEF Flush, Source!Flush, Source!Unread, Unread
<1>2. TypeOK'
  <2>1. SourceOK /\ ReadOK /\ Len(text) \in Nat
    BY Parts DEF IInv, SourceOK
  <2>2. SourceOK'
    BY <1>1, <2>1 DEF SourceOK, Unread
  <2> QED
    BY <1>1, <2>1, <2>2, PartsNext DEF ReadOK, sides, read
<1>3. Stage'
  BY <1>1 DEF IInv, Stage, Asking, Ending, Awaiting, Answered, Writing, Ends, sides, read
<1>4. Delims' /\ Once'
  BY <1>1 DEF IInv, Delims, DelimTaken, Once, sides, read
<1>5. InPlace'
  BY <1>1 DEF IInv, InPlace, DelimTaken, Passed, sides, read
<1>6. Counted' /\ EndCounts'
  BY <1>1 DEF IInv, Counted, EndCounts, sides, read
<1> QED
  BY <1>2, <1>3, <1>4, <1>5, <1>6 DEF IInv

LEMMA CloseStep == ASSUME IInv, Close PROVE IInv'
<1>1. /\ open' = FALSE /\ (readable => written = Len(text))
      /\ UNCHANGED <<written, consumed, flushed, waiting, text, sides, read>>
  BY DEF Close, Source!Close
<1>2. TypeOK'
  <2>1. SourceOK /\ ReadOK /\ Len(text) \in Nat
    BY Parts DEF IInv, SourceOK
  <2>2. SourceOK'
    BY <1>1, <2>1 DEF SourceOK, Unread
  <2> QED
    BY <1>1, <2>1, <2>2, PartsNext DEF ReadOK, sides, read
<1>3. Stage'
  BY <1>1 DEF IInv, Stage, Asking, Ending, Awaiting, Answered, Writing, Ends, sides, read
<1>4. Delims' /\ Once'
  BY <1>1 DEF IInv, Delims, DelimTaken, Once, sides, read
<1>5. InPlace'
  BY <1>1 DEF IInv, InPlace, DelimTaken, Passed, sides, read
<1>6. Counted' /\ EndCounts'
  BY <1>1 DEF IInv, Counted, EndCounts, sides, read
<1> QED
  BY <1>2, <1>3, <1>4, <1>5, <1>6 DEF IInv

LEMMA CloseSourceStep == ASSUME IInv, CloseSource PROVE IInv'
<1>1. /\ readable' = FALSE
      /\ UNCHANGED <<source, op, base_target, target, target_open, read>>
  BY DEF CloseSource
<1>2. TypeOK'
  BY <1>1 DEF IInv, TypeOK, source, read, Unread
<1>3. Stage'
  BY <1>1 DEF IInv, Stage, Asking, Ending, Awaiting, Answered, Writing, Ends, source, read
<1>4. Delims' /\ Once'
  BY <1>1 DEF IInv, Delims, DelimTaken, Once, source, read
<1>5. InPlace'
  BY <1>1 DEF IInv, InPlace, DelimTaken, Passed, source, read
<1>6. Counted' /\ EndCounts'
  BY <1>1 DEF IInv, Counted, EndCounts, source, read
<1> QED
  BY <1>2, <1>3, <1>4, <1>5, <1>6 DEF IInv

LEMMA CloseTargetStep == ASSUME IInv, CloseTarget PROVE IInv'
<1>1. /\ target_open' = FALSE
      /\ UNCHANGED <<source, readable, op, base_target, target, read>>
  BY DEF CloseTarget
<1>2. TypeOK'
  BY <1>1 DEF IInv, TypeOK, source, read, Unread
<1>3. Stage'
  BY <1>1 DEF IInv, Stage, Asking, Ending, Awaiting, Answered, Writing, Ends, source, read
<1>4. Delims' /\ Once'
  BY <1>1 DEF IInv, Delims, DelimTaken, Once, source, read
<1>5. InPlace'
  BY <1>1 DEF IInv, InPlace, DelimTaken, Passed, source, read
<1>6. Counted' /\ EndCounts'
  BY <1>1 DEF IInv, Counted, EndCounts, source, read
<1> QED
  BY <1>2, <1>3, <1>4, <1>5, <1>6 DEF IInv

-----------------------------------------------------------------------------
(* A read of the source *)

LEMMA TakeFacts ==
  ASSUME SourceOK, NEW n \in Nat, Source!Take(n), text' = text
  PROVE  /\ SourceOK' /\ UNCHANGED <<written, open>>
         /\ consumed' \in Nat /\ consumed <= consumed' /\ consumed' <= written
         /\ consumed' <= consumed + n
         /\ n <= Unread => consumed' = consumed + n
         /\ n > 0 /\ Unread > 0 => consumed' # consumed
<1> DEFINE taken == IF n <= Unread THEN n ELSE Unread
<1>1. /\ consumed' = consumed + taken /\ UNCHANGED <<written, open>>
      /\ flushed' = IF taken < flushed THEN flushed - taken ELSE 0
  BY DEF Source!Take, Source!Unread, Unread
<1>2. /\ written \in Nat /\ consumed \in Nat /\ consumed <= written /\ flushed \in Nat
      /\ flushed <= Unread /\ Unread \in Nat /\ Unread = written - consumed
      /\ flushed + consumed <= written
  BY DEF SourceOK, Unread
<1>3. taken \in Nat /\ taken <= n /\ taken <= Unread
  BY <1>2
<1>4. n <= Unread => taken = n
  OBVIOUS
<1>5. n > 0 /\ Unread > 0 => taken > 0
  BY <1>2
<1> HIDE DEF taken
<1>6. /\ consumed' \in Nat /\ consumed <= consumed' /\ consumed' <= written
      /\ flushed' \in Nat /\ flushed' + consumed' <= written
  BY <1>1, <1>2, <1>3
<1>7. SourceOK'
  BY <1>1, <1>6 DEF SourceOK, Unread
<1> QED
  BY <1>1, <1>2, <1>3, <1>4, <1>5, <1>6, <1>7

\* A read of n bytes is answered, or waits, and no task of the operation is left.
Answers(n) ==
  /\ UNCHANGED <<text, written, open>> /\ SourceOK'
  /\ consumed' \in Nat /\ consumed <= consumed' /\ consumed' <= consumed + n
  /\ waiting' = <<>> /\ tasks' = <<OnRead(Span(consumed, consumed'))>>
  /\ consumed' = consumed /\ readable => ~open /\ consumed = written

Waits(n) == UNCHANGED <<text, written, open, consumed>> /\ SourceOK' /\ waiting' = <<n>> /\ tasks' = <<>>

LEMMA ReadyFacts ==
  ASSUME SourceOK, NEW n \in Nat \ {0}, Source!Ready(n), Source!Take(n), text' = text,
         waiting' = <<>>, tasks' = Append(<<>>, OnRead(Span(consumed, consumed')))
  PROVE  Answers(n)
<1>1. /\ SourceOK' /\ UNCHANGED <<written, open>>
      /\ consumed' \in Nat /\ consumed <= consumed' /\ consumed' <= consumed + n
      /\ n <= Unread => consumed' = consumed + n
      /\ Unread > 0 => consumed' # consumed
  BY TakeFacts
<1>2. /\ written \in Nat /\ consumed \in Nat /\ consumed <= written /\ flushed \in Nat
      /\ flushed <= Unread /\ Unread = written - consumed
  BY DEF SourceOK, Unread
<1>3. flushed > 0 \/ n <= Unread \/ ~open
  BY DEF Source!Ready, Source!Unread, Unread
<1>4. consumed' = consumed => ~open /\ consumed = written
  BY <1>1, <1>2, <1>3
<1> QED
  BY <1>1, <1>4 DEF Answers

LEMMA RequestFacts ==
  ASSUME SourceOK, waiting = <<>>, NEW n \in Nat \ {0}, Request(n, <<>>)
  PROVE  Answers(n) \/ Waits(n)
<1>1. CASE readable /\ Source!Ready(n)
  BY <1>1, ReadyFacts DEF Request
<1>2. CASE readable /\ ~Source!Ready(n)
  BY <1>2 DEF Request, Waits, SourceOK, Unread
<1>3. CASE ~readable
  <2>1. UNCHANGED source /\ tasks' = <<OnRead(<<>>)>>
    BY <1>3 DEF Request
  <2>2. SourceOK' /\ UNCHANGED <<text, written, consumed, open, waiting>>
    BY <2>1 DEF SourceOK, source
  <2>3. consumed \in Nat /\ consumed <= consumed + n
    BY DEF SourceOK
  <2>4. Span(consumed, consumed) = <<>>
    BY <2>3, SpanEmpty
  <2> QED
    BY <1>3, <2>1, <2>2, <2>3, <2>4 DEF Answers
<1> QED
  BY <1>1, <1>2, <1>3

\* What the bytes and counts must be when the source is asked.
MayAsk ==
  /\ ~open /\ readable => written = Len(text)
  /\ op = "delim" => \A i \in 1 .. consumed : text[i] # "lf"
  /\ op # "line" => result = <<>>
  /\ op # "line" /\ target_open =>
       /\ target = Span(0, Len(target)) /\ Len(target) <= consumed
       /\ outbuf' = Span(Len(target), consumed)
  /\ op = "end" => outbuf' = <<>> /\ total' = Len(target)

\* The read of the source is the last thing that a step does.
LastStep ==
  /\ pc' = "idle" /\ UNCHANGED <<sides, result>>
  /\ outbuf' \in Seq(Byte) /\ Len(outbuf') < BufSize
  /\ total' \in Nat /\ done' \in BOOLEAN

Request1 == IF op = "end" THEN BufSize ELSE 1

LEMMA AskedStep ==
  ASSUME IInv, MayAsk, LastStep, NEW n \in Nat, n = Request1, Answers(n) \/ Waits(n)
  PROVE  IInv'
<1>1. SourceOK /\ ReadOK /\ n \in Nat \ {0} /\ n \in {1, BufSize}
  BY Parts, StreamAssumption DEF IInv, Request1
<1>0. Len(outbuf') <= BufSize
  <2>1. Len(outbuf') \in Nat /\ Len(outbuf') < BufSize /\ BufSize \in Nat
    BY StreamAssumption DEF LastStep
  <2> QED
    BY <2>1
<1>2. CASE Waits(n)
  <2>1. ReadOK'
    BY <1>0, <1>1, <1>2 DEF ReadOK, Waits, LastStep, sides
  <2>2. TypeOK'
    BY <1>2, <2>1, PartsNext DEF Waits
  <2>3. Stage'
    BY <1>1, <1>2 DEF Stage, Asking, Awaiting, Waits, LastStep, Request1, sides
  <2>4. ~DelimTaken /\ ~DelimTaken'
    BY <1>1, <1>2 DEF MayAsk, DelimTaken, Waits, SourceOK, LastStep, sides
  <2>5. Delims' /\ Once' /\ InPlace' /\ Counted' /\ EndCounts'
    BY <1>2, <2>4 DEF IInv, MayAsk, Waits, LastStep, sides, Delims, Once, InPlace, Passed, Counted, EndCounts
  <2> QED
    BY <2>2, <2>3, <2>5 DEF IInv
<1>3. CASE Answers(n)
  <2> DEFINE bytes == Span(consumed, consumed')
  <2>1. /\ consumed \in Nat /\ consumed' \in Nat /\ consumed <= consumed' /\ consumed' <= consumed + n
        /\ consumed' <= MaxText /\ MaxText \in Nat
    <3>1. /\ SourceOK' /\ consumed' \in Nat /\ consumed <= consumed' /\ consumed' <= consumed + n
      BY <1>3 DEF Answers
    <3>2. MaxText \in Nat
      BY StreamAssumption
    <3>3. consumed' <= MaxText
      BY <3>1, <3>2 DEF SourceOK
    <3> QED
      BY <1>1, <3>1, <3>2, <3>3 DEF SourceOK
  <2>2. bytes \in Seq(Byte) /\ consumed' = consumed + Len(bytes)
    <3>1. \A m, k \in Nat : m <= k => k = m + (k - m)
      OBVIOUS
    <3>2. bytes \in Seq(Byte) /\ Len(bytes) = consumed' - consumed
      BY <2>1, SpanIs
    <3> HIDE DEF bytes
    <3> QED
      BY <2>1, <3>1, <3>2
  <2>3. /\ consumed' = consumed => bytes = <<>>
        /\ consumed' = consumed /\ readable => ~open /\ consumed = written
    BY <1>3, <2>1, SpanEmpty DEF Answers
  <2>4. tasks' = <<OnRead(bytes)>> /\ waiting' = <<>> /\ UNCHANGED <<text, written, open>>
    BY <1>3 DEF Answers
  <2> HIDE DEF bytes
  <2>5. /\ OnRead(bytes) \in TaskType /\ OnRead(bytes).h = "on_read" /\ OnRead(bytes).bytes = bytes
        /\ Len(tasks') = 1 /\ tasks'[1] = OnRead(bytes) /\ tasks' # <<>> /\ tasks' \in Seq(TaskType)
    BY <2>2, <2>4 DEF OnRead, TaskType
  <2>6. ReadOK'
    BY <1>0, <1>1, <2>4, <2>5 DEF ReadOK, LastStep, sides
  <2>7. TypeOK'
    BY <1>3, <2>6, PartsNext DEF Answers
  <2>8. Stage'
    BY <1>1, <2>1, <2>2, <2>4, <2>5 DEF Stage, Answered, LastStep, Request1, sides
  <2>9. bytes = <<>> => consumed' = consumed
    BY <2>1, <2>2
  <2>10. Delims'
    <3>1. op = "delim" => consumed' <= consumed + 1
      BY <2>1 DEF Request1
    <3>2. op = "delim" => \A i \in 1 .. consumed' - 1 : text[i] # "lf"
      <4>1. \A m, k \in Nat : k <= m + 1 => \A i \in 1 .. k - 1 : i \in 1 .. m
        OBVIOUS
      <4>2. op = "delim" => \A i \in 1 .. consumed' - 1 : i \in 1 .. consumed
        BY <2>1, <3>1, <4>1
      <4> QED
        BY <4>2 DEF MayAsk
    <3>3. DelimTaken' => bytes # <<>>
      <4>1. consumed > 0 => consumed \in 1 .. consumed
        BY <2>1
      <4> QED
        BY <2>4, <2>9, <4>1 DEF DelimTaken, MayAsk, LastStep, sides
    <3>4. op = "delim" => bytes = <<>> \/ bytes = <<consumed'>>
      <4>1. \A m, k \in Nat : m <= k /\ k <= m + 1 => k = m \/ k = m + 1
        OBVIOUS
      <4>2. op = "delim" => consumed' = consumed \/ consumed' = consumed + 1
        BY <2>1, <3>1, <4>1
      <4>3. consumed' = consumed + 1 => bytes = <<consumed'>>
        <5>1. Span(consumed, consumed + 1) = <<consumed + 1>>
          BY <2>1, SpanNext
        <5> QED
          BY <5>1 DEF bytes
      <4> QED
        BY <2>3, <4>2, <4>3
    <3> QED
      BY <2>4, <2>5, <3>2, <3>3, <3>4 DEF Delims, DelimTaken, LastStep, sides
  <2>11. Once' /\ EndCounts'
    BY DEF MayAsk, Once, EndCounts, LastStep, sides
  <2>12. InPlace'
    <3>1. op # "line" /\ target_open => Len(target) + Len(outbuf') = consumed
      <4>1. \A m, k \in Nat : m <= k => m + (k - m) = k
        OBVIOUS
      <4>2. Len(target) \in Nat
        BY <1>1 DEF ReadOK
      <4>3. op # "line" /\ target_open => Len(target) <= consumed /\ Len(outbuf') = consumed - Len(target)
        BY <2>1, <4>2, SpanIs DEF MayAsk
      <4> QED
        BY <2>1, <4>1, <4>2, <4>3
    <3> QED
      BY <2>2, <2>4, <2>5, <3>1 DEF InPlace, MayAsk, LastStep, sides, bytes
  <2>13. Counted'
    <3>1. \A i \in 1 .. Len(tasks') : tasks'[i] = OnRead(bytes)
      BY <2>5
    <3> QED
      BY <2>3, <2>4, <2>5, <2>9, <3>1 DEF Counted, MayAsk, LastStep, sides
  <2> QED
    BY <2>7, <2>8, <2>10, <2>11, <2>12, <2>13 DEF IInv
<1> QED
  BY <1>2, <1>3

LEMMA MayAskFacts ==
  ASSUME IInv, tasks = <<>>, ~DelimTaken, waiting # <<>> \/ pc # "idle", UNCHANGED <<outbuf, total>>
  PROVE  MayAsk
<1>1. SourceOK
  BY Parts DEF IInv
<1>2. op = "delim" => \A i \in 1 .. consumed : text[i] # "lf"
  <2>1. consumed \in Nat
    BY <1>1 DEF SourceOK
  <2>2. \A m \in Nat : \A i \in 1 .. m : i \in 1 .. m - 1 \/ (i = m /\ m > 0)
    OBVIOUS
  <2>3. \A i \in 1 .. consumed : i \in 1 .. consumed - 1 \/ (i = consumed /\ consumed > 0)
    BY <2>1, <2>2
  <2> QED
    BY <2>3 DEF IInv, Delims, DelimTaken
<1>3. op # "line" => result = <<>>
  BY DEF IInv, Once
<1> QED
  BY <1>2, <1>3 DEF IInv, MayAsk, InPlace, Passed, Counted

LEMMA AnswerStep == ASSUME IInv, Answer PROVE IInv'
<1>1. SourceOK /\ ReadOK
  BY Parts DEF IInv
<1>2. /\ Idle /\ waiting # <<>> /\ Source!Ready(Head(waiting)) /\ Source!Take(Head(waiting))
      /\ waiting' = Tail(waiting) /\ UNCHANGED <<text, sides, pc, done, outbuf, total, result>>
      /\ tasks' = Append(tasks, OnRead(Span(consumed, consumed')))
  BY DEF Answer, Source!Answer
<1>3. pc = "idle" /\ Awaiting
  BY <1>1, <1>2 DEF IInv, Stage, Asking, Answered, Writing, Ends, Idle
<1>4. Len(waiting) = 1 /\ waiting \in Seq({1, BufSize}) /\ Head(waiting) = waiting[1] /\ tasks = <<>>
  BY <1>1, <1>3 DEF Awaiting, ReadOK
<1>5. waiting' = <<>>
  BY <1>2, <1>4
<1>6. waiting[1] = Request1 /\ waiting[1] \in Nat \ {0}
  BY <1>3, StreamAssumption DEF Awaiting, Request1
<1>7. Answers(waiting[1])
  BY <1>1, <1>2, <1>4, <1>5, <1>6, ReadyFacts
<1>8. MayAsk
  BY <1>2, <1>4, MayAskFacts DEF IInv, Delims
<1>9. LastStep
  BY <1>1, <1>2, <1>3 DEF LastStep, ReadOK, Awaiting
<1> QED
  BY <1>6, <1>7, <1>8, <1>9, AskedStep

-----------------------------------------------------------------------------
(* The read *)

LEMMA CallStep == ASSUME IInv, Call PROVE IInv'
<1>1. /\ pc = "start" /\ pc' = "enter" /\ UNCHANGED <<source, sides, tasks, done, outbuf, total, result>>
  BY DEF Call
<1>2. TypeOK'
  BY <1>1, Parts, PartsNext DEF IInv, SourceOK, ReadOK, source, sides
<1> QED
  BY <1>1, <1>2 DEF IInv, Stage, Asking, Delims, DelimTaken,
     Once, InPlace, Passed, Counted, EndCounts, source, sides

\* What is so before the source is asked.
LEMMA Entered ==
  ASSUME IInv, pc = "enter"
  PROVE  /\ tasks = <<>> /\ waiting = <<>> /\ ~done /\ ~DelimTaken /\ Len(outbuf) < BufSize
         /\ op # "line" => result = <<>>
  BY DEF IInv, Stage, Asking, Delims, Once

LEMMA EnterStep == ASSUME IInv, Enter PROVE IInv'
<1>1. /\ pc = "enter" /\ op # "end" /\ UNCHANGED <<sides, done, outbuf, total, result>>
      /\ IF Unread = 0 THEN Request(1, tasks) /\ pc' = "idle"
         ELSE pc' = "loop" /\ UNCHANGED <<source, tasks>>
  BY DEF Enter
<1>2. SourceOK /\ ReadOK
  BY Parts DEF IInv
<1>3. tasks = <<>> /\ waiting = <<>> /\ ~done /\ ~DelimTaken /\ Len(outbuf) < BufSize
  BY <1>1, Entered
<1>4. CASE Unread = 0
  <2>1. Answers(1) \/ Waits(1)
    BY <1>1, <1>2, <1>3, <1>4, RequestFacts
  <2>2. MayAsk
    BY <1>1, <1>3, MayAskFacts
  <2>3. LastStep
    BY <1>1, <1>2, <1>3, <1>4 DEF LastStep, ReadOK
  <2>4. Request1 = 1
    BY <1>1 DEF Request1
  <2> QED
    BY <2>1, <2>2, <2>3, <2>4, AskedStep
<1>5. CASE Unread # 0
  <2>1. TypeOK'
    BY <1>1, <1>2, <1>5, PartsNext DEF SourceOK, ReadOK, source, sides
  <2> QED
    BY <1>1, <1>3, <1>5, <2>1 DEF IInv, Stage, Asking, Delims, DelimTaken,
       Once, InPlace, Passed, Counted, EndCounts, source, sides
<1> QED
  BY <1>4, <1>5

LEMMA EnterEndStep == ASSUME IInv, EnterEnd PROVE IInv'
<1>1. /\ pc = "enter" /\ op = "end" /\ UNCHANGED <<sides, done, outbuf, total, result>>
      /\ Request(BufSize, tasks) /\ pc' = "idle"
  BY DEF EnterEnd, ReadMore
<1>2. SourceOK /\ ReadOK
  BY Parts DEF IInv
<1>3. tasks = <<>> /\ waiting = <<>> /\ ~DelimTaken /\ Len(outbuf) < BufSize
  BY <1>1, Entered
<1>4. Answers(BufSize) \/ Waits(BufSize)
  BY <1>1, <1>2, <1>3, RequestFacts, StreamAssumption
<1>5. MayAsk
  BY <1>1, <1>3, MayAskFacts
<1>6. LastStep
  BY <1>1, <1>2, <1>3 DEF LastStep, ReadOK
<1>7. Request1 = BufSize
  BY <1>1 DEF Request1
<1> QED
  BY <1>4, <1>5, <1>6, <1>7, AskedStep, StreamAssumption

LEMMA LoopDrainedStep == ASSUME IInv, LoopDrained PROVE IInv'
<1>1. /\ pc = "loop" /\ pc' = "idle"
      /\ UNCHANGED <<source, sides, tasks, done, outbuf, total, result>>
  BY DEF LoopDrained
<1>2. op # "end" /\ waiting = <<>> /\ (op = "delim" => tasks = <<>>) /\ Ending
  BY <1>1 DEF IInv, Stage, Asking, Ending
<1>3. TypeOK'
  BY <1>1, Parts, PartsNext DEF IInv, SourceOK, ReadOK, source, sides
<1>4. op \in {"delim", "line"}
  BY <1>2, Parts DEF IInv, ReadOK
<1>5. Stage'
  BY <1>1, <1>2, <1>4 DEF Stage, Ends, Ending, source, sides
<1> QED
  BY <1>1, <1>2, <1>3, <1>5 DEF IInv, Delims, DelimTaken,
     Once, InPlace, Passed, Counted, EndCounts, source, sides

-----------------------------------------------------------------------------
(* A write of the target *)

\* Of a read of a line only the types and the stage are looked at.
LEMMA LineStep ==
  ASSUME IInv, op = "line", UNCHANGED <<op, readable, text, written, open>>, TypeOK', Stage'
  PROVE  IInv'
  BY DEF IInv, Delims, DelimTaken, Once, InPlace, Counted, EndCounts

\* What putn() of the bytes in outbuf leaves behind the other tasks.
LEMMA PutFacts ==
  ASSUME NEW bytes \in Seq(Byte), NEW d \in BOOLEAN, NEW rest \in Seq(TaskType),
         base_target \in BOOLEAN, target_open \in BOOLEAN, Put(bytes, d, rest)
  PROVE  \/ base_target /\ bytes = <<>> /\ tasks' = rest
         \/ \E t \in TaskType :
              /\ tasks' = Append(rest, t) /\ tasks' \in Seq(TaskType) /\ t.done = d
              /\ \/ t.h = "put" /\ t.bytes = bytes
                 \/ t.h = "on_write" /\ t.n = 0 /\ ~target_open
<1>1. OnWrite(0, d) \in TaskType /\ PutTask(bytes, d) \in TaskType
  BY DEF OnWrite, PutTask, TaskType
<1>2. \A t \in TaskType : Append(rest, t) \in Seq(TaskType)
  OBVIOUS
<1>3. CASE base_target /\ bytes = <<>>
  BY <1>3 DEF Put
<1>4. CASE ~(base_target /\ bytes = <<>>) /\ base_target /\ ~target_open
  <2>1. tasks' = Append(rest, OnWrite(0, d))
    BY <1>4 DEF Put
  <2>2. OnWrite(0, d).done = d /\ OnWrite(0, d).h = "on_write" /\ OnWrite(0, d).n = 0
    BY DEF OnWrite
  <2> QED
    BY <1>1, <1>2, <1>4, <2>1, <2>2
<1>5. CASE ~(base_target /\ bytes = <<>>) /\ ~(base_target /\ ~target_open)
  <2>1. tasks' = Append(rest, PutTask(bytes, d))
    BY <1>5 DEF Put
  <2>2. PutTask(bytes, d).done = d /\ PutTask(bytes, d).h = "put" /\ PutTask(bytes, d).bytes = bytes
    BY DEF PutTask
  <2> QED
    BY <1>1, <1>2, <2>1, <2>2
<1> QED
  BY <1>3, <1>4, <1>5

\* A step that takes bytes of the source and writes outbuf to the target.
Puts(bytes, d) ==
  /\ bytes = outbuf' /\ bytes \in Seq(Byte) /\ Len(bytes) <= BufSize
  /\ SourceOK' /\ UNCHANGED <<text, written, open, waiting>> /\ waiting = <<>>
  /\ pc' = "idle" /\ UNCHANGED <<sides, total, result>> /\ done' \in BOOLEAN
  /\ ~open /\ readable => written = Len(text)

\* What the bytes must be when the target is written.
MayPut(bytes, d) ==
  /\ result = <<>>
  /\ op = "delim" => (\A i \in 1 .. consumed' - 1 : text[i] # "lf") /\ (DelimTaken' => d)
  /\ target_open => /\ target = Span(0, Len(target)) /\ Len(target) <= Passed'
                    /\ bytes = Span(Len(target), Passed')
  /\ op = "end" => bytes # <<>> /\ total = Len(target)

LEMMA PutStep ==
  ASSUME IInv, op # "line", NEW bytes, NEW d \in BOOLEAN, Put(bytes, d, <<>>),
         Puts(bytes, d), MayPut(bytes, d)
  PROVE  IInv'
<1>1. SourceOK /\ ReadOK
  BY Parts DEF IInv
<1>2. <<>> \in Seq(TaskType) /\ bytes \in Seq(Byte) /\ base_target \in BOOLEAN /\ target_open \in BOOLEAN
  BY <1>1 DEF ReadOK, Puts
<1>3. \/ base_target /\ bytes = <<>> /\ tasks' = <<>>
      \/ \E t \in TaskType :
           /\ tasks' = Append(<<>>, t) /\ tasks' \in Seq(TaskType) /\ t.done = d
           /\ \/ t.h = "put" /\ t.bytes = bytes
              \/ t.h = "on_write" /\ t.n = 0 /\ ~target_open
  BY <1>2, PutFacts
<1>4. tasks' \in Seq(TaskType)
  BY <1>2, <1>3
<1>5. TypeOK'
  <2>1. ReadOK'
    BY <1>1, <1>4 DEF ReadOK, Puts, sides
  <2> QED
    BY <2>1, PartsNext DEF Puts
<1>6. Once' /\ EndCounts'
  BY DEF Puts, MayPut, Once, EndCounts, sides
<1>7. CASE base_target /\ bytes = <<>> /\ tasks' = <<>>
  <2>1. op = "delim"
    BY <1>1, <1>7 DEF MayPut, ReadOK
  <2>2. Stage'
    BY <1>7, <2>1 DEF Stage, Ends, Puts, sides
  <2>3. Delims' /\ InPlace' /\ Counted'
    BY <1>7, <2>1 DEF Puts, MayPut, Delims, DelimTaken, InPlace, Counted, sides
  <2> QED
    BY <1>5, <1>6, <2>2, <2>3 DEF IInv
<1>8. ASSUME NEW t \in TaskType, tasks' = Append(<<>>, t), t.done = d,
             \/ t.h = "put" /\ t.bytes = bytes
             \/ t.h = "on_write" /\ t.n = 0 /\ ~target_open
      PROVE  IInv'
  <2>1. Len(tasks') = 1 /\ tasks'[1] = t /\ tasks' # <<>> /\ t.h # "on_read"
    BY <1>8
  <2>2. Stage'
    BY <2>1 DEF Stage, Writing, Puts, sides
  <2>3. Delims'
    <3>1. DelimTaken' => tasks'[1].done
      <4>1. DelimTaken' => op = "delim"
        BY DEF DelimTaken, Puts, sides
      <4> QED
        BY <1>8, <2>1, <4>1 DEF MayPut
    <3>2. op' = op /\ text' = text /\ pc' = "idle" /\ waiting' = <<>>
      BY DEF Puts, sides
    <3> QED
      BY <1>8, <2>1, <3>1, <3>2 DEF MayPut, Delims
  <2>4. InPlace'
    BY <1>8, <2>1 DEF Puts, MayPut, InPlace, sides
  <2>5. Counted'
    <3>1. \A i \in 1 .. Len(tasks') : tasks'[i] = t
      BY <2>1
    <3>2. t.h = "on_write" /\ op = "end" => total + t.n = Len(target)
      BY <1>1, <1>8 DEF MayPut, ReadOK
    <3> QED
      BY <1>8, <2>1, <3>1, <3>2 DEF Puts, MayPut, Counted, sides
  <2> QED
    BY <1>5, <1>6, <2>2, <2>3, <2>4, <2>5 DEF IInv
<1> QED
  BY <1>3, <1>7, <1>8

\* Tasks that only write, of a line whose end was seen.
EndingTasks(ts) == \A i \in 1 .. Len(ts) : ts[i].h # "on_read" /\ ts[i].done

\* The same for a read of a line, which may go on in its loop.
LinePuts(d, rest) ==
  /\ SourceOK' /\ UNCHANGED <<text, written, open>> /\ waiting' = <<>> /\ waiting = <<>>
  /\ UNCHANGED <<sides, total, result>> /\ done' \in BOOLEAN
  /\ outbuf' \in Seq(Byte) /\ Len(outbuf') <= BufSize
  /\ (d /\ EndingTasks(rest)) \/ rest = <<>>
  /\ pc' = "idle" \/ (pc' = "loop" /\ d /\ done' /\ Len(outbuf') < BufSize)

LEMMA LinePutStep ==
  ASSUME IInv, op = "line", NEW bytes \in Seq(Byte), NEW d \in BOOLEAN, NEW rest \in Seq(TaskType),
         Put(bytes, d, rest), LinePuts(d, rest)
  PROVE  IInv'
<1>1. SourceOK /\ ReadOK
  BY Parts DEF IInv
<1>2. base_target \in BOOLEAN /\ target_open \in BOOLEAN
  BY <1>1 DEF ReadOK
<1>3. \/ base_target /\ bytes = <<>> /\ tasks' = rest
      \/ \E t \in TaskType :
           /\ tasks' = Append(rest, t) /\ tasks' \in Seq(TaskType) /\ t.done = d
           /\ \/ t.h = "put" /\ t.bytes = bytes
              \/ t.h = "on_write" /\ t.n = 0 /\ ~target_open
  BY <1>2, PutFacts
<1>4. tasks' \in Seq(TaskType)
  BY <1>3
<1>5. TypeOK'
  <2>1. pc' \in {"start", "enter", "loop", "idle", "terminated"}
    BY DEF LinePuts
  <2>2. waiting' \in Seq({1, BufSize})
    BY DEF LinePuts
  <2>3. ReadOK'
    BY <1>1, <1>4, <2>1, <2>2 DEF ReadOK, LinePuts, sides
  <2> QED
    BY <2>3, PartsNext DEF LinePuts
<1>6. CASE d /\ EndingTasks(rest)
  <2>1. Ending'
    <3>1. CASE tasks' = rest
      BY <1>6, <3>1 DEF Ending, EndingTasks
    <3>2. ASSUME NEW t \in TaskType, tasks' = Append(rest, t), t.done = d, t.h # "on_read"
          PROVE  Ending'
      <4>1. \A i \in 1 .. Len(tasks') : tasks'[i] = t \/ (i \in 1 .. Len(rest) /\ tasks'[i] = rest[i])
        BY <3>2
      <4> QED
        BY <1>6, <3>2, <4>1 DEF Ending, EndingTasks
    <3> QED
      BY <1>3, <3>1, <3>2
  <2>2. op' = "line"
    BY DEF LinePuts, sides
  <2>3. Stage'
    BY <1>6, <2>1, <2>2 DEF Stage, Asking, Ends, LinePuts
  <2> QED
    BY <1>5, <2>3, LineStep DEF LinePuts, sides
<1>7. CASE rest = <<>> /\ ~d
  <2>1. op' = "line" /\ pc' = "idle" /\ waiting' = <<>>
    BY <1>7 DEF LinePuts, sides
  <2>2. CASE tasks' = rest
    BY <1>5, <1>7, <2>1, <2>2, LineStep DEF Stage, Ends, Ending, LinePuts, sides
  <2>3. ASSUME NEW t \in TaskType, tasks' = Append(rest, t), t.done = d, t.h # "on_read"
        PROVE  IInv'
    <3>1. Len(tasks') = 1 /\ tasks'[1] = t
      BY <1>7, <2>3
    <3>2. Stage'
      BY <1>7, <2>1, <2>3, <3>1 DEF Stage, Writing
    <3> QED
      BY <1>5, <3>2, LineStep DEF LinePuts, sides
  <2> QED
    BY <1>3, <2>2, <2>3
<1>8. CASE rest = <<>> /\ d
  BY <1>6, <1>8 DEF EndingTasks
<1> QED
  BY <1>6, <1>7, <1>8 DEF LinePuts

-----------------------------------------------------------------------------
(* The loop over the bytes that are there *)

LEMMA Looping ==
  ASSUME IInv, pc = "loop"
  PROVE  /\ waiting = <<>> /\ Len(outbuf) < BufSize /\ op \in {"delim", "line"}
         /\ op = "delim" => tasks = <<>> /\ ~done /\ ~DelimTaken /\ result = <<>>
         /\ done => EndingTasks(tasks)
         /\ ~done => tasks = <<>>
<1>1. op \in {"delim", "line", "end"}
  BY Parts DEF IInv, ReadOK
<1> QED
  BY <1>1 DEF IInv, Stage, Asking, Ending, EndingTasks, Delims, Once

LEMMA TakeBytes ==
  ASSUME SourceOK, NEW n \in Nat, n <= Unread, Take(n), Unread > 0
  PROVE  /\ SourceOK' /\ UNCHANGED <<text, waiting, written, open>>
         /\ consumed' = consumed + n /\ consumed \in Nat /\ consumed + 1 \in Byte
<1>1. SourceOK' /\ UNCHANGED <<text, waiting, written, open>> /\ consumed' = consumed + n
  BY TakeFacts DEF Take
<1>2. consumed \in Nat /\ written \in Nat /\ MaxText \in Nat /\ written <= MaxText /\ Unread = written - consumed
  BY StreamAssumption DEF SourceOK, Unread
<1>3. consumed + 1 \in 1 .. MaxText
  BY <1>2
<1> QED
  BY <1>1, <1>2, <1>3 DEF Byte

\* No delimiter was taken yet.
LEMMA NoDelim ==
  ASSUME IInv, op = "delim", ~DelimTaken
  PROVE  \A i \in 1 .. consumed : text[i] # "lf"
<1>1. consumed \in Nat
  BY Parts DEF IInv, SourceOK
<1>2. \A m \in Nat : \A i \in 1 .. m : i \in 1 .. m - 1 \/ (i = m /\ m > 0)
  OBVIOUS
<1>3. \A i \in 1 .. consumed : i \in 1 .. consumed - 1 \/ (i = consumed /\ consumed > 0)
  BY <1>1, <1>2
<1> QED
  BY <1>3 DEF IInv, Delims, DelimTaken

LEMMA LoopEofStep == ASSUME IInv, LoopEof PROVE IInv'
<1>1. /\ pc = "loop" /\ done' = TRUE /\ Put(outbuf, TRUE, tasks) /\ pc' = "idle"
      /\ UNCHANGED <<source, sides, outbuf, total, result>>
  BY DEF LoopEof, LeaveLoop
<1>2. SourceOK /\ ReadOK
  BY Parts DEF IInv
<1>3. /\ waiting = <<>> /\ op \in {"delim", "line"}
      /\ op = "delim" => tasks = <<>> /\ ~DelimTaken /\ result = <<>>
      /\ EndingTasks(tasks)
  BY <1>1, Looping DEF EndingTasks
<1>4. SourceOK' /\ UNCHANGED <<text, written, consumed, open, waiting>>
  BY <1>1, <1>2 DEF SourceOK, source
<1>5. CASE op = "line"
  <2>1. LinePuts(TRUE, tasks)
    BY <1>1, <1>2, <1>3, <1>4 DEF LinePuts, ReadOK
  <2> QED
    BY <1>1, <1>2, <1>5, <2>1, LinePutStep DEF ReadOK
<1>6. CASE op = "delim"
  <2>1. Puts(outbuf, TRUE)
    BY <1>1, <1>2, <1>3, <1>4 DEF Puts, ReadOK, IInv, Counted
  <2>2. Passed = consumed /\ Passed' = consumed
    BY <1>1, <1>3, <1>4, <1>6 DEF Passed, DelimTaken, sides
  <2>3. \A i \in 1 .. consumed' - 1 : text[i] # "lf"
    BY <1>4, <1>6 DEF IInv, Delims
  <2>4. MayPut(outbuf, TRUE)
    BY <1>3, <1>6, <2>2, <2>3 DEF IInv, MayPut, InPlace
  <2> QED
    BY <1>1, <1>3, <1>6, <2>1, <2>4, PutStep
<1> QED
  BY <1>3, <1>5, <1>6

LEMMA LoopDelimStep == ASSUME IInv, LoopDelim PROVE IInv'
<1>1. /\ pc = "loop" /\ Unread > 0 /\ op = "delim" /\ text[consumed + 1] = "lf" /\ Take(1)
      /\ done' = TRUE /\ Put(outbuf, TRUE, tasks) /\ pc' = "idle"
      /\ UNCHANGED <<sides, outbuf, total, result>>
  BY DEF LoopDelim, LeaveLoop
<1>2. SourceOK /\ ReadOK
  BY Parts DEF IInv
<1>3. waiting = <<>> /\ tasks = <<>> /\ ~DelimTaken /\ result = <<>>
  BY <1>1, Looping
<1>4. 1 <= Unread
  BY <1>1, <1>2 DEF SourceOK, Unread
<1>5. /\ SourceOK' /\ UNCHANGED <<text, waiting, written, open>>
      /\ consumed' = consumed + 1 /\ consumed \in Nat
  BY <1>1, <1>2, <1>4, TakeBytes
<1>6. Puts(outbuf, TRUE)
  BY <1>1, <1>2, <1>3, <1>5 DEF Puts, ReadOK, IInv, Counted
<1>7. consumed' - 1 = consumed
  BY <1>5
<1>8. Passed = consumed /\ Passed' = consumed
  BY <1>1, <1>3, <1>5, <1>7 DEF Passed, DelimTaken, sides
<1>9. MayPut(outbuf, TRUE)
  BY <1>1, <1>3, <1>7, <1>8, NoDelim DEF IInv, MayPut, InPlace
<1> QED
  BY <1>1, <1>3, <1>6, <1>9, PutStep

LEMMA LoopCrStep == ASSUME IInv, LoopCr PROVE IInv'
<1> DEFINE n == IF Unread > 1 /\ text[consumed + 2] = "lf" THEN 2 ELSE 1
<1>1. /\ pc = "loop" /\ Unread > 0 /\ op = "line" /\ Take(n)
      /\ done' = TRUE /\ Put(outbuf, TRUE, tasks)
      /\ UNCHANGED <<sides, pc, outbuf, total, result>>
  BY DEF LoopCr
<1>2. SourceOK /\ ReadOK
  BY Parts DEF IInv
<1>3. waiting = <<>> /\ Len(outbuf) < BufSize /\ EndingTasks(tasks)
  BY <1>1, Looping DEF EndingTasks
<1>4. n \in Nat /\ n <= Unread
  BY <1>1, <1>2 DEF SourceOK, Unread
<1> HIDE DEF n
<1>5. SourceOK' /\ UNCHANGED <<text, waiting, written, open>>
  BY <1>1, <1>2, <1>4, TakeBytes
<1>6. LinePuts(TRUE, tasks)
  BY <1>1, <1>2, <1>3, <1>5 DEF LinePuts, ReadOK
<1> QED
  BY <1>1, <1>2, <1>6, LinePutStep DEF ReadOK

\* A byte is put behind those in outbuf.
LEMMA Stored ==
  ASSUME ReadOK, NEW b \in Byte, Len(outbuf) < BufSize
  PROVE  /\ Append(outbuf, b) \in Seq(Byte) /\ Len(Append(outbuf, b)) = Len(outbuf) + 1
         /\ Len(Append(outbuf, b)) <= BufSize
         /\ Len(Append(outbuf, b)) # BufSize => Len(Append(outbuf, b)) < BufSize
<1>1. outbuf \in Seq(Byte) /\ BufSize \in Nat
  BY StreamAssumption DEF ReadOK
<1>2. Append(outbuf, b) \in Seq(Byte) /\ Len(Append(outbuf, b)) = Len(outbuf) + 1 /\ Len(outbuf) \in Nat
  BY <1>1
<1> QED
  BY <1>1, <1>2

LEMMA LoopByteStep == ASSUME IInv, LoopByte PROVE IInv'
<1>1. /\ pc = "loop" /\ Unread > 0 /\ text[consumed + 1] # (IF op = "delim" THEN "lf" ELSE "cr")
      /\ Take(1) /\ outbuf' = Append(outbuf, consumed + 1)
      /\ UNCHANGED <<sides, done, total, result>>
  BY DEF LoopByte
<1>2. SourceOK /\ ReadOK
  BY Parts DEF IInv
<1>3. /\ waiting = <<>> /\ Len(outbuf) < BufSize /\ op \in {"delim", "line"}
      /\ op = "delim" => tasks = <<>> /\ ~done /\ ~DelimTaken /\ result = <<>>
      /\ done => EndingTasks(tasks)
      /\ ~done => tasks = <<>>
  BY <1>1, Looping
<1>4. 1 <= Unread
  BY <1>1, <1>2 DEF SourceOK, Unread
<1>5. /\ SourceOK' /\ UNCHANGED <<text, waiting, written, open>>
      /\ consumed' = consumed + 1 /\ consumed \in Nat /\ consumed + 1 \in Byte
  BY <1>1, <1>2, <1>4, TakeBytes
<1>6. /\ outbuf' \in Seq(Byte) /\ Len(outbuf') <= BufSize
      /\ Len(outbuf') # BufSize => Len(outbuf') < BufSize
  BY <1>1, <1>2, <1>3, <1>5, Stored
<1>7. consumed' - 1 = consumed
  BY <1>5
<1>8. op = "delim" => /\ ~DelimTaken' /\ Passed' = consumed' /\ Passed = consumed
                      /\ \A i \in 1 .. consumed : text[i] # "lf"
  BY <1>1, <1>3, <1>5, NoDelim DEF DelimTaken, Passed, sides
<1>9. op = "delim" /\ target_open => /\ target = Span(0, Len(target)) /\ Len(target) <= Passed'
                                      /\ outbuf' = Span(Len(target), Passed')
  <2>1. op = "delim" /\ target_open =>
          /\ target = Span(0, Len(target)) /\ Len(target) <= consumed /\ outbuf = Span(Len(target), consumed)
    BY <1>3, <1>8 DEF IInv, InPlace
  <2>2. Len(target) \in Nat
    BY <1>2 DEF ReadOK
  <2>3. Len(target) <= consumed => Append(Span(Len(target), consumed), consumed + 1) = Span(Len(target), consumed + 1)
    BY <1>5, <2>2, SpanNext
  <2>4. Len(target) <= consumed => Len(target) <= consumed + 1
    BY <1>5, <2>2
  <2> QED
    BY <1>1, <1>5, <1>8, <2>1, <2>3, <2>4
<1>10. CASE Len(outbuf') = BufSize
  <2>1. Put(outbuf', done, tasks) /\ pc' = "idle"
    BY <1>10 DEF LoopByte, LeaveLoop
  <2>2. done \in BOOLEAN /\ tasks \in Seq(TaskType)
    BY <1>2 DEF ReadOK
  <2>3. CASE op = "line"
    <3>1. LinePuts(done, tasks)
      BY <1>1, <1>3, <1>5, <1>6, <2>1, <2>2 DEF LinePuts
    <3> QED
      BY <1>6, <2>1, <2>2, <2>3, <3>1, LinePutStep
  <2>4. CASE op = "delim"
    <3>1. Puts(outbuf', done)
      BY <1>1, <1>3, <1>5, <1>6, <2>1, <2>2 DEF Puts, IInv, Counted
    <3>2. MayPut(outbuf', done)
      BY <1>3, <1>7, <1>8, <1>9, <2>4 DEF MayPut
    <3> QED
      BY <1>3, <2>1, <2>2, <2>4, <3>1, <3>2, PutStep
  <2> QED
    BY <1>3, <2>3, <2>4
<1>11. CASE Len(outbuf') # BufSize
  <2>1. UNCHANGED <<tasks, pc>> /\ Len(outbuf') < BufSize
    BY <1>6, <1>11 DEF LoopByte
  <2>2. TypeOK'
    <3>1. ReadOK'
      BY <1>1, <1>2, <1>5, <1>6, <2>1 DEF ReadOK, sides
    <3> QED
      BY <1>5, <3>1, PartsNext
  <2>3. Stage'
    BY <1>1, <1>3, <1>5, <2>1 DEF Stage, Asking, Ending, EndingTasks, sides
  <2>4. CASE op = "line"
    BY <1>1, <1>5, <2>2, <2>3, <2>4, LineStep DEF sides
  <2>5. CASE op = "delim"
    <3>1. Delims' /\ Once' /\ EndCounts' /\ Counted'
      BY <1>1, <1>3, <1>5, <1>7, <1>8, <2>1, <2>5
         DEF IInv, Delims, Once, EndCounts, Counted, sides
    <3>2. InPlace'
      BY <1>1, <1>3, <1>9, <2>1, <2>5 DEF InPlace, sides
    <3> QED
      BY <2>2, <2>3, <3>1, <3>2 DEF IInv
  <2> QED
    BY <1>3, <2>4, <2>5
<1> QED
  BY <1>10, <1>11

-----------------------------------------------------------------------------
(* The handlers *)

LEMMA HeadFacts ==
  ASSUME IInv, NEW h, Runs(h)
  PROVE  /\ pc = "idle" /\ tasks # <<>> /\ tasks \in Seq(TaskType) /\ Head(tasks) = tasks[1]
         /\ tasks[1] \in TaskType /\ tasks[1].h = h /\ Tail(tasks) \in Seq(TaskType)
         /\ waiting = <<>> /\ (op # "line" => Tail(tasks) = <<>> /\ result = <<>>)
         /\ h = "on_read" => Tail(tasks) = <<>> /\ Answered
         /\ h # "on_read" => \/ EndingTasks(tasks) /\ EndingTasks(Tail(tasks))
                             \/ Tail(tasks) = <<>> /\ (op = "line" => ~tasks[1].done)
<1>1. /\ tasks # <<>> /\ Head(tasks).h = h /\ pc \in {"start", "idle"} /\ tasks \in Seq(TaskType)
  BY Parts DEF IInv, ReadOK, Runs, Idle
<1>2. Head(tasks) = tasks[1] /\ tasks[1] \in TaskType /\ Tail(tasks) \in Seq(TaskType) /\ Len(tasks) > 0
      /\ Len(tasks) \in Nat
  BY <1>1
<1>3. pc = "idle"
  BY <1>1 DEF IInv, Stage, Asking
<1>4. Len(tasks) = 1 => Tail(tasks) = <<>>
  <2>1. Len(tasks) = 1 => Len(Tail(tasks)) = 0
    BY <1>1
  <2> QED
    BY <1>2, <2>1, EmptySeq
<1>5. op # "line" => result = <<>>
  BY <1>1 DEF IInv, Once
<1>6. Awaiting \/ Answered \/ Writing \/ Ends
  BY <1>3 DEF IInv, Stage
<1>7. CASE Answered
  BY <1>1, <1>2, <1>3, <1>4, <1>5, <1>7 DEF Answered
<1>8. CASE Writing
  BY <1>1, <1>2, <1>3, <1>4, <1>5, <1>8 DEF Writing
<1>9. CASE Ends
  <2>1. waiting = <<>> /\ op = "line" /\ EndingTasks(tasks)
    BY <1>1, <1>9 DEF Ends, Ending, EndingTasks
  <2>2. \A i \in 1 .. Len(Tail(tasks)) : i + 1 \in 1 .. Len(tasks) /\ Tail(tasks)[i] = tasks[i + 1]
    BY <1>1, <1>2
  <2>3. EndingTasks(Tail(tasks))
    BY <2>1, <2>2 DEF EndingTasks
  <2>4. tasks[1].h # "on_read"
    BY <1>2, <2>1 DEF EndingTasks
  <2> QED
    BY <1>1, <1>2, <1>3, <2>1, <2>3, <2>4
<1> QED
  BY <1>1, <1>6, <1>7, <1>8, <1>9 DEF Awaiting

\* The byte that a delimiter read waited for is the last one that was taken.
LEMMA ReadOne ==
  ASSUME IInv, Runs("on_read"), op = "delim", NEW bytes, bytes = tasks[1].bytes
  PROVE  /\ bytes = <<>> => ~DelimTaken
         /\ bytes # <<>> => bytes = <<consumed>> /\ consumed \in Byte /\ (DelimTaken <=> text[consumed] = "lf")
<1>1. tasks # <<>> /\ tasks[1].h = "on_read" /\ tasks[1] \in TaskType
  BY HeadFacts
<1>2. bytes = <<>> \/ bytes = <<consumed>>
  BY <1>1 DEF IInv, Delims
<1>3. bytes = <<consumed>> => consumed \in Byte
  <2>1. bytes \in Seq(Byte)
    BY <1>1 DEF TaskType
  <2> SUFFICES ASSUME bytes = <<consumed>> PROVE consumed \in Byte
    OBVIOUS
  <2>2. Len(bytes) = 1 /\ bytes[1] = consumed
    OBVIOUS
  <2> QED
    BY <2>1, <2>2
<1>4. consumed \in Byte => consumed > 0
  BY StreamAssumption DEF Byte
<1> QED
  BY <1>1, <1>2, <1>3, <1>4 DEF IInv, Delims, DelimTaken

LEMMA OnReadByteStep == ASSUME IInv, OnReadByte PROVE IInv'
<1> DEFINE bytes == tasks[1].bytes
           kind  == IF bytes = <<>> THEN "eof" ELSE text[bytes[1]]
           ended == kind = "eof" \/ (op = "delim" /\ kind = "lf")
           cr    == op = "line" /\ kind = "cr"
<1>1. /\ Runs("on_read") /\ op # "end" /\ UNCHANGED <<sides, total, result>>
  BY DEF OnReadByte
<1>2. SourceOK /\ ReadOK
  BY Parts DEF IInv
<1>3. /\ pc = "idle" /\ tasks # <<>> /\ Head(tasks) = tasks[1] /\ tasks[1] \in TaskType
      /\ tasks[1].h = "on_read" /\ Tail(tasks) = <<>> /\ waiting = <<>>
      /\ (op # "line" => result = <<>>) /\ Answered
  BY <1>1, HeadFacts
<1>4. /\ ended => Put(outbuf, TRUE, <<>>) /\ UNCHANGED <<source, outbuf, pc, done>>
      /\ ~ended /\ cr => /\ IF readable /\ Unread > 0 /\ text[consumed + 1] = "lf" THEN Take(1) ELSE UNCHANGED source
                         /\ Put(outbuf, TRUE, <<>>) /\ UNCHANGED <<outbuf, pc, done>>
      /\ ~ended /\ ~cr => /\ outbuf' = outbuf \o bytes /\ done' = FALSE /\ UNCHANGED source
                          /\ IF Len(outbuf') = BufSize THEN Put(outbuf', FALSE, <<>>) /\ UNCHANGED pc
                             ELSE pc' = "enter" /\ tasks' = <<>>
  BY <1>3 DEF OnReadByte
<1>5. /\ bytes \in Seq(Byte) /\ outbuf \in Seq(Byte) /\ op \in {"delim", "line"} /\ Len(bytes) <= 1
      /\ Len(outbuf) < BufSize /\ Len(outbuf) <= BufSize
  BY <1>1, <1>2, <1>3 DEF TaskType, ReadOK, Answered
<1>6. ~open /\ readable => written = Len(text)
  BY DEF IInv, Counted
<1>7. op = "delim" /\ target_open =>
        /\ target = Span(0, Len(target)) /\ outbuf = Span(Len(target), Len(target) + Len(outbuf))
        /\ Len(target) + Len(outbuf) + Len(bytes) = consumed
  BY <1>3 DEF IInv, InPlace
<1>8. Len(target) \in Nat /\ Len(outbuf) \in Nat /\ consumed \in Nat
  BY <1>2 DEF ReadOK, SourceOK
<1>9. op = "delim" => /\ bytes = <<>> => ~DelimTaken
                      /\ bytes # <<>> => /\ bytes = <<consumed>> /\ consumed \in Byte
                                         /\ DelimTaken <=> text[consumed] = "lf"
  BY <1>1, ReadOne
<1>0. <<>> \in Seq(TaskType) /\ TRUE \in BOOLEAN /\ FALSE \in BOOLEAN
  OBVIOUS
<1> HIDE DEF bytes, kind, ended, cr
<1>10. CASE ended
  <2>1. Put(outbuf, TRUE, <<>>) /\ UNCHANGED <<source, outbuf, pc, done>>
    BY <1>4, <1>10
  <2>2. SourceOK' /\ UNCHANGED <<text, written, consumed, open, waiting>>
    BY <1>2, <2>1 DEF SourceOK, source
  <2>3. CASE op = "line"
    <3>1. LinePuts(TRUE, <<>>)
      BY <1>1, <1>2, <1>3, <1>5, <2>1, <2>2 DEF LinePuts, ReadOK
    <3> QED
      BY <1>0, <1>5, <2>1, <2>3, <3>1, LinePutStep
  <2>4. CASE op = "delim"
    <3>1. Puts(outbuf, TRUE)
      BY <1>1, <1>2, <1>3, <1>5, <1>6, <2>1, <2>2 DEF Puts, ReadOK
    <3>2. Passed' = Passed
      BY <1>1, <2>2 DEF Passed, DelimTaken, sides
    <3>3. target_open => Len(target) + Len(outbuf) = Passed
      <4>1. CASE bytes = <<>>
        <5>1. Len(bytes) = 0
          BY <4>1
        <5> QED
          BY <1>7, <1>8, <1>9, <2>4, <4>1, <5>1 DEF Passed
      <4>2. CASE bytes # <<>>
        <5>1. bytes = <<consumed>> /\ Len(bytes) = 1 /\ bytes[1] = consumed
          BY <1>9, <2>4, <4>2
        <5>2. DelimTaken
          <6>1. consumed \in 1 .. Len(text)
            <7>1. consumed > 0 /\ consumed <= written /\ written <= Len(text)
              BY <1>2, <1>9, <2>4, <4>2, StreamAssumption DEF SourceOK, Byte
            <7> QED
              BY <1>2, <7>1 DEF SourceOK
          <6>2. text[consumed] # "eof"
            BY <1>2, <6>1 DEF SourceOK, Kind
          <6>3. text[consumed] = "lf"
            BY <1>10, <4>2, <5>1, <6>2 DEF ended, kind
          <6> QED
            BY <1>9, <2>4, <4>2, <6>3
        <5>3. \A a, b, c \in Nat : a + b + 1 = c => a + b = c - 1
          OBVIOUS
        <5>4. target_open => Len(target) + Len(outbuf) + 1 = consumed
          BY <1>7, <2>4, <5>1
        <5> QED
          BY <1>8, <5>2, <5>3, <5>4 DEF Passed
      <4> QED
        BY <4>1, <4>2
    <3>4. target_open => /\ target = Span(0, Len(target)) /\ Len(target) <= Passed'
                         /\ outbuf = Span(Len(target), Passed')
      <4>1. \A a, b \in Nat : a <= a + b
        OBVIOUS
      <4> QED
        BY <1>7, <1>8, <2>4, <3>2, <3>3, <4>1
    <3>5. \A i \in 1 .. consumed' - 1 : text[i] # "lf"
      BY <2>2, <2>4 DEF IInv, Delims
    <3>6. MayPut(outbuf, TRUE)
      BY <1>3, <2>4, <3>4, <3>5 DEF MayPut
    <3> QED
      BY <1>0, <2>1, <2>4, <3>1, <3>6, PutStep
  <2> QED
    BY <1>5, <2>3, <2>4
<1>11. CASE ~ended /\ cr
  <2>1. /\ IF readable /\ Unread > 0 /\ text[consumed + 1] = "lf" THEN Take(1) ELSE UNCHANGED source
        /\ Put(outbuf, TRUE, <<>>) /\ UNCHANGED <<outbuf, pc, done>>
    BY <1>4, <1>11
  <2>2. SourceOK' /\ UNCHANGED <<text, written, open, waiting>>
    <3>1. CASE readable /\ Unread > 0 /\ text[consumed + 1] = "lf"
      <4>1. 1 <= Unread
        BY <1>2, <3>1 DEF SourceOK, Unread
      <4> QED
        BY <1>2, <2>1, <3>1, <4>1, TakeBytes
    <3>2. CASE ~(readable /\ Unread > 0 /\ text[consumed + 1] = "lf")
      BY <1>2, <2>1, <3>2 DEF SourceOK, source
    <3> QED
      BY <3>1, <3>2
  <2>3. LinePuts(TRUE, <<>>)
    BY <1>1, <1>2, <1>3, <1>5, <2>1, <2>2 DEF LinePuts, ReadOK
  <2> QED
    BY <1>0, <1>5, <1>11, <2>1, <2>3, LinePutStep DEF cr
<1>12. CASE ~ended /\ ~cr
  <2>1. /\ outbuf' = outbuf \o bytes /\ done' = FALSE /\ UNCHANGED source
        /\ IF Len(outbuf') = BufSize THEN Put(outbuf', FALSE, <<>>) /\ UNCHANGED pc
           ELSE pc' = "enter" /\ tasks' = <<>>
    BY <1>4, <1>12
  <2>2. bytes # <<>>
    BY <1>12 DEF ended, kind
  <2>3. SourceOK' /\ UNCHANGED <<text, written, consumed, open, waiting>>
    BY <1>2, <2>1 DEF SourceOK, source
  <2>4. PICK b \in Byte : bytes = <<b>>
    <3>1. Len(bytes) = 1 /\ bytes[1] \in Byte
      <4>1. Len(bytes) \in Nat /\ Len(bytes) # 0
        BY <1>5, <2>2, EmptySeq
      <4>2. Len(bytes) <= 1 /\ bytes \in Seq(Byte)
        BY <1>5
      <4>3. \A k \in Nat : k # 0 /\ k <= 1 => k = 1
        OBVIOUS
      <4>4. Len(bytes) = 1
        BY <4>1, <4>2, <4>3
      <4> QED
        BY <4>2, <4>4
    <3>2. bytes = <<bytes[1]>>
      <4> DEFINE one == <<bytes[1]>>
      <4>1. one \in Seq(Byte) /\ Len(one) = 1 /\ one[1] = bytes[1]
        BY <3>1
      <4> HIDE DEF one
      <4>2. bytes = one
        BY <1>5, <3>1, <4>1, SeqEqual
      <4> QED
        BY <4>2 DEF one
    <3> QED
      BY <3>1, <3>2
  <2>5. outbuf' = Append(outbuf, b)
    BY <1>5, <2>1, <2>4, AppendIsConcat
  <2>6. /\ outbuf' \in Seq(Byte) /\ Len(outbuf') <= BufSize
        /\ Len(outbuf') # BufSize => Len(outbuf') < BufSize
    BY <1>2, <1>5, <2>5, Stored
  <2>7. op = "delim" => /\ b = consumed /\ ~DelimTaken /\ ~DelimTaken'
                        /\ Passed = consumed /\ Passed' = consumed
    <3>1. op = "delim" => b = consumed
      BY <1>9, <2>2, <2>4
    <3>2. op = "delim" => text[consumed] # "lf"
      <4>1. op = "delim" => bytes[1] = consumed
        BY <2>4, <3>1
      <4> QED
        BY <1>12, <2>2, <4>1 DEF ended, kind
    <3> QED
      BY <1>1, <2>3, <3>1, <3>2 DEF DelimTaken, Passed, sides
  <2>8. op = "delim" /\ target_open => /\ target = Span(0, Len(target)) /\ Len(target) <= Passed'
                                        /\ outbuf' = Span(Len(target), Passed')
    <3> DEFINE before == Len(target) + Len(outbuf)
    <3>1. Len(bytes) = 1
      BY <2>4
    <3>2. before \in Nat /\ Len(target) <= before /\ Len(target) <= before + 1
      BY <1>8
    <3>3. op = "delim" /\ target_open => before + 1 = consumed /\ outbuf = Span(Len(target), before)
      BY <1>7, <3>1
    <3> HIDE DEF before
    <3>4. Append(Span(Len(target), before), before + 1) = Span(Len(target), before + 1)
      BY <1>8, <3>2, SpanNext
    <3> QED
      BY <1>7, <2>5, <2>7, <3>2, <3>3, <3>4
  <2>9. CASE Len(outbuf') = BufSize
    <3>1. Put(outbuf', FALSE, <<>>) /\ pc' = "idle"
      BY <1>3, <2>1, <2>9
    <3>2. CASE op = "line"
      <4>1. LinePuts(FALSE, <<>>)
        BY <1>1, <1>3, <2>1, <2>3, <2>6, <3>1 DEF LinePuts
      <4> QED
        BY <1>0, <2>6, <3>1, <3>2, <4>1, LinePutStep
    <3>3. CASE op = "delim"
      <4>1. Puts(outbuf', FALSE)
        BY <1>1, <1>3, <1>6, <2>1, <2>3, <2>6, <3>1 DEF Puts
      <4>2. \A i \in 1 .. consumed' - 1 : text[i] # "lf"
        BY <2>3, <3>3 DEF IInv, Delims
      <4>3. MayPut(outbuf', FALSE)
        BY <1>3, <2>7, <2>8, <3>3, <4>2 DEF MayPut
      <4> QED
        BY <1>0, <3>1, <3>3, <4>1, <4>3, PutStep
    <3> QED
      BY <1>5, <3>2, <3>3
  <2>10. CASE Len(outbuf') # BufSize
    <3>1. pc' = "enter" /\ tasks' = <<>> /\ Len(outbuf') < BufSize
      BY <2>1, <2>6, <2>10
    <3>2. TypeOK'
      <4>1. tasks' \in Seq(TaskType) /\ pc' \in {"start", "enter", "loop", "idle", "terminated"} /\ done' \in BOOLEAN
        BY <1>0, <2>1, <3>1
      <4>2. ReadOK'
        BY <1>1, <1>2, <2>3, <2>6, <4>1 DEF ReadOK, sides
      <4> QED
        BY <2>3, <4>2, PartsNext
    <3>3. Stage'
      BY <1>3, <2>1, <2>3, <3>1 DEF Stage, Asking
    <3>4. CASE op = "line"
      BY <1>1, <2>3, <3>2, <3>3, <3>4, LineStep DEF sides
    <3>5. CASE op = "delim"
      <4>1. Delims' /\ Once' /\ EndCounts' /\ Counted'
        BY <1>1, <1>3, <2>3, <2>7, <3>1, <3>5 DEF IInv, Delims, Once, EndCounts, Counted, sides
      <4>2. InPlace'
        BY <1>1, <2>8, <3>1, <3>5 DEF InPlace, sides
      <4> QED
        BY <3>2, <3>3, <4>1, <4>2 DEF IInv
    <3> QED
      BY <1>5, <3>4, <3>5
  <2> QED
    BY <2>9, <2>10
<1> QED
  BY <1>10, <1>11, <1>12

LEMMA OnReadEndStep == ASSUME IInv, OnReadEnd PROVE IInv'
<1> DEFINE bytes == tasks[1].bytes
<1>1. /\ Runs("on_read") /\ op = "end" /\ UNCHANGED <<source, sides, pc, done, total>>
  BY DEF OnReadEnd
<1>2. SourceOK /\ ReadOK
  BY Parts DEF IInv
<1>3. /\ pc = "idle" /\ tasks # <<>> /\ Head(tasks) = tasks[1] /\ tasks[1] \in TaskType
      /\ tasks[1].h = "on_read" /\ Tail(tasks) = <<>> /\ waiting = <<>>
      /\ result = <<>> /\ Answered
  BY <1>1, HeadFacts
<1>4. IF bytes # <<>> THEN outbuf' = bytes /\ Put(bytes, FALSE, <<>>) /\ UNCHANGED result
      ELSE result' = Append(result, total) /\ tasks' = <<>> /\ UNCHANGED outbuf
  BY <1>3 DEF OnReadEnd
<1>5. bytes \in Seq(Byte) /\ Len(bytes) <= BufSize
  BY <1>1, <1>3 DEF TaskType, Answered
<1>6. 1 \in 1 .. Len(tasks)
  BY <1>3 DEF Answered
<1>7. /\ ~open /\ readable => written = Len(text)
      /\ total = Len(target) /\ outbuf = <<>> /\ (bytes = <<>> /\ readable => ~open /\ consumed = written)
  BY <1>1, <1>3, <1>6 DEF IInv, Counted
<1>8. target_open => /\ target = Span(0, Len(target)) /\ outbuf = Span(Len(target), Len(target) + Len(outbuf))
                     /\ Len(target) + Len(outbuf) + Len(bytes) = consumed
                     /\ bytes = Span(Len(target) + Len(outbuf), consumed)
  BY <1>1, <1>3 DEF IInv, InPlace
<1> HIDE DEF bytes
<1>9. Len(target) \in Nat /\ Len(outbuf) = 0 /\ Len(bytes) \in Nat /\ consumed \in Nat
  BY <1>2, <1>5, <1>7 DEF ReadOK, SourceOK
<1>10. target_open => Len(target) + Len(bytes) = consumed /\ bytes = Span(Len(target), consumed)
  <2>1. Len(target) + Len(outbuf) = Len(target)
    BY <1>9
  <2> QED
    BY <1>8, <2>1
<1>11. SourceOK' /\ UNCHANGED <<text, written, consumed, open, waiting>>
  BY <1>1, <1>2 DEF SourceOK, source
<1>12. ~DelimTaken /\ ~DelimTaken' /\ Passed = consumed /\ Passed' = consumed
  BY <1>1, <1>11 DEF DelimTaken, Passed, sides
<1>13. CASE bytes # <<>>
  <2>1. outbuf' = bytes /\ Put(bytes, FALSE, <<>>) /\ UNCHANGED result
    BY <1>4, <1>13
  <2>2. Puts(bytes, FALSE)
    BY <1>1, <1>2, <1>3, <1>5, <1>7, <1>11, <2>1 DEF Puts, ReadOK
  <2>3. \A a, b \in Nat : a <= a + b
    OBVIOUS
  <2>4. target_open => Len(target) <= consumed
    BY <1>9, <1>10, <2>3
  <2>5. MayPut(bytes, FALSE)
    BY <1>1, <1>3, <1>7, <1>8, <1>10, <1>12, <1>13, <2>4 DEF MayPut
  <2> QED
    BY <1>1, <2>1, <2>2, <2>5, PutStep
<1>14. CASE bytes = <<>>
  <2>1. result' = <<total>> /\ tasks' = <<>> /\ UNCHANGED outbuf /\ total \in Nat
    BY <1>2, <1>3, <1>4, <1>14 DEF ReadOK
  <2>2. TypeOK'
    <3>1. tasks' \in Seq(TaskType) /\ result' \in Seq(Nat)
      BY <2>1
    <3>2. ReadOK'
      BY <1>1, <1>2, <1>11, <2>1, <3>1 DEF ReadOK, sides
    <3> QED
      BY <1>11, <3>2, PartsNext
  <2>3. Stage'
    BY <1>1, <1>3, <1>11, <2>1 DEF Stage, Ends, sides
  <2>4. Delims' /\ Once'
    BY <1>1, <1>3, <1>11, <1>12, <2>1 DEF Delims, Once, sides
  <2>5. target_open => Len(target) = consumed
    <3>1. Len(bytes) = 0
      BY <1>14
    <3> QED
      BY <1>9, <1>10, <3>1
  <2>6. InPlace'
    <3>1. target_open => outbuf = Span(Len(target), consumed)
      BY <1>7, <1>9, <2>5, SpanEmpty
    <3> QED
      BY <1>1, <1>8, <1>9, <1>12, <2>1, <2>5, <3>1 DEF InPlace, sides
  <2>7. Counted'
    BY <1>1, <1>7, <1>11, <2>1 DEF Counted, sides
  <2>8. EndCounts'
    <3>1. target_open /\ readable => target = Span(0, Len(text))
      BY <1>7, <1>8, <1>14, <2>5
    <3> QED
      BY <1>1, <1>7, <1>11, <1>14, <2>1, <3>1 DEF EndCounts, sides
  <2> QED
    BY <2>2, <2>3, <2>4, <2>6, <2>7, <2>8 DEF IInv
<1> QED
  BY <1>13, <1>14

LEMMA TargetWritesStep == ASSUME IInv, TargetWrites PROVE IInv'
<1> DEFINE t == tasks[1]
           n == IF target_open THEN Len(t.bytes) ELSE 0
           u == OnWrite(n, t.done)
           rest == Tail(tasks)
<1>1. /\ Runs("put") /\ UNCHANGED <<source, readable, op, base_target, target_open, pc, done, outbuf, total, result>>
      /\ target' = IF target_open THEN target \o Head(tasks).bytes ELSE target
      /\ tasks' = Append(Tail(tasks), OnWrite(IF target_open THEN Len(Head(tasks).bytes) ELSE 0,
                                              Head(tasks).done))
  BY DEF TargetWrites
<1>2. SourceOK /\ ReadOK
  BY Parts DEF IInv
<1>3. /\ pc = "idle" /\ tasks # <<>> /\ Head(tasks) = t /\ t \in TaskType /\ t.h = "put"
      /\ rest \in Seq(TaskType) /\ waiting = <<>> /\ (op # "line" => rest = <<>> /\ result = <<>>)
      /\ \/ EndingTasks(tasks) /\ EndingTasks(rest)
         \/ rest = <<>> /\ (op = "line" => ~t.done)
  BY <1>1, HeadFacts
<1>4. t.bytes \in Seq(Byte) /\ t.done \in BOOLEAN /\ Len(t.bytes) \in Nat
  BY <1>3 DEF TaskType
<1>5. n \in Nat
  BY <1>4
<1>6. u \in TaskType /\ u.h = "on_write" /\ u.n = n /\ u.done = t.done
  BY <1>4, <1>5 DEF OnWrite, TaskType
<1>7. tasks' = Append(rest, u) /\ target' = IF target_open THEN target \o t.bytes ELSE target
  BY <1>1, <1>3
<1>8. Len(tasks) \in Nat /\ 1 \in 1 .. Len(tasks)
  BY <1>2, <1>3 DEF ReadOK
<1>9. SourceOK' /\ UNCHANGED <<text, written, consumed, open, waiting>>
  BY <1>1, <1>2 DEF SourceOK, source
<1>10. tasks' \in Seq(TaskType) /\ target' \in Seq(Byte)
  BY <1>2, <1>3, <1>4, <1>6, <1>7 DEF ReadOK
<1> HIDE DEF u, rest
<1>11. EndingTasks(tasks) => t.done
  BY <1>8 DEF EndingTasks
<1>12. TypeOK'
  <2>1. ReadOK'
    BY <1>1, <1>2, <1>9, <1>10 DEF ReadOK
  <2> QED
    BY <1>9, <2>1, PartsNext
<1>13. target_open => Len(target') = Len(target) + n /\ Len(target) \in Nat
  BY <1>2, <1>4, <1>7 DEF ReadOK
<1>14. CASE op = "line"
  <2>1. CASE EndingTasks(rest) /\ t.done
    <3>1. \A i \in 1 .. Len(tasks') : tasks'[i] = u \/ (i \in 1 .. Len(rest) /\ tasks'[i] = rest[i])
      BY <1>3, <1>6, <1>7
    <3>2. Ending'
      BY <1>6, <2>1, <3>1 DEF Ending, EndingTasks
    <3>3. Stage'
      BY <1>1, <1>3, <1>9, <1>14, <3>2 DEF Stage, Ends
    <3> QED
      BY <1>1, <1>9, <1>12, <1>14, <3>3, LineStep
  <2>2. CASE rest = <<>> /\ ~t.done
    <3>1. Len(tasks') = 1 /\ tasks'[1] = u
      BY <1>7, <2>2
    <3>2. Stage'
      BY <1>1, <1>3, <1>6, <1>9, <1>14, <2>2, <3>1 DEF Stage, Writing
    <3> QED
      BY <1>1, <1>9, <1>12, <1>14, <3>2, LineStep
  <2> QED
    BY <1>3, <1>11, <1>14, <2>1, <2>2
<1>15. CASE op # "line"
  <2>1. rest = <<>> /\ result = <<>>
    BY <1>3, <1>15
  <2>2. Len(tasks') = 1 /\ tasks'[1] = u /\ tasks' # <<>>
    BY <1>7, <2>1
  <2>3. Stage'
    BY <1>1, <1>3, <1>6, <1>9, <1>15, <2>2 DEF Stage, Writing
  <2>4. Passed' = Passed /\ (DelimTaken' <=> DelimTaken)
    BY <1>1, <1>9 DEF Passed, DelimTaken
  <2>5. Delims'
    <3>1. op' = op /\ text' = text /\ consumed' = consumed /\ pc' = "idle" /\ waiting' = <<>>
      BY <1>1, <1>3, <1>9
    <3>2. DelimTaken => t.done
      BY <1>3 DEF IInv, Delims
    <3>3. op = "delim" => \A i \in 1 .. consumed - 1 : text[i] # "lf"
      BY DEF IInv, Delims
    <3> QED
      BY <1>6, <2>2, <2>4, <3>1, <3>2, <3>3 DEF Delims
  <2>6. Once' /\ EndCounts'
    BY <1>1, <2>1 DEF Once, EndCounts
  <2>7. InPlace'
    <3> SUFFICES ASSUME target_open
                 PROVE  target' = Span(0, Len(target')) /\ Len(target') = Passed /\ n = Len(outbuf)
      BY <1>1, <1>6, <2>2, <2>4 DEF InPlace
    <3>1. /\ target = Span(0, Len(target)) /\ outbuf = Span(Len(target), Passed) /\ Len(target) <= Passed
          /\ t.bytes = outbuf
      BY <1>3, <1>15 DEF IInv, InPlace
    <3>2. Passed \in Nat
      <4>1. \A c \in Nat : c > 0 => c - 1 \in Nat
        OBVIOUS
      <4>2. consumed \in Nat /\ (DelimTaken => consumed > 0)
        BY <1>2 DEF SourceOK, DelimTaken
      <4> QED
        BY <4>1, <4>2 DEF Passed
    <3>3. target' = Span(0, Passed)
      BY <1>7, <1>13, <3>1, <3>2, SpanConcat
    <3>4. Len(Span(0, Passed)) = Passed
      BY <3>2, SpanIs
    <3> QED
      BY <3>1, <3>3, <3>4
  <2>8. Counted'
    <3>1. op = "end" => total = Len(target) /\ t.bytes # <<>>
      BY <1>3, <1>8 DEF IInv, Counted
    <3>2. t.bytes # <<>> => Len(t.bytes) # 0
      BY <1>4, EmptySeq
    <3>3. op = "end" => total + n = Len(target') /\ (target_open => n # 0)
      <4>1. total \in Nat
        BY <1>2 DEF ReadOK
      <4>2. CASE target_open
        BY <1>4, <1>13, <3>1, <3>2, <4>1, <4>2
      <4>3. CASE ~target_open
        <5>1. n = 0 /\ target' = target
          BY <1>7, <4>3
        <5> QED
          BY <3>1, <4>1, <4>3, <5>1
      <4> QED
        BY <4>2, <4>3
    <3>4. \A i \in 1 .. Len(tasks') : tasks'[i] = u
      BY <2>2
    <3>5. ~open /\ readable => written = Len(text)
      BY DEF IInv, Counted
    <3> HIDE DEF n
    <3> QED
      BY <1>1, <1>6, <1>9, <2>2, <3>3, <3>4, <3>5 DEF Counted
  <2> QED
    BY <1>12, <2>3, <2>5, <2>6, <2>7, <2>8 DEF IInv
<1> QED
  BY <1>14, <1>15

LEMMA PassedIsNat == ASSUME SourceOK PROVE Passed \in Nat
<1>1. \A c \in Nat : c > 0 => c - 1 \in Nat
  OBVIOUS
<1>2. consumed \in Nat /\ (DelimTaken => consumed > 0)
  BY DEF SourceOK, DelimTaken
<1> QED
  BY <1>1, <1>2 DEF Passed

LEMMA OnWriteThrowsStep == ASSUME IInv, OnWriteThrows PROVE IInv'
<1>1. /\ Runs("on_write") /\ pc' = "terminated"
      /\ UNCHANGED <<source, sides, tasks, done, outbuf, total, result>>
  BY DEF OnWriteThrows
<1>2. TypeOK'
  BY <1>1, Parts, PartsNext DEF IInv, SourceOK, ReadOK, source, sides
<1>3. op # "line" => result = <<>>
  BY <1>1, HeadFacts
<1> QED
  BY <1>1, <1>2, <1>3 DEF IInv, Stage, Delims, DelimTaken,
     Once, InPlace, Passed, Counted, EndCounts, source, sides

LEMMA OnWriteByteStep == ASSUME IInv, OnWriteByte PROVE IInv'
<1> DEFINE t == tasks[1]
           rest == Tail(tasks)
<1>1. Runs("on_write") /\ op # "end" /\ UNCHANGED <<source, sides>>
  BY DEF OnWriteByte
<1>2. SourceOK /\ ReadOK
  BY Parts DEF IInv
<1>3. /\ pc = "idle" /\ tasks # <<>> /\ Head(tasks) = t /\ t \in TaskType /\ t.h = "on_write"
      /\ rest \in Seq(TaskType) /\ waiting = <<>> /\ (op # "line" => rest = <<>> /\ result = <<>>)
      /\ \/ EndingTasks(tasks) /\ EndingTasks(rest)
         \/ rest = <<>> /\ (op = "line" => ~t.done)
  BY <1>1, HeadFacts
<1>4. tasks' = rest /\ IF t.n = 0
                       THEN result' = Append(result, total) /\ UNCHANGED <<pc, done, outbuf, total>>
                       ELSE /\ total' = total + t.n /\ outbuf' = <<>>
                            /\ IF t.done THEN result' = Append(result, t.n) /\ UNCHANGED <<pc, done>>
                               ELSE pc' = "enter" /\ done' = FALSE /\ UNCHANGED result
  BY <1>3 DEF OnWriteByte, Written
<1>5. t.n \in Nat /\ t.done \in BOOLEAN /\ total \in Nat /\ op \in {"delim", "line"}
  BY <1>1, <1>2, <1>3 DEF TaskType, ReadOK
<1>6. Len(tasks) \in Nat /\ 1 \in 1 .. Len(tasks)
  BY <1>2, <1>3 DEF ReadOK
<1>7. EndingTasks(tasks) => t.done
  BY <1>6 DEF EndingTasks
<1>8. SourceOK' /\ UNCHANGED <<text, written, consumed, open, waiting>>
  BY <1>1, <1>2 DEF SourceOK, source
<1>9. /\ op = "delim" /\ target_open => target = Span(0, Len(target)) /\ Len(target) = Passed /\ t.n = Len(outbuf)
      /\ op = "delim" => (DelimTaken => t.done)
  BY <1>3 DEF IInv, InPlace, Delims
<1> HIDE DEF t, rest
<1>10. /\ <<>> \in Seq(Byte) /\ Len(<<>>) = 0 /\ BufSize \in Nat /\ 0 < BufSize /\ 0 <= BufSize
  BY StreamAssumption
<1>11. result' \in Seq(Nat) /\ total' \in Nat
  <2>1. result \in Seq(Nat) /\ total + t.n \in Nat
    BY <1>2, <1>5 DEF ReadOK
  <2>2. Append(result, total) \in Seq(Nat) /\ Append(result, t.n) \in Seq(Nat)
    BY <1>5, <2>1
  <2>3. result' \in {result, Append(result, total), Append(result, t.n)} /\ total' \in {total, total + t.n}
    BY <1>4
  <2> QED
    BY <1>5, <2>1, <2>2, <2>3
<1>12. outbuf' \in Seq(Byte) /\ Len(outbuf') <= BufSize
  BY <1>2, <1>4, <1>10 DEF ReadOK
<1>13. TypeOK'
  <2>1. pc' \in {"start", "enter", "loop", "idle", "terminated"} /\ done' \in BOOLEAN
    BY <1>2, <1>4 DEF ReadOK
  <2>2. tasks' \in Seq(TaskType)
    BY <1>3, <1>4
  <2>3. ReadOK'
    BY <1>1, <1>2, <1>8, <1>11, <1>12, <2>1, <2>2 DEF ReadOK, sides
  <2> QED
    BY <1>8, <2>3, PartsNext
<1>14. rest = <<>> \/ (op = "line" /\ EndingTasks(rest) /\ t.done)
  BY <1>3, <1>7
<1>15. Stage'
  <2>1. CASE t.n # 0 /\ ~t.done
    <3>1. pc' = "enter" /\ done' = FALSE /\ outbuf' = <<>> /\ tasks' = <<>> /\ waiting' = <<>>
      BY <1>3, <1>4, <1>8, <1>14, <2>1
    <3> QED
      BY <1>10, <3>1 DEF Stage, Asking
  <2>2. CASE ~(t.n # 0 /\ ~t.done)
    <3>1. pc' = "idle" /\ waiting' = <<>> /\ op' = op
      BY <1>1, <1>3, <1>4, <1>8, <2>2 DEF sides
    <3>2. EndingTasks(rest)
      BY <1>14 DEF EndingTasks
    <3> QED
      BY <1>4, <1>14, <3>1, <3>2 DEF Stage, Ends, Ending, EndingTasks
  <2> QED
    BY <2>1, <2>2
<1>16. CASE op = "line"
  BY <1>1, <1>8, <1>13, <1>15, <1>16, LineStep DEF sides
<1>17. CASE op = "delim"
  <2>1. tasks' = <<>> /\ result = <<>>
    BY <1>3, <1>4, <1>14, <1>17
  <2>2. Passed' = Passed /\ (DelimTaken' <=> DelimTaken)
    BY <1>1, <1>8 DEF Passed, DelimTaken, sides
  <2>3. pc' = "idle" \/ (pc' = "enter" /\ ~t.done)
    BY <1>3, <1>4
  <2>4. Delims'
    <3>1. op' = op /\ text' = text /\ consumed' = consumed /\ waiting' = <<>>
      BY <1>1, <1>3, <1>8 DEF sides
    <3>2. DelimTaken => pc' = "idle"
      BY <1>9, <1>17, <2>3
    <3>3. \A i \in 1 .. consumed - 1 : text[i] # "lf"
      BY <1>17 DEF IInv, Delims
    <3> QED
      BY <2>1, <2>2, <3>1, <3>2, <3>3 DEF Delims
  <2>5. Once'
    <3>1. result' = <<>> \/ (\E n \in Nat : result' = <<n>> /\ pc' = "idle")
      BY <1>3, <1>4, <1>5, <2>1
    <3> QED
      BY <1>3, <1>8, <2>1, <3>1 DEF Once
  <2>6. InPlace'
    <3> SUFFICES ASSUME target_open
                 PROVE  target = Span(0, Len(target)) /\ outbuf' = Span(Len(target), Passed) /\ Len(target) <= Passed
      BY <1>1, <2>1, <2>2 DEF InPlace, sides
    <3>1. target = Span(0, Len(target)) /\ Len(target) = Passed /\ t.n = Len(outbuf) /\ Passed \in Nat
      BY <1>2, <1>9, <1>17, PassedIsNat
    <3>2. outbuf' = <<>>
      <4>1. outbuf \in Seq(Byte)
        BY <1>2 DEF ReadOK
      <4>2. t.n = 0 => outbuf = <<>>
        BY <3>1, <4>1, EmptySeq
      <4> QED
        BY <1>4, <4>2
    <3>3. Passed <= Passed /\ Span(Passed, Passed) = <<>>
      BY <3>1, SpanEmpty
    <3> QED
      BY <3>1, <3>2, <3>3
  <2>7. Counted' /\ EndCounts'
    BY <1>1, <1>8, <1>17 DEF IInv, Counted, EndCounts, sides
  <2> QED
    BY <1>13, <1>15, <2>4, <2>5, <2>6, <2>7 DEF IInv
<1> QED
  BY <1>5, <1>16, <1>17

LEMMA OnWriteEndStep == ASSUME IInv, OnWriteEnd PROVE IInv'
<1> DEFINE t == tasks[1]
<1>1. Runs("on_write") /\ op = "end" /\ UNCHANGED <<sides, pc, done>>
  BY DEF OnWriteEnd
<1>2. SourceOK /\ ReadOK
  BY Parts DEF IInv
<1>3. /\ pc = "idle" /\ tasks # <<>> /\ Head(tasks) = t /\ t \in TaskType /\ t.h = "on_write"
      /\ Tail(tasks) = <<>> /\ waiting = <<>> /\ result = <<>>
  BY <1>1, HeadFacts
<1>4. IF t.n = 0
      THEN result' = Append(result, total) /\ tasks' = <<>> /\ UNCHANGED <<source, outbuf, total>>
      ELSE total' = total + t.n /\ outbuf' = <<>> /\ Request(BufSize, <<>>) /\ UNCHANGED result
  BY <1>3 DEF OnWriteEnd, Written, ReadMore
<1>5. t.n \in Nat /\ total \in Nat
  BY <1>2, <1>3 DEF TaskType, ReadOK
<1>6. Len(tasks) \in Nat /\ 1 \in 1 .. Len(tasks)
  BY <1>2, <1>3 DEF ReadOK
<1>7. /\ ~open /\ readable => written = Len(text)
      /\ total + t.n = Len(target) /\ (target_open => t.n # 0)
  BY <1>1, <1>3, <1>6 DEF IInv, Counted
<1>8. target_open => target = Span(0, Len(target)) /\ Len(target) = Passed
  BY <1>1, <1>3 DEF IInv, InPlace
<1>9. ~DelimTaken /\ Passed = consumed /\ consumed \in Nat
  BY <1>1, <1>2 DEF DelimTaken, Passed, SourceOK
<1> HIDE DEF t
<1>10. CASE t.n = 0
  <2>1. /\ result' = <<total>> /\ tasks' = <<>> /\ UNCHANGED <<source, outbuf, total>>
        /\ ~target_open /\ total = Len(target)
    BY <1>3, <1>4, <1>5, <1>7, <1>10
  <2>2. SourceOK' /\ UNCHANGED <<text, written, consumed, open, waiting>>
    BY <1>2, <2>1 DEF SourceOK, source
  <2>3. TypeOK'
    <3>1. tasks' \in Seq(TaskType) /\ result' \in Seq(Nat)
      BY <1>5, <2>1
    <3>2. ReadOK'
      BY <1>1, <1>2, <2>1, <2>2, <3>1 DEF ReadOK, sides
    <3> QED
      BY <2>2, <3>2, PartsNext
  <2>4. Stage'
    BY <1>1, <1>3, <2>1, <2>2 DEF Stage, Ends, sides
  <2>5. Delims' /\ Once' /\ InPlace' /\ Counted' /\ EndCounts'
    BY <1>1, <1>3, <1>7, <2>1, <2>2 DEF Delims, DelimTaken, Once, InPlace, Counted, EndCounts, sides
  <2> QED
    BY <2>3, <2>4, <2>5 DEF IInv
<1>11. CASE t.n # 0
  <2>1. total' = total + t.n /\ outbuf' = <<>> /\ Request(BufSize, <<>>) /\ UNCHANGED result
    BY <1>4, <1>11
  <2>2. BufSize \in Nat \ {0} /\ Request1 = BufSize
    BY <1>1, StreamAssumption DEF Request1
  <2>3. Answers(BufSize) \/ Waits(BufSize)
    BY <1>2, <1>3, <2>1, <2>2, RequestFacts
  <2>4. LastStep
    <3>1. outbuf' \in Seq(Byte) /\ Len(outbuf') < BufSize
      BY <2>1, <2>2
    <3>2. total' \in Nat
      BY <1>5, <2>1
    <3> QED
      BY <1>1, <1>2, <1>3, <2>1, <3>1, <3>2 DEF LastStep, ReadOK
  <2>5. MayAsk
    <3>1. target_open => Len(target) <= consumed /\ outbuf' = Span(Len(target), consumed)
      BY <1>8, <1>9, <2>1, SpanEmpty
    <3> QED
      BY <1>1, <1>3, <1>7, <1>8, <2>1, <3>1 DEF MayAsk
  <2> QED
    BY <2>2, <2>3, <2>4, <2>5, AskedStep
<1> QED
  BY <1>10, <1>11

-----------------------------------------------------------------------------
(* What the invariant means *)

LEMMA InitInvariant == Init => IInv
<1> SUFFICES ASSUME Init PROVE IInv
  OBVIOUS
<1>1. /\ text \in Texts /\ written = 0 /\ consumed = 0 /\ flushed = 0 /\ open = TRUE /\ waiting = <<>>
      /\ op \in {"delim", "line", "end"} /\ base_target \in BOOLEAN
      /\ readable = TRUE /\ target = <<>> /\ target_open = TRUE
      /\ tasks = <<>> /\ pc = "start" /\ done = FALSE /\ outbuf = <<>> /\ total = 0 /\ result = <<>>
  BY DEF Init, Source!Init
<1>2. PICK n \in 0 .. MaxText : text \in [1 .. n -> Kind]
  BY <1>1 DEF Texts
<1>3. text \in Seq(Kind) /\ Len(text) = n /\ n \in Nat /\ n <= MaxText
  BY <1>2, StreamAssumption
<1>4. SourceOK
  BY <1>1, <1>3 DEF SourceOK
<1>5. BufSize \in Nat /\ 0 < BufSize
  BY StreamAssumption
<1>6. ReadOK
  <2>1. <<>> \in Seq(TaskType) /\ <<>> \in Seq(Byte) /\ <<>> \in Seq(Nat) /\ <<>> \in Seq({1, BufSize})
        /\ Len(<<>>) = 0 /\ 0 \in Nat
    OBVIOUS
  <2>2. Len(outbuf) <= BufSize
    BY <1>1, <1>5, <2>1
  <2> QED
    BY <1>1, <2>1, <2>2 DEF ReadOK
<1>7. Stage
  BY <1>1, <1>5 DEF Stage, Asking
<1>8. ~DelimTaken /\ Passed = 0
  BY <1>1 DEF DelimTaken, Passed
<1>9. Delims /\ Once /\ Counted /\ EndCounts
  BY <1>1, <1>8 DEF Delims, Once, Counted, EndCounts
<1>10. InPlace
  BY <1>1, <1>8, SpanEmpty DEF InPlace
<1> QED
  BY <1>4, <1>6, <1>7, <1>9, <1>10, Parts DEF IInv

LEMMA StutterStep == ASSUME IInv, UNCHANGED vars PROVE IInv'
<1>1. UNCHANGED <<text, written, consumed, flushed, open, waiting, sides, read>>
  BY DEF vars, source
<1>2. TypeOK'
  <2>1. SourceOK /\ ReadOK
    BY Parts DEF IInv
  <2>2. SourceOK'
    BY <1>1, <2>1 DEF SourceOK
  <2> QED
    BY <1>1, <2>1, <2>2, PartsNext DEF ReadOK, sides, read
<1>3. Stage'
  BY <1>1 DEF IInv, Stage, Asking, Ending, Awaiting, Answered, Writing, Ends, sides, read
<1>4. Delims' /\ Once'
  BY <1>1 DEF IInv, Delims, DelimTaken, Once, sides, read
<1>5. InPlace'
  BY <1>1 DEF IInv, InPlace, DelimTaken, Passed, sides, read
<1>6. Counted' /\ EndCounts'
  BY <1>1 DEF IInv, Counted, EndCounts, sides, read
<1> QED
  BY <1>2, <1>3, <1>4, <1>5, <1>6 DEF IInv

LEMMA Invariance == Spec => []IInv
<1>1. ASSUME IInv, [Next]_vars PROVE IInv'
  BY <1>1, WriteStep, FlushStep, CloseStep, CloseSourceStep, CloseTargetStep, AnswerStep, CallStep, EnterStep, EnterEndStep,
     LoopDrainedStep, LoopEofStep, LoopDelimStep, LoopCrStep, LoopByteStep, OnReadByteStep, OnReadEndStep,
     TargetWritesStep, OnWriteThrowsStep, OnWriteByteStep, OnWriteEndStep, StutterStep DEF Next, Reader
<1> QED
  BY <1>1, InitInvariant, PTL DEF Spec

\* Every variable of a read keeps its kind of value, and outbuf of the helper (async_streams.h:
\* 827) is never overrun, for a buffer of any size.
THEOREM TypeCorrect == Spec => []TypeOK
<1>1. IInv => TypeOK
  BY DEF IInv
<1> QED
  BY <1>1, Invariance, PTL

LEMMA SpanFromZero ==
  ASSUME NEW n \in Nat
  PROVE  Span(0, n) \in Seq(Nat) /\ Len(Span(0, n)) = n /\ \A i \in 1 .. n : Span(0, n)[i] = i
<1>1. 0 \in Nat /\ 0 <= n /\ n - 0 = n
  OBVIOUS
<1>2. /\ Span(0, n) \in Seq(Nat) /\ Len(Span(0, n)) = n
      /\ \A i \in 1 .. n : Span(0, n)[i] = 0 + i
  BY <1>1, SpanIs
<1> QED
  BY <1>2

\* The delimiter is not data, and what was passed is what was taken but the delimiter.
LEMMA DataPassed == ASSUME SourceOK, op # "line" PROVE Data(Span(0, consumed)) = Span(0, Passed)
<1> DEFINE s == Span(0, consumed)
<1>1. consumed \in Nat /\ 0 <= consumed
  BY DEF SourceOK
<1>2. s \in Seq(Nat) /\ Len(s) = consumed /\ \A i \in 1 .. consumed : s[i] = i
  BY <1>1, SpanFromZero
<1>3. op = "delim" /\ s # <<>> /\ text[s[Len(s)]] = "lf" <=> DelimTaken
  <2>1. s # <<>> <=> consumed > 0
    BY <1>1, <1>2, EmptySeq
  <2>2. consumed > 0 => s[Len(s)] = consumed
    BY <1>1, <1>2
  <2> HIDE DEF s
  <2> QED
    BY <2>1, <2>2 DEF DelimTaken
<1>4. CASE ~DelimTaken
  <2> HIDE DEF s
  <2>1. Data(s) = s /\ Passed = consumed
    BY <1>3, <1>4 DEF Data, Passed
  <2> QED
    BY <2>1 DEF s
<1>5. CASE DelimTaken
  <2>1. Passed = consumed - 1 /\ Passed \in Nat /\ Passed = consumed - 1
    BY <1>1, <1>5 DEF Passed, DelimTaken
  <2> HIDE DEF s
  <2>2. Data(s) = [i \in 1 .. Passed |-> s[i]]
    BY <1>2, <1>3, <1>5, <2>1 DEF Data
  <2>3. \A i \in 1 .. Passed : i \in 1 .. consumed /\ s[i] = i
    BY <1>1, <1>2, <2>1
  <2>4. Data(s) = [i \in 1 .. Passed |-> i]
    BY <2>2, <2>3
  <2>5. Span(0, Passed) = [i \in 1 .. Passed |-> i]
    <3>1. Passed - 0 = Passed /\ \A i \in 1 .. Passed : 0 + i = i
      BY <2>1
    <3> QED
      BY <3>1 DEF Span
  <2> QED
    BY <2>4, <2>5 DEF s
<1> QED
  BY <1>4, <1>5

\* What one read brought, without the delimiter: it follows what is in outbuf.
LEMMA ReadData ==
  ASSUME IInv, op # "line", tasks # <<>>, tasks[1].h = "on_read", NEW m \in Nat, m <= consumed,
         tasks[1].bytes = Span(m, consumed)
  PROVE  m <= Passed /\ Data(tasks[1].bytes) = Span(m, Passed)
<1> DEFINE b == tasks[1].bytes
<1>1. SourceOK /\ consumed \in Nat
  BY Parts DEF IInv, SourceOK
<1>2. b \in Seq(Nat) /\ Len(b) = consumed - m /\ \A i \in 1 .. consumed - m : b[i] = m + i
  BY <1>1, SpanIs
<1>3. CASE op = "end"
  BY <1>1, <1>3 DEF Data, Passed, DelimTaken
<1>4. CASE op = "delim" /\ b = <<>>
  <2>1. m = consumed
    BY <1>1, <1>2, <1>4
  <2>2. ~DelimTaken
    BY <1>4 DEF IInv, Delims
  <2> QED
    BY <1>1, <1>4, <2>1, <2>2 DEF Data, Passed
<1>5. CASE op = "delim" /\ b # <<>>
  <2>1. b = <<consumed>>
    BY <1>5 DEF IInv, Delims
  <2>2. Len(b) = 1 /\ b[Len(b)] = consumed
    BY <2>1
  <2>3. m + 1 = consumed /\ consumed > 0
    <3>1. 1 = consumed - m
      BY <1>2, <2>2
    <3> QED
      BY <1>1, <3>1
  <2> HIDE DEF b
  <2>4. CASE text[consumed] = "lf"
    <3>1. Passed = m
      BY <1>1, <1>5, <2>3, <2>4 DEF Passed, DelimTaken
    <3>2. Data(b) = [i \in 1 .. 0 |-> b[i]]
      BY <1>5, <2>2, <2>4 DEF Data
    <3>3. Data(b) = <<>>
      BY <3>2
    <3> QED
      BY <3>1, <3>3, SpanEmpty DEF b
  <2>5. CASE text[consumed] # "lf"
    <3>1. Passed = consumed /\ Data(b) = b
      BY <1>5, <2>2, <2>5 DEF Passed, DelimTaken, Data
    <3> QED
      BY <3>1 DEF b
  <2> QED
    BY <2>4, <2>5
<1> QED
  BY <1>3, <1>4, <1>5 DEF IInv, TypeOK

LEMMA InOrder == IInv => BytesInOrder
<1> SUFFICES ASSUME IInv, op # "line", target_open
             PROVE  target \o Moving = Span(0, Passed)
  BY Parts, DataPassed DEF BytesInOrder, IInv
<1> DEFINE k == Len(target)
           t == tasks[1]
<1>1. SourceOK /\ ReadOK /\ consumed \in Nat /\ Passed \in Nat
  BY Parts, PassedIsNat DEF IInv, SourceOK
<1>2. target = Span(0, k) /\ k \in Nat
  BY <1>1 DEF IInv, InPlace, ReadOK
<1>3. CASE tasks = <<>>
  <2>1. outbuf = Span(k, Passed) /\ k <= Passed /\ Moving = outbuf
    BY <1>3 DEF IInv, InPlace, Moving
  <2> HIDE DEF k
  <2> QED
    BY <1>1, <1>2, <2>1, SpanConcat
<1>4. CASE tasks # <<>>
  <2>1. Head(tasks) = t /\ t \in TaskType
    BY <1>1, <1>4 DEF ReadOK
  <2>2. CASE t.h = "put"
    <3>1. Moving = t.bytes
      BY <1>4, <2>1, <2>2 DEF Moving
    <3>2. t.bytes = Span(k, Passed) /\ k <= Passed
      BY <1>4, <2>2 DEF IInv, InPlace
    <3> HIDE DEF k, t
    <3> QED
      BY <1>1, <1>2, <3>1, <3>2, SpanConcat
  <2>3. CASE t.h = "on_write"
    <3>1. Moving = <<>>
      BY <1>4, <2>1, <2>3 DEF Moving
    <3>2. k = Passed
      BY <1>4, <2>3 DEF IInv, InPlace
    <3>3. target \in Seq(Byte)
      BY <1>1 DEF ReadOK
    <3>4. target \o <<>> = target
      BY <3>3
    <3> HIDE DEF k
    <3> QED
      BY <1>2, <3>1, <3>2, <3>4
  <2>4. CASE t.h = "on_read"
    <3> DEFINE m == k + Len(outbuf)
    <3>1. Moving = outbuf \o Data(t.bytes)
      BY <1>4, <2>1, <2>4 DEF Moving
    <3>2. outbuf = Span(k, m) /\ m + Len(t.bytes) = consumed /\ t.bytes = Span(m, consumed)
      BY <1>4, <2>4 DEF IInv, InPlace
    <3>3. m \in Nat /\ k <= m /\ m <= consumed
      <4>1. Len(outbuf) \in Nat /\ Len(t.bytes) \in Nat
        BY <1>1, <2>1 DEF ReadOK, TaskType
      <4> QED
        BY <1>1, <1>2, <3>2, <4>1
    <3> HIDE DEF m, k
    <3>4. m <= Passed /\ Data(t.bytes) = Span(m, Passed)
      BY <1>4, <2>4, <3>2, <3>3, ReadData
    <3>5. Span(k, m) \o Span(m, Passed) = Span(k, Passed) /\ k <= Passed
      <4> DEFINE p == Passed
      <4>1. k \in Nat /\ m \in Nat /\ p \in Nat /\ k <= m /\ m <= p
        BY <1>1, <1>2, <3>3, <3>4
      <4> HIDE DEF p
      <4>2. k <= p
        BY <4>1
      <4>3. Span(k, m) \o Span(m, p) = Span(k, p)
        BY <4>1, SpanJoin
      <4> QED
        BY <4>2, <4>3 DEF p
    <3>6. Span(0, k) \o Span(k, Passed) = Span(0, Passed)
      BY <1>1, <1>2, <3>5, SpanConcat
    <3> HIDE DEF t
    <3> QED
      BY <1>2, <3>1, <3>2, <3>4, <3>5, <3>6
  <2> QED
    BY <2>1, <2>2, <2>3, <2>4 DEF TaskType
<1> QED
  BY <1>3, <1>4

\* read_to_delim() (async_streams.h:913) and read_to_end() (async_streams.h:1152) write to the
\* target the bytes of the source, in order, but the delimiter, whatever pieces they come in.
THEOREM BytesInOrderCorrect == Spec => []BytesInOrder
  BY Invariance, InOrder, PTL

\* read_to_delim() leaves in the source what is behind the delimiter (async_streams.h:932), and
\* the user's handler is called once.
THEOREM StopsAtDelimCorrect == Spec => []StopsAtDelim
<1>1. IInv => StopsAtDelim
  <2> SUFFICES ASSUME IInv PROVE StopsAtDelim
    OBVIOUS
  <2>1. op # "line" => Len(result) <= 1
    <3>1. result = <<>> => Len(result) <= 1
      OBVIOUS
    <3> QED
      BY <3>1 DEF IInv, Once
  <2> QED
    BY <2>1 DEF IInv, Delims, StopsAtDelim
<1> QED
  BY <1>1, Invariance, PTL

\* The count of read_to_end() (async_streams.h:1167) is the number of bytes in the target: all
\* those of the source, unless the target or the reader's side of the source was closed.
THEOREM EndCountsCorrect == Spec => []EndCounts
<1>1. IInv => EndCounts
  BY DEF IInv
<1> QED
  BY <1>1, Invariance, PTL
=============================================================================
