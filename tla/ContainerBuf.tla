----------------------------- MODULE ContainerBuf -----------------------------
(***************************************************************************)
(* The stream buffer over a container of bytes (container_buffer.h), as    *)
(* its two users see it: one reads a container that was made with data,    *)
(* the other one writes a container that was made empty.  The constructor  *)
(* that takes data opens both directions, whatever mode it is given.       *)
(*                                                                         *)
(* There is one head for both directions.  Writes, seeks and the           *)
(* synchronous reads work at once; getn(), bumpc(), getc() and nextc() are *)
(* tasks on the worker, which read wherever the head is when they run.  A  *)
(* block that was allocated is committed before the writer does anything   *)
(* else, and no task is queued while a block is acquired.                  *)
(***************************************************************************)
EXTENDS Integers, Sequences

CONSTANTS Byte,     \* values of a byte
          ReadSize, \* the numbers of bytes that reads ask for
          MaxSize,  \* bound: the bytes in the container
          MaxOps    \* bound: the calls made

ASSUME ContainerAssumption == /\ Byte \subseteq 0 .. 255 /\ 0 \in Byte
                              /\ ReadSize \subseteq Nat \ {0}
                              /\ MaxSize \in Nat /\ MaxOps \in Nat

VARIABLES
  use,        \* "in" or "out"
  data_,      \* the container
  current_position_,
  can_read, can_write,
  tasks,      \* the reads queued on the worker, in order
  alloced,    \* the size of the block that is allocated, or 0
  acquired,   \* the bytes of the block that is acquired, in order
  start, got, \* where the head was set last, and the bytes that callers were given since, in order
  ops         \* calls made

head == <<data_, current_position_, start, got>>
mode == <<use, can_read, can_write>>
vars == <<head, mode, tasks, alloced, acquired, ops>>

EmptyBytes == <<>>

in_avail      == Len(data_) - current_position_
Lesser(m, n)  == IF m <= n THEN m ELSE n
SeqsOf(S, n)  == UNION {[1 .. m -> S] : m \in 0 .. n}

\* The reader's container has data; the writer's is empty.
Init ==
  /\ use \in {"in", "out"}
  /\ data_ \in IF use = "in" THEN SeqsOf(Byte, MaxSize) ELSE {EmptyBytes}
  /\ current_position_ = 0
  /\ can_read = (use = "in") /\ can_write = TRUE
  /\ tasks = <<>> /\ alloced = 0 /\ acquired = EmptyBytes
  /\ start = 0 /\ got = <<>> /\ ops = 0

Reader == use = "in" /\ acquired = EmptyBytes /\ ops < MaxOps /\ ops' = ops + 1
Writer == use = "out" /\ alloced = 0 /\ ops < MaxOps /\ ops' = ops + 1

-----------------------------------------------------------------------------
(* Reading *)

\* What read() of n bytes copies.
Found(n) == SubSeq(data_, current_position_ + 1, current_position_ + Lesser(n, in_avail))

\* Mutants: the head passes all that was asked for; it stays.
Advance_Asked(n) ==
  /\ got' = got \o Found(n)
  /\ current_position_' = current_position_ + n
  /\ UNCHANGED <<data_, start>>
Advance_Stays(n) == got' = got \o Found(n) /\ UNCHANGED <<data_, start, current_position_>>

\* read() that advances: the caller gets what is copied, and the head passes as much.
Advance(n) ==
  /\ got' = got \o Found(n)
  /\ current_position_' = current_position_ + Lesser(n, in_avail)
  /\ UNCHANGED <<data_, start>>

SetHead(p) ==
  /\ current_position_' = p
  /\ start' = p /\ got' = EmptyBytes
  /\ UNCHANGED data_

\* getn(), bumpc(), getc() and nextc() of a buffer that can be read.
Defer(kind, n) ==
  /\ Reader /\ can_read
  /\ tasks' = Append(tasks, [kind |-> kind, n |-> n])
  /\ UNCHANGED <<head, mode, alloced, acquired>>

\* A queued read runs.  It does not look whether the buffer was closed.
RunGetn ==
  /\ tasks # <<>> /\ Head(tasks).kind = "getn" /\ acquired = EmptyBytes
  /\ Advance(Head(tasks).n)
  /\ tasks' = Tail(tasks)
  /\ UNCHANGED <<mode, alloced, acquired, ops>>

\* getc() leaves the head; nextc() passes a character and looks at the one behind it.
RunChar ==
  /\ tasks # <<>> /\ Head(tasks).kind # "getn" /\ acquired = EmptyBytes
  /\ IF Head(tasks).kind = "getc" THEN UNCHANGED head ELSE Advance(1)
  /\ tasks' = Tail(tasks)
  /\ UNCHANGED <<mode, alloced, acquired, ops>>

\* sgetn(), and sbumpc() for one byte; scopy() and sgetc() leave everything as it is.
Sgetn(n) ==
  /\ Reader /\ can_read
  /\ Advance(n)
  /\ UNCHANGED <<mode, tasks, alloced, acquired>>

\* ungetc(): the head goes back at once, the character is read by a task.
Ungetc ==
  /\ Reader
  /\ IF can_read /\ current_position_ > 0
     THEN /\ SetHead(current_position_ - 1)
          /\ tasks' = Append(tasks, [kind |-> "getc", n |-> 1])
     ELSE UNCHANGED <<head, tasks>>
  /\ UNCHANGED <<mode, alloced, acquired>>

\* acquire(): the caller gets the address of what there is.
Acquire ==
  /\ Reader /\ can_read /\ tasks = <<>> /\ in_avail > 0
  /\ acquired' = SubSeq(data_, current_position_ + 1, Len(data_))
  /\ UNCHANGED <<head, mode, tasks, alloced>>

\* Mutant: the whole block is released.
Released_All(n) == current_position_ + Len(acquired)

Released(n) == current_position_ + n

\* release() of the n bytes of the block that the caller has taken.
Release(n) ==
  /\ acquired # EmptyBytes /\ n <= Len(acquired)
  /\ got' = got \o SubSeq(acquired, 1, n)
  /\ current_position_' = Released(n)
  /\ acquired' = EmptyBytes
  /\ UNCHANGED <<data_, start, mode, tasks, alloced, ops>>

\* seekpos() for reading: not beyond the end.
SeekIn(p) ==
  /\ Reader
  /\ IF can_read /\ p <= Len(data_) THEN SetHead(p) ELSE UNCHANGED head
  /\ UNCHANGED <<mode, tasks, alloced, acquired>>

CloseRead ==
  /\ Reader
  /\ can_read' = FALSE
  /\ UNCHANGED <<head, use, can_write, tasks, alloced, acquired>>

-----------------------------------------------------------------------------
(* Writing *)

\* Mutant: the container gets the size that was asked for, less or more.
Resized_Always(n) ==
  [i \in 1 .. n |-> IF i <= Len(data_) THEN data_[i] ELSE 0]

\* resize_for_write(): the container grows when it must.
Resized(n) ==
  [i \in 1 .. (IF n > Len(data_) THEN n ELSE Len(data_)) |->
     IF i <= Len(data_) THEN data_[i] ELSE 0]

\* The bytes of a write at the head.
Overwritten(d, bytes) ==
  [i \in 1 .. Len(d) |->
     IF i \in current_position_ + 1 .. current_position_ + Len(bytes)
     THEN bytes[i - current_position_] ELSE d[i]]

\* putc() and putn() of a buffer that can be written; empty writes change nothing.
Putn(bytes) ==
  /\ Writer /\ can_write /\ bytes # <<>>
  /\ current_position_ + Len(bytes) <= MaxSize
  /\ data_' = Overwritten(Resized(current_position_ + Len(bytes)), bytes)
  /\ current_position_' = current_position_ + Len(bytes)
  /\ start' = current_position_' /\ got' = <<>>
  /\ UNCHANGED <<mode, tasks, alloced, acquired>>

\* alloc(): room is made in the container at once.
Alloc(n) ==
  /\ Writer /\ can_write
  /\ current_position_ + n <= MaxSize
  /\ data_' = Resized(current_position_ + n)
  /\ alloced' = n
  /\ UNCHANGED <<current_position_, start, got, mode, tasks, acquired>>

\* commit() of a part of the block, into which the caller has written.
Commit(bytes) ==
  /\ alloced > 0 /\ Len(bytes) <= alloced
  /\ data_' = Overwritten(data_, bytes)
  /\ current_position_' = current_position_ + Len(bytes)
  /\ start' = current_position_' /\ got' = <<>>
  /\ alloced' = 0
  /\ UNCHANGED <<mode, tasks, acquired, ops>>

\* seekpos() for writing: the container grows up to the position.
SeekOut(p) ==
  /\ Writer /\ p <= MaxSize
  /\ IF can_write
     THEN /\ data_' = Resized(p)
          /\ current_position_' = p /\ start' = p /\ got' = <<>>
     ELSE UNCHANGED head
  /\ UNCHANGED <<mode, tasks, alloced, acquired>>

CloseWrite ==
  /\ Writer
  /\ can_write' = FALSE
  /\ UNCHANGED <<head, use, can_read, tasks, alloced, acquired>>

-----------------------------------------------------------------------------
Next ==
  \/ \E n \in ReadSize : Defer("getn", n) \/ Sgetn(n)
  \/ \E kind \in {"bumpc", "getc", "nextc"} : Defer(kind, 1)
  \/ RunGetn \/ RunChar \/ Ungetc \/ Acquire \/ CloseRead
  \/ \E n \in 0 .. MaxSize : Release(n) \/ SeekIn(n) \/ SeekOut(n)
  \/ \E bytes \in SeqsOf(Byte, MaxSize) : Putn(bytes) \/ Commit(bytes)
  \/ \E n \in 1 .. MaxSize : Alloc(n)
  \/ CloseWrite

Spec == Init /\ [][Next]_vars

-----------------------------------------------------------------------------
(* Properties *)

\* Every variable keeps the kind of value it has in the code, and the head stays in the data
\* (asserted at container_buffer.h:99 and :481), the blocks too that are lent out from it.
TypeOK ==
  /\ use \in {"in", "out"} /\ can_read \in BOOLEAN /\ can_write \in BOOLEAN
  /\ data_ \in Seq(Byte)
  /\ current_position_ \in 0 .. Len(data_)
  /\ alloced \in 0 .. in_avail /\ acquired \in Seq(Byte) /\ Len(acquired) <= in_avail
  /\ tasks \in Seq([kind : {"getn", "bumpc", "getc", "nextc"}, n : Nat \ {0}])
  /\ start \in Nat /\ got \in Seq(Byte)
  /\ ops \in Nat

\* What callers were given since the head was set last, copied by reads that ran when the worker
\* came to them, or read in place in a block that was acquired before, is every byte from there
\* to the head, once and in order.
EveryByteOnce == got = SubSeq(data_, start + 1, current_position_)

\* Reading leaves the data as it is.  Writing, seeking and allocating never take data away and
\* change no byte that the head does not pass.
OnlyWrittenChanges ==
  [][/\ use = "in" => data_' = data_
     /\ Len(data_') >= Len(data_)
     /\ \A i \in 1 .. Len(data_) :
          i \notin current_position_ + 1 .. current_position_' => data_'[i] = data_[i]]_vars
=============================================================================
