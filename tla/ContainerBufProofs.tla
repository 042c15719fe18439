--------------------------- MODULE ContainerBufProofs ---------------------------
(***************************************************************************)
(* The container buffer, for containers of any size and any reads, writes  *)
(* and seeks: the head stays in the data, the reads pass every byte once,  *)
(* and a write changes only what the head passes.                          *)
(*                                                                         *)
(* The invariant adds what keeps the two directions apart: nothing is      *)
(* queued or acquired of a container that is written, nothing allocated of *)
(* one that is read; and that the block a reader has acquired is still     *)
(* what lies behind the head.                                              *)
(***************************************************************************)
EXTENDS ContainerBuf, SequenceTheorems, TLAPS

Kinds == [kind : {"getn", "bumpc", "getc", "nextc"}, n : Nat \ {0}]

\* The reader lends no block to write, the writer none to read.
Sides ==
  /\ use = "in" => alloced = 0
  /\ use = "out" => tasks = <<>> /\ acquired = EmptyBytes /\ start = current_position_ /\ got = <<>>

\* The bytes that are lent are those behind the head.
Lent == acquired = EmptyBytes \/ acquired = SubSeq(data_, current_position_ + 1, Len(data_))

IInv == TypeOK /\ Sides /\ Lent /\ start <= current_position_ /\ EveryByteOnce

\* What OnlyWrittenChanges says of a step.
DataKept ==
  /\ use = "in" => data_' = data_
  /\ Len(data_') >= Len(data_)
  /\ \A i \in 1 .. Len(data_) :
       i \notin current_position_ + 1 .. current_position_' => data_'[i] = data_[i]

-----------------------------------------------------------------------------
(* Bytes *)

LEMMA SeqsOfIs ==
  ASSUME NEW S, NEW n \in Nat, NEW s \in SeqsOf(S, n)
  PROVE  s \in Seq(S) /\ Len(s) \in 0 .. n
<1>1. PICK m \in 0 .. n : s \in [1 .. m -> S]
  BY DEF SeqsOf
<1> QED
  BY <1>1

\* resize_for_write() keeps what there is.
LEMMA ResizedIs ==
  ASSUME TypeOK, NEW n \in Nat
  PROVE  /\ Resized(n) \in Seq(Byte) /\ Len(Resized(n)) >= Len(data_) /\ Len(Resized(n)) >= n
         /\ \A i \in 1 .. Len(data_) : Resized(n)[i] = data_[i]
<1>1. data_ \in Seq(Byte) /\ Len(data_) \in Nat
  BY DEF TypeOK
<1>2. PICK k \in Nat : /\ k = IF n > Len(data_) THEN n ELSE Len(data_)
                       /\ k >= n /\ k >= Len(data_)
  BY <1>1
<1>3. Resized(n) = [i \in 1 .. k |-> IF i <= Len(data_) THEN data_[i] ELSE 0]
  BY <1>2 DEF Resized
<1>4. \A i \in 1 .. k : (IF i <= Len(data_) THEN data_[i] ELSE 0) \in Byte
  BY <1>1, ContainerAssumption
<1>5. Resized(n) \in [1 .. k -> Byte]
  BY <1>3, <1>4
<1>6. Resized(n) \in Seq(Byte) /\ Len(Resized(n)) = k
  BY <1>5
<1>7. \A i \in 1 .. Len(data_) : Resized(n)[i] = data_[i]
  BY <1>1, <1>2, <1>3
<1> QED
  BY <1>2, <1>6, <1>7

\* A write at the head changes the bytes it passes.
LEMMA OverwrittenIs ==
  ASSUME TypeOK, NEW d \in Seq(Byte), NEW bytes \in Seq(Byte),
         current_position_ + Len(bytes) <= Len(d)
  PROVE  /\ Overwritten(d, bytes) \in Seq(Byte) /\ Len(Overwritten(d, bytes)) = Len(d)
         /\ \A i \in 1 .. Len(d) :
              i \notin current_position_ + 1 .. current_position_ + Len(bytes) =>
                Overwritten(d, bytes)[i] = d[i]
<1>1. current_position_ \in Nat /\ Len(d) \in Nat /\ Len(bytes) \in Nat
  BY DEF TypeOK
<1>2. \A i \in 1 .. Len(d) :
        (IF i \in current_position_ + 1 .. current_position_ + Len(bytes)
         THEN bytes[i - current_position_] ELSE d[i]) \in Byte
  BY <1>1
<1>3. Overwritten(d, bytes) \in [1 .. Len(d) -> Byte]
  BY <1>2 DEF Overwritten
<1>4. Overwritten(d, bytes) \in Seq(Byte) /\ Len(Overwritten(d, bytes)) = Len(d)
  BY <1>1, <1>3
<1>5. \A i \in 1 .. Len(d) :
        i \notin current_position_ + 1 .. current_position_ + Len(bytes) =>
          Overwritten(d, bytes)[i] = d[i]
  BY DEF Overwritten
<1> QED
  BY <1>4, <1>5

\* What was passed and what a read finds are adjacent.
LEMMA AdvanceIs ==
  ASSUME IInv, NEW n \in Nat, Advance(n)
  PROVE  /\ data_' = data_ /\ start' = start
         /\ current_position_' \in current_position_ .. Len(data_)
         /\ got' \in Seq(Byte) /\ got' = SubSeq(data_, start + 1, current_position_')
<1>1. /\ data_ \in Seq(Byte) /\ Len(data_) \in Nat /\ start \in Nat
      /\ current_position_ \in Nat /\ current_position_ <= Len(data_)
      /\ start <= current_position_ /\ got = SubSeq(data_, start + 1, current_position_)
  BY DEF IInv, TypeOK, EveryByteOnce
<1>2. data_' = data_ /\ start' = start /\ got' = got \o Found(n)
  BY DEF Advance
<1>3. PICK p \in current_position_ .. Len(data_) :
        current_position_ + Lesser(n, in_avail) = p /\ p \in Nat
  BY <1>1 DEF Lesser, in_avail
<1>4. current_position_' = p
  BY <1>3 DEF Advance
<1>5. Found(n) = SubSeq(data_, current_position_ + 1, p)
  BY <1>3 DEF Found
<1>6. /\ start + 1 \in 1 .. Len(data_) + 1
      /\ current_position_ \in (start + 1) - 1 .. Len(data_)
      /\ p \in current_position_ .. Len(data_)
  BY <1>1, <1>3
<1>7. SubSeq(data_, start + 1, current_position_) \o SubSeq(data_, current_position_ + 1, p)
        = SubSeq(data_, start + 1, p)
  BY <1>1, <1>6, ConcatAdjacentSubSeq
<1>8. got' = SubSeq(data_, start + 1, p)
  BY <1>1, <1>2, <1>5, <1>7
<1>9. SubSeq(data_, start + 1, p) \in Seq(Byte)
  <2>1. \A i \in start + 1 .. p : data_[i] \in Byte
    BY <1>1, <1>3
  <2> QED
    BY <1>1, <1>3, <2>1, SubSeqProperties
<1> QED
  BY <1>2, <1>3, <1>4, <1>8, <1>9

\* What there is behind the head, and its first bytes.
LEMMA BehindHead ==
  ASSUME TypeOK, NEW n \in Nat, n <= in_avail
  PROVE  /\ SubSeq(data_, current_position_ + 1, Len(data_)) \in Seq(Byte)
         /\ Len(SubSeq(data_, current_position_ + 1, Len(data_))) = in_avail
         /\ SubSeq(SubSeq(data_, current_position_ + 1, Len(data_)), 1, n)
              = SubSeq(data_, current_position_ + 1, current_position_ + n)
<1> DEFINE rest == SubSeq(data_, current_position_ + 1, Len(data_))
<1>1. /\ data_ \in Seq(Byte) /\ Len(data_) \in Nat /\ current_position_ \in Nat
      /\ current_position_ <= Len(data_) /\ in_avail = Len(data_) - current_position_
  BY DEF TypeOK, in_avail
<1>2. rest \in Seq(Byte) /\ Len(rest) = in_avail
  <2>1. \A i \in current_position_ + 1 .. Len(data_) : data_[i] \in Byte
    BY <1>1
  <2> QED
    BY <1>1, <2>1, SubSeqProperties
<1>3. \A i \in 1 .. in_avail : rest[i] = data_[current_position_ + i]
  BY <1>1, SubSeqProperties
<1> HIDE DEF rest
<1>4. SubSeq(rest, 1, n) = SubSeq(data_, current_position_ + 1, current_position_ + n)
  <2>1. SubSeq(rest, 1, n) = [i \in 1 .. n |-> rest[i]]
    BY <1>2
  <2>2. SubSeq(data_, current_position_ + 1, current_position_ + n)
          = [i \in 1 .. n |-> data_[current_position_ + i]]
    BY <1>1
  <2>3. \A i \in 1 .. n : rest[i] = data_[current_position_ + i]
    BY <1>1, <1>3
  <2> QED
    BY <2>1, <2>2, <2>3
<1> QED
  BY <1>2, <1>4 DEF rest

\* A release gives the caller the bytes that a copying read would have given.
LEMMA ReleaseAdvances ==
  ASSUME IInv, NEW n \in Nat, Release(n) PROVE Advance(n)
<1>1. /\ acquired = SubSeq(data_, current_position_ + 1, Len(data_)) /\ n <= Len(acquired)
      /\ got' = got \o SubSeq(acquired, 1, n) /\ current_position_' = current_position_ + n
      /\ UNCHANGED <<data_, start>>
  BY DEF Release, Released, IInv, Lent
<1>2. Len(acquired) <= in_avail /\ in_avail \in Int
  BY DEF IInv, TypeOK, in_avail
<1>3. n <= in_avail
  BY <1>1, <1>2 DEF IInv, TypeOK
<1>4. SubSeq(acquired, 1, n) = SubSeq(data_, current_position_ + 1, current_position_ + n)
  BY <1>1, <1>3, BehindHead DEF IInv
<1>5. Lesser(n, in_avail) = n
  BY <1>3 DEF Lesser
<1> QED
  BY <1>1, <1>4, <1>5 DEF Advance, Found

\* After the head was set nothing has been passed.
LEMMA NothingPassedYet ==
  ASSUME NEW d, NEW p \in Nat PROVE SubSeq(d, p + 1, p) = <<>>
  BY SubSeqEmpty

-----------------------------------------------------------------------------
(* Steps *)

LEMMA InitInv == Init => IInv
<1> SUFFICES ASSUME Init PROVE IInv
  OBVIOUS
<1>1. data_ \in Seq(Byte) /\ Len(data_) \in Nat
  <2>1. CASE use = "in"
    <3>1. data_ \in SeqsOf(Byte, MaxSize)
      BY <2>1 DEF Init
    <3> QED
      BY <3>1, SeqsOfIs, ContainerAssumption
  <2>2. CASE use # "in"
    <3>1. data_ = <<>>
      BY <2>2 DEF Init, EmptyBytes
    <3> QED
      BY <3>1
  <2> QED
    BY <2>1, <2>2
<1>2. got = SubSeq(data_, start + 1, current_position_)
  BY NothingPassedYet DEF Init
<1>3. can_read \in BOOLEAN /\ can_write \in BOOLEAN
  BY Zenon DEF Init
<1>4. /\ current_position_ \in 0 .. Len(data_) /\ alloced \in 0 .. in_avail
      /\ start \in Nat /\ ops \in Nat /\ use \in {"in", "out"}
  BY <1>1 DEF Init, in_avail
<1>5. tasks = <<>> /\ got = <<>> /\ start <= current_position_ /\ acquired = <<>>
  BY DEF Init, EmptyBytes
<1>6. acquired \in Seq(Byte) /\ Len(acquired) <= in_avail
  BY <1>1, <1>4, <1>5 DEF in_avail
<1>7. TypeOK
  BY <1>1, <1>3, <1>4, <1>5, <1>6 DEF TypeOK
<1> QED
  BY <1>2, <1>5, <1>7 DEF IInv, Sides, Lent, EveryByteOnce, EmptyBytes, Init

\* A read that advances, from the queue or not, with or without a block to release.
LEMMA ReadStep ==
  ASSUME IInv, use = "in", NEW n \in Nat, Advance(n), acquired' = EmptyBytes, UNCHANGED <<mode, alloced>>,
         tasks' \in Seq(Kinds), ops' \in Nat
  PROVE  IInv' /\ DataKept
<1>1. /\ data_' = data_ /\ start' = start
      /\ current_position_' \in current_position_ .. Len(data_)
      /\ got' \in Seq(Byte) /\ got' = SubSeq(data_, start + 1, current_position_')
  BY AdvanceIs
<1>2. /\ Len(data_) \in Nat /\ current_position_ \in Nat /\ start \in Nat /\ alloced = 0
      /\ start <= current_position_
  BY DEF IInv, TypeOK, Sides
<1>3. can_read' \in BOOLEAN /\ can_write' \in BOOLEAN /\ use' = "in" /\ alloced' = 0
  BY <1>2 DEF IInv, TypeOK, mode
<1>4. /\ current_position_' \in 0 .. Len(data_') /\ start' <= current_position_'
      /\ alloced' \in 0 .. in_avail' /\ acquired' \in Seq(Byte) /\ Len(acquired') <= in_avail'
  BY <1>1, <1>2, <1>3 DEF in_avail, EmptyBytes
<1>5. TypeOK'
  BY <1>1, <1>2, <1>3, <1>4 DEF IInv, TypeOK, Kinds
<1>6. Sides' /\ Lent' /\ EveryByteOnce'
  BY <1>1, <1>3 DEF Sides, Lent, EveryByteOnce
<1>7. DataKept
  BY <1>1, <1>2 DEF DataKept
<1> QED
  BY <1>4, <1>5, <1>6, <1>7 DEF IInv

\* The head is set: the bytes that count begin anew.
LEMMA SetStep ==
  ASSUME IInv, NEW p \in 0 .. Len(data_), use = "in", SetHead(p), acquired = EmptyBytes,
         UNCHANGED <<mode, alloced, acquired>>, tasks' \in Seq(Kinds), ops' \in Nat
  PROVE  IInv' /\ DataKept
<1>1. data_' = data_ /\ current_position_' = p /\ start' = p /\ got' = <<>>
  BY DEF SetHead, EmptyBytes
<1>2. Len(data_) \in Nat /\ p \in Nat /\ p <= Len(data_) /\ alloced = 0
  BY DEF IInv, TypeOK, Sides
<1>3. can_read' \in BOOLEAN /\ can_write' \in BOOLEAN /\ use' = "in" /\ alloced' = 0
  BY <1>2 DEF IInv, TypeOK, mode
<1>4. alloced' \in 0 .. in_avail' /\ acquired' \in Seq(Byte) /\ Len(acquired') <= in_avail'
  BY <1>1, <1>2, <1>3 DEF in_avail, EmptyBytes
<1>5. TypeOK'
  BY <1>1, <1>2, <1>3, <1>4 DEF IInv, TypeOK, Kinds
<1>6. Sides' /\ Lent' /\ EveryByteOnce'
  BY <1>1, <1>2, <1>3, NothingPassedYet DEF Sides, Lent, EveryByteOnce
<1>7. DataKept
  BY <1>1, <1>2 DEF DataKept
<1> QED
  BY <1>1, <1>2, <1>5, <1>6, <1>7 DEF IInv

\* The head and the data stay.
LEMMA StillStep ==
  ASSUME IInv, UNCHANGED <<head, use, alloced>>,
         acquired' = acquired \/ acquired' = SubSeq(data_, current_position_ + 1, Len(data_)),
         acquired' # EmptyBytes => use = "in", can_read' \in BOOLEAN, can_write' \in BOOLEAN,
         tasks' \in Seq(Kinds), tasks' # <<>> => use = "in", ops' \in Nat
  PROVE  IInv' /\ DataKept
<1>1. acquired' \in Seq(Byte) /\ Len(acquired') <= in_avail
  <2> DEFINE rest == SubSeq(data_, current_position_ + 1, Len(data_))
  <2>1. TypeOK /\ 0 <= in_avail /\ acquired \in Seq(Byte) /\ Len(acquired) <= in_avail
    BY DEF IInv, TypeOK, in_avail
  <2>2. rest \in Seq(Byte) /\ Len(rest) = in_avail
    BY <2>1, BehindHead
  <2>3. in_avail \in Int
    BY <2>1 DEF TypeOK, in_avail
  <2> HIDE DEF rest
  <2>4. acquired' = acquired \/ acquired' = rest
    BY DEF rest
  <2> QED
    BY <2>1, <2>2, <2>3, <2>4
<1>2. TypeOK'
  BY <1>1 DEF IInv, TypeOK, Kinds, head, in_avail
<1>3. Sides' /\ Lent' /\ EveryByteOnce' /\ start' <= current_position_'
  BY DEF IInv, Sides, Lent, EveryByteOnce, head
<1>4. DataKept
  BY DEF DataKept, head, IInv, TypeOK
<1> QED
  BY <1>2, <1>3, <1>4 DEF IInv

\* A step of the writer: the data grows at most, the head is somewhere in it.
LEMMA WriteStep ==
  ASSUME IInv, use = "out", UNCHANGED <<mode, tasks, acquired>>, data_' \in Seq(Byte),
         current_position_' \in 0 .. Len(data_'), alloced' \in 0 .. in_avail', ops' \in Nat,
         start' = current_position_', got' = <<>>, DataKept
  PROVE  IInv' /\ DataKept
<1>1. /\ can_read' \in BOOLEAN /\ can_write' \in BOOLEAN /\ use' = "out"
      /\ tasks' = <<>> /\ acquired' = EmptyBytes
  BY DEF IInv, TypeOK, Sides, mode
<1>2. current_position_' \in Nat /\ Len(data_') \in Nat /\ current_position_' <= Len(data_')
  OBVIOUS
<1>3. acquired' \in Seq(Byte) /\ Len(acquired') <= in_avail'
  BY <1>1, <1>2 DEF in_avail, EmptyBytes
<1>4. TypeOK'
  BY <1>1, <1>2, <1>3 DEF TypeOK
<1>5. Sides' /\ Lent' /\ EveryByteOnce'
  BY <1>1, <1>2, NothingPassedYet DEF Sides, Lent, EveryByteOnce
<1> QED
  BY <1>2, <1>4, <1>5 DEF IInv

LEMMA WriterStep ==
  ASSUME IInv,
         \/ \E n \in 0 .. MaxSize : SeekOut(n)
         \/ \E bytes \in SeqsOf(Byte, MaxSize) : Putn(bytes) \/ Commit(bytes)
         \/ \E n \in 1 .. MaxSize : Alloc(n)
         \/ CloseWrite
  PROVE  IInv' /\ DataKept
<1>1. /\ data_ \in Seq(Byte) /\ Len(data_) \in Nat /\ current_position_ \in Nat /\ ops \in Nat
      /\ current_position_ <= Len(data_) /\ alloced \in Nat
      /\ alloced <= Len(data_) - current_position_
  BY DEF IInv, TypeOK, in_avail
<1>2. use = "out" => start = current_position_ /\ got = <<>>
  BY DEF IInv, Sides
<1>3. ASSUME NEW n \in 0 .. MaxSize, SeekOut(n) PROVE IInv' /\ DataKept
  <2>1. use = "out" /\ ops' \in Nat /\ alloced = 0 /\ UNCHANGED <<mode, tasks, alloced, acquired>>
    BY <1>1, <1>3 DEF SeekOut, Writer
  <2>2. CASE can_write
    <3>1. data_' = Resized(n) /\ current_position_' = n /\ start' = n /\ got' = <<>>
      BY <1>3, <2>2 DEF SeekOut
    <3>2. /\ data_' \in Seq(Byte) /\ Len(data_') >= Len(data_) /\ Len(data_') >= n
          /\ \A i \in 1 .. Len(data_) : data_'[i] = data_[i]
      <4>1. n \in Nat
        BY ContainerAssumption
      <4> QED
        BY <3>1, <4>1, ResizedIs DEF IInv
    <3>3. current_position_' \in 0 .. Len(data_') /\ alloced' \in 0 .. in_avail'
      BY <2>1, <3>1, <3>2, ContainerAssumption DEF in_avail
    <3>4. DataKept
      BY <2>1, <3>2 DEF DataKept
    <3> QED
      BY <2>1, <3>1, <3>2, <3>3, <3>4, WriteStep
  <2>3. CASE ~can_write
    <3>1. UNCHANGED head
      BY <1>3, <2>3 DEF SeekOut
    <3> QED
      BY <2>1, <3>1, StillStep DEF IInv, TypeOK, Sides, mode, Kinds
  <2> QED
    BY <2>2, <2>3
<1>4. ASSUME NEW bytes \in SeqsOf(Byte, MaxSize), Putn(bytes) PROVE IInv' /\ DataKept
  <2> DEFINE room == Resized(current_position_ + Len(bytes))
  <2>1. bytes \in Seq(Byte) /\ Len(bytes) \in Nat
    BY SeqsOfIs, ContainerAssumption
  <2>2. /\ use = "out" /\ ops' \in Nat /\ alloced = 0 /\ alloced' = 0
        /\ UNCHANGED <<mode, tasks, acquired>>
        /\ data_' = Overwritten(room, bytes)
        /\ current_position_' = current_position_ + Len(bytes)
        /\ start' = current_position_' /\ got' = <<>>
    BY <1>1, <1>4 DEF Putn, Writer
  <2>3. current_position_ + Len(bytes) \in Nat
    BY <1>1, <2>1
  <2>4. /\ room \in Seq(Byte) /\ Len(room) >= Len(data_)
        /\ Len(room) >= current_position_ + Len(bytes)
        /\ \A i \in 1 .. Len(data_) : room[i] = data_[i]
    BY <2>3, ResizedIs DEF IInv
  <2> HIDE DEF room
  <2>5. /\ data_' \in Seq(Byte) /\ Len(data_') = Len(room)
        /\ \A i \in 1 .. Len(room) :
             i \notin current_position_ + 1 .. current_position_' => data_'[i] = room[i]
    BY <2>1, <2>2, <2>4, OverwrittenIs DEF IInv
  <2>6. Len(room) \in Nat
    BY <2>4
  <2>7. current_position_' \in 0 .. Len(data_') /\ alloced' \in 0 .. in_avail'
    BY <2>2, <2>3, <2>4, <2>5, <2>6 DEF in_avail
  <2>8. DataKept
    <3>1. \A i \in 1 .. Len(data_) : i \in 1 .. Len(room)
      BY <1>1, <2>4, <2>6
    <3> QED
      BY <2>2, <2>4, <2>5, <3>1 DEF DataKept
  <2> QED
    BY <2>2, <2>5, <2>7, <2>8, WriteStep
<1>5. ASSUME NEW bytes \in SeqsOf(Byte, MaxSize), Commit(bytes) PROVE IInv' /\ DataKept
  <2>1. bytes \in Seq(Byte) /\ Len(bytes) \in Nat
    BY SeqsOfIs, ContainerAssumption
  <2>2. /\ alloced > 0 /\ Len(bytes) <= alloced /\ alloced' = 0 /\ ops' = ops
        /\ UNCHANGED <<mode, tasks, acquired>>
        /\ data_' = Overwritten(data_, bytes)
        /\ current_position_' = current_position_ + Len(bytes)
        /\ start' = current_position_' /\ got' = <<>>
    BY <1>5 DEF Commit
  <2>3. use = "out"
    BY <1>1, <2>2 DEF IInv, TypeOK, Sides
  <2>4. current_position_ + Len(bytes) \in Nat /\ current_position_ + Len(bytes) <= Len(data_)
    BY <1>1, <2>1, <2>2
  <2>5. /\ data_' \in Seq(Byte) /\ Len(data_') = Len(data_)
        /\ \A i \in 1 .. Len(data_) :
             i \notin current_position_ + 1 .. current_position_' => data_'[i] = data_[i]
    BY <1>1, <2>1, <2>2, <2>4, OverwrittenIs DEF IInv
  <2>6. current_position_' \in 0 .. Len(data_') /\ alloced' \in 0 .. in_avail'
    BY <1>1, <2>2, <2>4, <2>5 DEF in_avail
  <2>7. DataKept
    BY <1>1, <2>3, <2>5 DEF DataKept
  <2> QED
    BY <1>1, <2>2, <2>3, <2>5, <2>6, <2>7, WriteStep
<1>6. ASSUME NEW n \in 1 .. MaxSize, Alloc(n) PROVE IInv' /\ DataKept
  <2>1. /\ use = "out" /\ ops' \in Nat /\ alloced' = n
        /\ UNCHANGED <<current_position_, start, got, mode, tasks, acquired>>
        /\ data_' = Resized(current_position_ + n)
    BY <1>1, <1>6 DEF Alloc, Writer
  <2>2. n \in Nat /\ current_position_ + n \in Nat
    BY <1>1, ContainerAssumption
  <2>3. /\ data_' \in Seq(Byte) /\ Len(data_') >= Len(data_)
        /\ Len(data_') >= current_position_ + n
        /\ \A i \in 1 .. Len(data_) : data_'[i] = data_[i]
    BY <2>1, <2>2, ResizedIs DEF IInv
  <2>4. Len(data_') \in Nat
    BY <2>3
  <2>5. current_position_' \in 0 .. Len(data_') /\ alloced' \in 0 .. in_avail'
    BY <1>1, <2>1, <2>2, <2>3, <2>4 DEF in_avail
  <2>6. DataKept
    BY <2>1, <2>3 DEF DataKept
  <2> QED
    BY <1>2, <2>1, <2>3, <2>5, <2>6, WriteStep
<1>7. CASE CloseWrite
  <2>1. /\ can_write' = FALSE /\ ops' \in Nat
        /\ UNCHANGED <<head, use, can_read, tasks, alloced, acquired>>
    BY <1>1, <1>7 DEF CloseWrite, Writer
  <2> QED
    BY <2>1, StillStep DEF IInv, TypeOK, Sides, Kinds
<1> QED
  BY <1>3, <1>4, <1>5, <1>6, <1>7

LEMMA ReaderStep ==
  ASSUME IInv,
         \/ \E n \in ReadSize : Defer("getn", n) \/ Sgetn(n)
         \/ \E kind \in {"bumpc", "getc", "nextc"} : Defer(kind, 1)
         \/ RunGetn \/ RunChar \/ Ungetc \/ Acquire \/ CloseRead
         \/ \E n \in 0 .. MaxSize : Release(n) \/ SeekIn(n)
  PROVE  IInv' /\ DataKept
<1>1. /\ data_ \in Seq(Byte) /\ Len(data_) \in Nat /\ current_position_ \in Nat /\ ops \in Nat
      /\ current_position_ <= Len(data_) /\ tasks \in Seq(Kinds)
      /\ can_read \in BOOLEAN /\ can_write \in BOOLEAN /\ use \in {"in", "out"}
  BY DEF IInv, TypeOK, Kinds, in_avail
<1>2. use = "out" => tasks = <<>> /\ acquired = EmptyBytes
  BY DEF IInv, Sides
<1>3. ASSUME NEW kind \in {"getn", "bumpc", "getc", "nextc"}, NEW n \in Nat \ {0}, Defer(kind, n)
      PROVE  IInv' /\ DataKept
  <2>1. /\ use = "in" /\ acquired = EmptyBytes /\ ops' = ops + 1
        /\ tasks' = Append(tasks, [kind |-> kind, n |-> n])
        /\ UNCHANGED <<head, mode, alloced, acquired>>
    BY <1>3 DEF Defer, Reader
  <2>2. tasks' \in Seq(Kinds)
    <3>1. [kind |-> kind, n |-> n] \in Kinds
      BY DEF Kinds
    <3> QED
      BY <1>1, <2>1, <3>1
  <2>3. ops' \in Nat
    BY <1>1, <2>1
  <2> QED
    BY <1>1, <2>1, <2>2, <2>3, StillStep DEF mode
<1>4. ASSUME NEW n \in ReadSize, Sgetn(n) PROVE IInv' /\ DataKept
  <2>1. /\ use = "in" /\ acquired' = EmptyBytes /\ ops' \in Nat /\ Advance(n)
        /\ UNCHANGED <<mode, tasks, alloced>>
    BY <1>1, <1>4 DEF Sgetn, Reader
  <2> QED
    BY <1>1, <2>1, ReadStep, ContainerAssumption
<1>5. CASE RunGetn
  <2>1. /\ use = "in" /\ acquired' = EmptyBytes /\ ops' = ops /\ tasks # <<>>
        /\ Advance(Head(tasks).n) /\ tasks' = Tail(tasks)
        /\ UNCHANGED <<mode, alloced>>
    BY <1>1, <1>2, <1>5 DEF RunGetn
  <2>2. Head(tasks) \in Kinds /\ tasks' \in Seq(Kinds)
    BY <1>1, <2>1, HeadTailProperties
  <2>3. Head(tasks).n \in Nat
    BY <2>2 DEF Kinds
  <2> QED
    BY <1>1, <2>1, <2>2, <2>3, ReadStep
<1>6. CASE RunChar
  <2>1. /\ use = "in" /\ acquired = EmptyBytes /\ acquired' = EmptyBytes /\ ops' = ops /\ tasks # <<>>
        /\ UNCHANGED head \/ Advance(1)
        /\ tasks' = Tail(tasks) /\ UNCHANGED <<mode, alloced>>
    BY <1>1, <1>2, <1>6 DEF RunChar
  <2>2. tasks' \in Seq(Kinds)
    BY <1>1, <2>1
  <2>3. CASE UNCHANGED head
    BY <1>1, <2>1, <2>2, <2>3, StillStep DEF mode
  <2>4. CASE Advance(1)
    BY <1>1, <2>1, <2>2, <2>4, ReadStep
  <2> QED
    BY <2>1, <2>3, <2>4
<1>7. CASE Ungetc
  <2>1. /\ use = "in" /\ acquired = EmptyBytes /\ acquired' = EmptyBytes /\ ops' \in Nat
        /\ UNCHANGED <<mode, alloced, acquired>>
    BY <1>1, <1>7 DEF Ungetc, Reader
  <2>2. CASE can_read /\ current_position_ > 0
    <3>1. SetHead(current_position_ - 1) /\ tasks' = Append(tasks, [kind |-> "getc", n |-> 1])
      BY <1>7, <2>2 DEF Ungetc
    <3>2. tasks' \in Seq(Kinds) /\ current_position_ - 1 \in 0 .. Len(data_)
      BY <1>1, <2>2, <3>1 DEF Kinds
    <3> QED
      BY <2>1, <3>1, <3>2, SetStep
  <2>3. CASE ~(can_read /\ current_position_ > 0)
    <3>1. UNCHANGED <<head, tasks>>
      BY <1>7, <2>3 DEF Ungetc
    <3> QED
      BY <1>1, <2>1, <3>1, StillStep DEF mode
  <2> QED
    BY <2>2, <2>3
<1>8. CASE Acquire
  <2>1. /\ use = "in" /\ ops' \in Nat /\ acquired' = SubSeq(data_, current_position_ + 1, Len(data_))
        /\ UNCHANGED <<head, mode, tasks, alloced>>
    BY <1>1, <1>8 DEF Acquire, Reader
  <2> QED
    BY <1>1, <2>1, StillStep DEF mode
<1>9. CASE CloseRead
  <2>1. /\ use = "in" /\ ops' \in Nat /\ can_read' = FALSE
        /\ UNCHANGED <<head, use, can_write, tasks, alloced, acquired>>
    BY <1>1, <1>9 DEF CloseRead, Reader
  <2> QED
    BY <1>1, <2>1, StillStep
<1>10. ASSUME NEW n \in 0 .. MaxSize, Release(n) PROVE IInv' /\ DataKept
  <2>1. /\ use = "in" /\ ops' = ops /\ acquired' = EmptyBytes
        /\ UNCHANGED <<mode, tasks, alloced>>
    BY <1>1, <1>2, <1>10 DEF Release
  <2>2. n \in Nat /\ Advance(n)
    BY <1>10, ReleaseAdvances, ContainerAssumption
  <2> QED
    BY <1>1, <2>1, <2>2, ReadStep
<1>11. ASSUME NEW n \in 0 .. MaxSize, SeekIn(n) PROVE IInv' /\ DataKept
  <2>1. /\ use = "in" /\ acquired = EmptyBytes /\ acquired' = EmptyBytes /\ ops' \in Nat
        /\ UNCHANGED <<mode, tasks, alloced, acquired>>
    BY <1>1, <1>11 DEF SeekIn, Reader
  <2>2. CASE can_read /\ n <= Len(data_)
    <3>1. SetHead(n) /\ n \in 0 .. Len(data_)
      BY <1>1, <1>11, <2>2, ContainerAssumption DEF SeekIn
    <3> QED
      BY <1>1, <2>1, <3>1, SetStep
  <2>3. CASE ~(can_read /\ n <= Len(data_))
    <3>1. UNCHANGED head
      BY <1>11, <2>3 DEF SeekIn
    <3> QED
      BY <1>1, <2>1, <3>1, StillStep DEF mode
  <2> QED
    BY <2>2, <2>3
<1>12. ASSUME NEW n \in ReadSize, Defer("getn", n) PROVE IInv' /\ DataKept
  BY <1>3, <1>12, ContainerAssumption
<1>13. ASSUME NEW kind \in {"bumpc", "getc", "nextc"}, Defer(kind, 1) PROVE IInv' /\ DataKept
  BY <1>3, <1>13
<1> QED
  BY <1>4, <1>5, <1>6, <1>7, <1>8, <1>9, <1>10, <1>11, <1>12, <1>13

LEMMA Step == ASSUME IInv, [Next]_vars PROVE IInv' /\ [DataKept]_vars
<1>1. CASE UNCHANGED vars
  BY <1>1 DEF IInv, TypeOK, Sides, Lent, EveryByteOnce, vars, head, mode, in_avail
<1>2. CASE Next
  BY <1>2, ReaderStep, WriterStep DEF Next
<1> QED
  BY <1>1, <1>2

LEMMA Invariance == Spec => []IInv
<1> QED
  BY InitInv, Step, PTL DEF Spec

-----------------------------------------------------------------------------
\* The assertions of container_buffer.h:99 and :481 hold, and a block that is lent out lies in
\* the data, whatever is read, written, sought, allocated and released in any order.
THEOREM TypeCorrect == Spec => []TypeOK
<1>1. IInv => TypeOK
  BY DEF IInv
<1> QED
  BY <1>1, Invariance, PTL

\* What callers were given, copied by read() or lent by acquire() and released, is every byte from
\* where the head was set, once and in order, though the queued reads run later than they are
\* called and a block is released later than it was lent.
THEOREM EveryByteOnceCorrect == Spec => []EveryByteOnce
<1>1. IInv => EveryByteOnce
  BY DEF IInv
<1> QED
  BY <1>1, Invariance, PTL

\* Nothing but a write changes a byte, and only one that the head passes; resize_for_write()
\* takes nothing away.
THEOREM OnlyWrittenChangesCorrect == Spec => OnlyWrittenChanges
<1>1. [DataKept]_vars =>
        [/\ use = "in" => data_' = data_
         /\ Len(data_') >= Len(data_)
         /\ \A i \in 1 .. Len(data_) :
              i \notin current_position_ + 1 .. current_position_' => data_'[i] = data_[i]]_vars
  BY DEF DataKept
<1> QED
  BY <1>1, InitInv, Step, PTL DEF Spec, OnlyWrittenChanges
=============================================================================
