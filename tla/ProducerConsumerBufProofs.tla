----------------------- MODULE ProducerConsumerBufProofs -----------------------
(***************************************************************************)
(* The safety properties of ProducerConsumerBuf for every alloc_size, every*)
(* set of counts and every number of calls.  The data comes first: the     *)
(* blocks tile the unread part of the stream.  Everything else rests on it.*)
(***************************************************************************)
EXTENDS ProducerConsumerBuf, SequenceTheorems, TLAPS

\* Not only neighbours: a block ends before any later one begins.
BlocksOrdered ==
  \A i, j \in 1 .. Len(blocks) : i < j => blocks[i].end <= blocks[j].beg

DataType == /\ total \in Nat /\ total_read \in Nat /\ total_written \in Nat /\ synced \in Nat
            /\ blocks \in Seq(Block)

DataOK == DataType /\ BlocksTileStream /\ BlocksOrdered

\* A sequence is what it is indexed by and what it holds.
LEMMA SeqOf ==
  ASSUME NEW S, NEW n \in Nat, NEW s, s \in [1 .. n -> S]
  PROVE  s \in Seq(S) /\ Len(s) = n
  BY IsASeq, LenProperties

-----------------------------------------------------------------------------
\* update_read_head() keeps the data in order, whatever number of blocks it drops.
LEMMA ConsumeKeepsData ==
  ASSUME DataOK, NEW n \in 0 .. Avail, Consume(n)
  PROVE  /\ DataOK'
         /\ total' = total - n
         /\ total_read' = total_read + n
         /\ total_written' = total_written
         /\ synced' = Less(synced, n)
<1> DEFINE head == IF blocks = <<>> THEN 0 ELSE FrontBlock.beg + n
<1>1. PICK k \in 0 .. Len(blocks) :
        /\ \A i \in 1 .. k : blocks[i].end <= head
        /\ k < Len(blocks) => blocks[k + 1].end > head
        /\ blocks' = [i \in 1 .. Len(blocks) - k |->
                        [beg |-> Greatest(blocks[k + i].beg, head),
                         end |-> blocks[k + i].end, cap |-> blocks[k + i].cap]]
  BY DEF Consume
<1>2. /\ total' = total - n
      /\ total_read' = total_read + n
      /\ total_written' = total_written
      /\ synced' = Less(synced, n)
  BY DEF Consume
<1>3. Avail \in Nat /\ Avail = total /\ n \in Nat /\ n <= total
  BY DEF DataOK, DataType, BlocksTileStream
<1>4. total' \in Nat /\ total_read' \in Nat /\ total_written' \in Nat /\ synced' \in Nat
      /\ synced' <= total' /\ total_written' = total_read' + total'
  BY <1>2, <1>3, SMTT(40) DEF DataOK, DataType, BlocksTileStream, Less
<1>5. Len(blocks) \in Nat /\ \A i \in 1 .. Len(blocks) : blocks[i] \in Block
  BY DEF DataOK, DataType
<1>6. head \in Nat
  BY <1>3, <1>5 DEF FrontBlock, Block, DataOK, DataType
<1> HIDE DEF head
<1>0. Len(blocks) - k \in Nat /\ \A i \in 1 .. Len(blocks) - k : k + i \in 1 .. Len(blocks)
  BY <1>1, <1>5
<1>7. blocks' \in [1 .. Len(blocks) - k -> Block]
  <2>1. \A i \in 1 .. Len(blocks) - k :
          [beg |-> Greatest(blocks[k + i].beg, head), end |-> blocks[k + i].end,
           cap |-> blocks[k + i].cap] \in Block
    BY <1>0, <1>5, <1>6 DEF Block, Greatest
  <2> QED BY <2>1, <1>1
<1>8. blocks' \in Seq(Block) /\ Len(blocks') = Len(blocks) - k
  BY <1>0, <1>7, SeqOf
<1>9. \A i \in 1 .. Len(blocks') :
        /\ blocks'[i].end = blocks[k + i].end
        /\ blocks'[i].cap = blocks[k + i].cap
        /\ blocks'[i].beg = Greatest(blocks[k + i].beg, head)
        /\ k + i \in 1 .. Len(blocks)
  BY <1>1, <1>5, <1>8 DEF Block
<1>10. \A i \in 1 .. Len(blocks') : head < blocks'[i].end
  <2> TAKE i \in 1 .. Len(blocks')
  <2>1. k < Len(blocks) /\ k + 1 \in 1 .. Len(blocks) /\ blocks[k + 1].end > head
    BY <1>1, <1>5, <1>8
  <2>2. CASE i = 1
    BY <2>1, <2>2, <1>9
  <2>3. CASE i > 1
    <3>1. blocks[k + 1].end <= blocks[k + i].beg /\ blocks[k + i].beg <= blocks[k + i].end
      BY <2>1, <2>3, <1>1, <1>5, <1>8, <1>9 DEF DataOK, BlocksOrdered, BlocksTileStream
    <3> QED BY <3>1, <2>1, <1>5, <1>6, <1>9, SMTT(40) DEF Block
  <2> QED BY <2>2, <2>3, <1>8
<1>11. \A i \in 1 .. Len(blocks') :
         blocks'[i].beg = IF i = 1 THEN head ELSE blocks[k + i].beg
  <2> TAKE i \in 1 .. Len(blocks')
  <2>1. k < Len(blocks) /\ k + 1 \in 1 .. Len(blocks) /\ blocks # <<>>
        /\ 1 \in 1 .. Len(blocks)
    BY <1>1, <1>5, <1>8
  <2>2. CASE i = 1 /\ k = 0
    <3>1. blocks[1].beg \in Nat /\ head = blocks[1].beg + n
      BY <2>1, <1>5 DEF head, FrontBlock, Block
    <3>2. blocks'[1].beg = Greatest(blocks[1].beg, head)
      BY <2>2, <1>9, <1>8, <2>1
    <3> QED BY <3>1, <3>2, <2>2, <1>3 DEF Greatest
  <2>3. CASE i = 1 /\ k > 0
    <3>1. blocks[k].end = blocks[k + 1].beg /\ blocks[k].end <= head
      BY <2>1, <2>3, <1>1, <1>5 DEF DataOK, BlocksTileStream
    <3> QED BY <3>1, <2>1, <2>3, <1>5, <1>6, <1>9 DEF Greatest, Block
  <2>4. CASE i > 1
    <3>1. blocks[k + 1].end <= blocks[k + i].beg /\ head < blocks[k + 1].end
      BY <2>1, <2>4, <1>1, <1>5, <1>8, <1>9 DEF DataOK, BlocksOrdered
    <3>2. blocks[k + 1].end \in Nat /\ blocks[k + i].beg \in Nat
      BY <2>1, <1>5, <1>9 DEF Block
    <3>3. head <= blocks[k + i].beg
      BY <3>1, <3>2, <1>6
    <3>4. blocks'[i].beg = Greatest(blocks[k + i].beg, head)
      BY <1>9
    <3> QED BY <3>2, <3>3, <3>4, <2>4, <1>6 DEF Greatest
  <2> QED BY <2>2, <2>3, <2>4, <1>1, <1>8
<1>12. \A i \in 1 .. Len(blocks') :
         blocks'[i].beg <= blocks'[i].end /\ blocks'[i].end <= blocks'[i].cap
  <2> TAKE i \in 1 .. Len(blocks')
  <2>1. /\ k + i \in 1 .. Len(blocks)
        /\ blocks'[i].end = blocks[k + i].end /\ blocks'[i].cap = blocks[k + i].cap
        /\ blocks[k + i].beg <= blocks[k + i].end /\ blocks[k + i].end <= blocks[k + i].cap
    BY <1>9 DEF DataOK, BlocksTileStream
  <2>2. blocks[k + i].end \in Nat /\ head < blocks'[i].end
    BY <2>1, <1>5, <1>10 DEF Block
  <2> QED BY <2>1, <2>2, <1>6, <1>11
<1>13. \A i \in 1 .. Len(blocks') - 1 : blocks'[i].end = blocks'[i + 1].beg
  <2> TAKE i \in 1 .. Len(blocks') - 1
  <2>1. /\ i \in 1 .. Len(blocks') /\ i + 1 \in 1 .. Len(blocks') /\ i + 1 # 1
        /\ k + i \in 1 .. Len(blocks) - 1 /\ (k + i) + 1 = k + (i + 1)
    BY <1>1, <1>5, <1>8
  <2>2. blocks[k + i].end = blocks[(k + i) + 1].beg
    BY <2>1 DEF DataOK, BlocksTileStream
  <2> QED BY <2>1, <2>2, <1>9, <1>11
<1>14. \A i, j \in 1 .. Len(blocks') : i < j => blocks'[i].end <= blocks'[j].beg
  <2> TAKE i, j \in 1 .. Len(blocks')
  <2> HAVE i < j
  <2>1. k + i < k + j /\ j # 1
    BY <1>1, <1>8
  <2> QED BY <2>1, <1>9, <1>11 DEF DataOK, BlocksOrdered
<1>15. blocks' # <<>> => blocks'[1].beg = total_read' /\ blocks'[Len(blocks')].end = total_written'
  <2> HAVE blocks' # <<>>
  <2>1. 1 \in 1 .. Len(blocks') /\ Len(blocks') \in 1 .. Len(blocks')
        /\ k + Len(blocks') = Len(blocks) /\ blocks # <<>>
    BY <1>1, <1>5, <1>8
  <2>2. head = total_read + n /\ blocks[Len(blocks)].end = total_written
    BY <2>1 DEF DataOK, BlocksTileStream, FrontBlock, BackBlock, head
  <2> QED BY <2>1, <2>2, <1>2, <1>9, <1>11
<1>16. blocks' = <<>> => total' = 0
  <2> HAVE blocks' = <<>>
  <2>1. k = Len(blocks)
    BY <1>1, <1>5, <1>8
  <2>2. CASE blocks = <<>>
    BY <2>2, <1>2, <1>3 DEF Avail
  <2>3. CASE blocks # <<>>
    <3>1. Len(blocks) \in 1 .. k /\ blocks[Len(blocks)].end <= FrontBlock.beg + n
      BY <2>1, <2>3, <1>1, <1>5 DEF head
    <3>2. Avail = blocks[Len(blocks)].end - FrontBlock.beg
      BY <2>3 DEF Avail, BackBlock
    <3>3. FrontBlock.beg \in Nat /\ blocks[Len(blocks)].end \in Nat
      BY <2>3, <1>5 DEF FrontBlock, Block
    <3> QED BY <3>1, <3>2, <3>3, <1>2, <1>3
  <2> QED BY <2>2, <2>3
<1>17. total' = Avail'
  BY <1>4, <1>8, <1>15, <1>16 DEF Avail, FrontBlock, BackBlock
<1>18. DataOK'
  BY <1>4, <1>8, <1>12, <1>13, <1>14, <1>15, <1>17
     DEF DataOK, DataType, BlocksTileStream, BlocksOrdered, FrontBlock, BackBlock
<1> QED BY <1>2, <1>18

-----------------------------------------------------------------------------
\* A write leaves what is unread where it is, and may only add to the front block.
FrontKept ==
  blocks # <<>> => /\ blocks' # <<>>
                   /\ FrontBlock'.beg = FrontBlock.beg
                   /\ FrontBlock.end <= FrontBlock'.end

\* A block put at the back, of which n of the c bytes are written.
LEMMA AppendKeepsData ==
  ASSUME DataOK, NEW n \in Nat, NEW c \in Nat, n <= c,
         Extend(n, Append(blocks, [beg |-> total_written, end |-> total_written + n,
                                   cap |-> total_written + c]))
  PROVE  DataOK' /\ FrontKept
<1> DEFINE b == [beg |-> total_written, end |-> total_written + n, cap |-> total_written + c]
<1>1. /\ total \in Nat /\ total_read \in Nat /\ total_written \in Nat /\ synced \in Nat
      /\ total_written = total_read + total /\ synced <= total
      /\ blocks \in Seq(Block)
      /\ \A i \in 1 .. Len(blocks) : blocks[i] \in Block
  BY DEF DataOK, DataType, BlocksTileStream
<1>2. /\ blocks' = Append(blocks, b)
      /\ total' = total + n /\ total_written' = total_written + n
      /\ total_read' = total_read /\ synced' = synced
  BY DEF Extend
<1>3. /\ b \in Block
      /\ b.beg = total_written /\ b.end = total_written + n /\ b.cap = total_written + c
      /\ b.beg <= b.end /\ b.end <= b.cap
  BY <1>1 DEF Block
<1> HIDE DEF b
<1>4. /\ blocks' \in Seq(Block) /\ Len(blocks') = Len(blocks) + 1 /\ Len(blocks) \in Nat
      /\ \A i \in 1 .. Len(blocks) : blocks'[i] = blocks[i]
      /\ blocks'[Len(blocks) + 1] = b
  BY <1>1, <1>2, <1>3
<1>5. \A i \in 1 .. Len(blocks) : blocks[i].end <= total_written
  <2> TAKE i \in 1 .. Len(blocks)
  <2>1. Len(blocks) \in 1 .. Len(blocks) /\ blocks[Len(blocks)].end = total_written
    BY <1>4 DEF DataOK, BlocksTileStream, BackBlock
  <2>2. CASE i = Len(blocks)
    BY <2>1, <2>2, <1>1
  <2>3. CASE i < Len(blocks)
    <3>1. /\ blocks[i].end <= blocks[Len(blocks)].beg
          /\ blocks[Len(blocks)].beg <= blocks[Len(blocks)].end
      BY <2>1, <2>3 DEF DataOK, BlocksOrdered, BlocksTileStream
    <3>2. blocks[i] \in Block /\ blocks[Len(blocks)] \in Block
      BY <1>1, <2>1
    <3> QED BY <3>1, <3>2, <2>1, <1>1 DEF Block
  <2> QED BY <2>2, <2>3, <1>4
<1>6. \A i \in 1 .. Len(blocks') :
        blocks'[i].beg <= blocks'[i].end /\ blocks'[i].end <= blocks'[i].cap
  BY <1>3, <1>4 DEF DataOK, BlocksTileStream
<1>7. \A i \in 1 .. Len(blocks') - 1 : blocks'[i].end = blocks'[i + 1].beg
  BY <1>3, <1>4, SMTT(40) DEF DataOK, BlocksTileStream, BackBlock
<1>8. \A i, j \in 1 .. Len(blocks') : i < j => blocks'[i].end <= blocks'[j].beg
  <2> TAKE i, j \in 1 .. Len(blocks')
  <2> HAVE i < j
  <2>1. i \in 1 .. Len(blocks) /\ blocks'[i] = blocks[i]
    BY <1>4
  <2>2. CASE j = Len(blocks) + 1
    BY <2>1, <2>2, <1>3, <1>4, <1>5
  <2>3. CASE j \in 1 .. Len(blocks)
    BY <2>1, <2>3, <1>4 DEF DataOK, BlocksOrdered
  <2> QED BY <2>2, <2>3, <1>4
<1>9. /\ blocks' # <<>> /\ Len(blocks') \in Nat
      /\ blocks'[1].beg = total_read' /\ blocks'[Len(blocks')].end = total_written'
  <2>1. CASE blocks = <<>>
    <3>1. Len(blocks) = 0 /\ total = 0
      BY <2>1 DEF DataOK, BlocksTileStream, Avail
    <3>2. Len(blocks') = 1 /\ blocks'[1] = b /\ blocks'[Len(blocks')] = b /\ blocks' # <<>>
      BY <3>1, <1>4
    <3>3. total_read' = b.beg /\ total_written' = b.end
      BY <3>1, <1>1, <1>2, <1>3
    <3> QED BY <3>2, <3>3
  <2>2. CASE blocks # <<>>
    <3>1. 1 \in 1 .. Len(blocks) /\ blocks[1].beg = total_read
      BY <2>2, <1>4, <1>1 DEF DataOK, BlocksTileStream, FrontBlock
    <3>2. blocks'[1] = blocks[1] /\ blocks'[Len(blocks')] = b
      BY <3>1, <1>4
    <3> QED BY <3>1, <3>2, <1>2, <1>3, <1>4
  <2> QED BY <2>1, <2>2
<1>10. total' = Avail'
  <2>1. total_written' = total_read' + total'
    BY <1>1, <1>2
  <2>2. Avail' = total_written' - total_read'
    BY <1>9 DEF Avail, FrontBlock, BackBlock
  <2> QED BY <2>1, <2>2, <1>1, <1>2
<1>11. DataOK'
  BY <1>1, <1>2, <1>4, <1>6, <1>7, <1>8, <1>9, <1>10
     DEF DataOK, DataType, BlocksTileStream, BlocksOrdered, FrontBlock, BackBlock
<1>12. FrontKept
  <2> SUFFICES ASSUME blocks # <<>>
               PROVE  /\ blocks' # <<>>
                      /\ FrontBlock'.beg = FrontBlock.beg
                      /\ FrontBlock.end <= FrontBlock'.end
    BY DEF FrontKept
  <2>1. 1 \in 1 .. Len(blocks) /\ blocks[1] \in Block
    BY <1>1, <1>4
  <2> QED BY <2>1, <1>4, <1>9 DEF FrontBlock, Block
<1> QED BY <1>11, <1>12

\* n bytes written in the room left in the back block.
LEMMA GrowKeepsData ==
  ASSUME DataOK, NEW n \in Nat, blocks # <<>>, n <= BackBlock.cap - BackBlock.end,
         Extend(n, [blocks EXCEPT ![Len(blocks)].end = @ + n])
  PROVE  DataOK' /\ FrontKept
<1> DEFINE L == Len(blocks)
           b == [beg |-> BackBlock.beg, end |-> BackBlock.end + n, cap |-> BackBlock.cap]
<1>1. /\ total \in Nat /\ total_read \in Nat /\ total_written \in Nat /\ synced \in Nat
      /\ total_written = total_read + total /\ synced <= total
      /\ blocks \in Seq(Block) /\ blocks \in [1 .. L -> Block]
      /\ \A i \in 1 .. L : blocks[i] \in Block
  BY DEF DataOK, DataType, BlocksTileStream
<1>2. L \in Nat /\ L \in 1 .. L /\ 1 \in 1 .. L /\ BackBlock = blocks[L] /\ BackBlock \in Block
  BY <1>1 DEF BackBlock
<1>3. /\ blocks' = [blocks EXCEPT ![L] = b]
      /\ total' = total + n /\ total_written' = total_written + n
      /\ total_read' = total_read /\ synced' = synced
  <2>1. [blocks[L] EXCEPT !.end = blocks[L].end + n] = b
    BY <1>2 DEF Block
  <2>2. blocks' = [blocks EXCEPT ![L] = [blocks[L] EXCEPT !.end = blocks[L].end + n]]
    BY <1>1, <1>2 DEF Extend
  <2> QED BY <2>1, <2>2 DEF Extend
<1>4. /\ b \in Block
      /\ b.beg = blocks[L].beg /\ b.end = blocks[L].end + n /\ b.cap = blocks[L].cap
      /\ b.beg <= b.end /\ b.end <= b.cap
      /\ blocks[L].end <= b.end
  <2>1. blocks[L].beg <= blocks[L].end
    BY <1>2 DEF DataOK, BlocksTileStream
  <2>2. /\ blocks[L].beg \in Nat /\ blocks[L].end \in Nat /\ blocks[L].cap \in Nat
        /\ n <= blocks[L].cap - blocks[L].end
    BY <1>2 DEF Block
  <2>3. b.beg = blocks[L].beg /\ b.end = blocks[L].end + n /\ b.cap = blocks[L].cap
    BY <1>2
  <2> QED BY <2>1, <2>2, <2>3 DEF Block
<1> HIDE DEF b
<1>5. /\ blocks' \in [1 .. L -> Block]
      /\ \A i \in 1 .. L : blocks'[i] = IF i = L THEN b ELSE blocks[i]
  BY <1>1, <1>2, <1>3, <1>4
<1>6. blocks' \in Seq(Block) /\ Len(blocks') = L
  BY <1>2, <1>5, SeqOf
<1>7. \A i \in 1 .. L :
        blocks'[i].beg <= blocks'[i].end /\ blocks'[i].end <= blocks'[i].cap
  BY <1>4, <1>5 DEF DataOK, BlocksTileStream
<1>8. \A i \in 1 .. L : blocks'[i].beg = blocks[i].beg
  BY <1>4, <1>5
<1>9. \A i \in 1 .. L - 1 : blocks'[i].end = blocks'[i + 1].beg
  <2> TAKE i \in 1 .. L - 1
  <2>1. i \in 1 .. L /\ i + 1 \in 1 .. L /\ i # L
    BY <1>2
  <2> QED BY <2>1, <1>5, <1>8 DEF DataOK, BlocksTileStream
<1>10. \A i, j \in 1 .. L : i < j => blocks'[i].end <= blocks'[j].beg
  <2> TAKE i, j \in 1 .. L
  <2> HAVE i < j
  <2>1. i # L
    BY <1>2
  <2> QED BY <2>1, <1>5, <1>8 DEF DataOK, BlocksOrdered
<1>11. /\ blocks' # <<>>
       /\ blocks'[1].beg = total_read' /\ blocks'[L].end = total_written'
  BY <1>2, <1>3, <1>4, <1>5, <1>6, <1>8 DEF DataOK, BlocksTileStream, FrontBlock, BackBlock
<1>12. total' = Avail'
  BY <1>1, <1>3, <1>6, <1>11 DEF Avail, FrontBlock, BackBlock
<1>13. DataOK'
  BY <1>1, <1>3, <1>6, <1>7, <1>9, <1>10, <1>11, <1>12
     DEF DataOK, DataType, BlocksTileStream, BlocksOrdered, FrontBlock, BackBlock
<1>14. FrontKept
  <2>1. blocks[1].end <= blocks'[1].end
    <3>1. CASE L = 1
      <4>1. blocks'[1] = b /\ blocks[1] = blocks[L]
        BY <3>1, <1>2, <1>5
      <4> QED BY <4>1, <1>4
    <3>2. CASE L # 1
      <4>1. blocks'[1] = blocks[1]
        BY <3>2, <1>2, <1>5
      <4>2. blocks[1].end \in Nat
        BY <1>1, <1>2 DEF Block
      <4> QED BY <4>1, <4>2
    <3> QED BY <3>1, <3>2
  <2> QED BY <2>1, <1>2, <1>8, <1>11 DEF FrontKept, FrontBlock
<1> QED BY <1>13, <1>14

\* write(), whichever block it picks; with the stream closed at either end it does nothing.
LEMMA WriteKeepsData ==
  ASSUME DataOK, NEW n \in Nat, Write(n)
  PROVE  DataOK' /\ FrontKept
<1>1. CASE ~(can_write /\ can_read)
  <2>1. UNCHANGED <<counters, blocks>>
    BY <1>1 DEF Write
  <2>2. \A i \in 1 .. Len(blocks) : blocks[i] \in Block
    BY DEF DataOK, DataType
  <2>3. blocks # <<>> => FrontBlock \in Block
    BY <2>2 DEF FrontBlock, DataOK, DataType
  <2> QED BY <2>1, <2>3 DEF counters, DataOK, DataType, BlocksTileStream, BlocksOrdered, Avail,
                       FrontBlock, BackBlock, FrontKept, Block
<1>2. CASE can_write /\ can_read /\ (blocks = <<>> \/ BackBlock.cap - BackBlock.end < n)
  <2>1. Greatest(n, AllocSize) \in Nat /\ n <= Greatest(n, AllocSize)
    BY SizeAssumption DEF Greatest
  <2>2. Extend(n, Append(blocks, [beg |-> total_written, end |-> total_written + n,
                                  cap |-> total_written + Greatest(n, AllocSize)]))
    BY <1>2 DEF Write, BlocksWith
  <2> QED BY <2>1, <2>2, AppendKeepsData
<1>3. CASE can_write /\ can_read /\ ~(blocks = <<>> \/ BackBlock.cap - BackBlock.end < n)
  <2>1. BackBlock \in Block
    BY <1>3 DEF BackBlock, DataOK, DataType
  <2>2. n <= BackBlock.cap - BackBlock.end
    BY <2>1, <1>3 DEF Block
  <2>3. Extend(n, [blocks EXCEPT ![Len(blocks)].end = @ + n])
    BY <1>3 DEF Write, BlocksWith
  <2> QED BY <1>3, <2>2, <2>3, GrowKeepsData
<1> QED BY <1>1, <1>2, <1>3

-----------------------------------------------------------------------------
\* The other half of TypeOK.
ControlType ==
  /\ can_read \in BOOLEAN /\ can_write \in BOOLEAN /\ read_eof \in BOOLEAN
  /\ allocblock \in Nat \cup {None}
  /\ requests \in Seq(Request)
  /\ fulfilling \in BOOLEAN
  /\ tasks \in Seq(Task)
  /\ held \in Held
  /\ ops \in 0 .. MaxOps
  /\ calls \in [OpId -> Nat]

LEMMA TypeHalves == TypeOK <=> ControlType /\ DataType
  BY DEF TypeOK, ControlType, DataType

LEMMA AvailIsTotal == DataOK => Avail = total /\ Avail \in Nat
  BY DEF DataOK, DataType, BlocksTileStream

LEMMA HeadTypes ==
  ASSUME ControlType
  PROVE  /\ requests # <<>> => /\ Head(requests) \in Request /\ Tail(requests) \in Seq(Request)
                               /\ Head(requests).size \in Nat \ {0}
         /\ tasks # <<>> => /\ Head(tasks) \in Task /\ Tail(tasks) \in Seq(Task)
                            /\ Head(tasks).size \in Nat \ {0} /\ Head(tasks).id \in OpId
<1>1. requests # <<>> => Head(requests) \in Request /\ Tail(requests) \in Seq(Request)
  BY DEF ControlType
<1>2. tasks # <<>> => Head(tasks) \in Task /\ Tail(tasks) \in Seq(Task)
  BY DEF ControlType
<1> QED BY <1>1, <1>2 DEF Request, Task

\* DataOK is about these variables only.
LEMMA SameData ==
  ASSUME DataOK, UNCHANGED <<counters, blocks>>
  PROVE  DataOK'
  BY DEF DataOK, DataType, BlocksTileStream, BlocksOrdered, Avail, FrontBlock, BackBlock, counters

LEMMA ReadKeepsData ==
  ASSUME DataOK, NEW n \in Nat, Read(n)
  PROVE  /\ DataOK'
         /\ total' = total - Least(n, total)
         /\ total_read' = total_read + Least(n, total)
         /\ total_written' = total_written
         /\ synced' = Less(synced, Least(n, total))
<1>1. Least(n, Avail) \in 0 .. Avail /\ Avail = total
  BY AvailIsTotal DEF Least
<1>2. Consume(Least(n, Avail))
  BY DEF Read
<1> QED BY <1>1, <1>2, ConsumeKeepsData

\* What is in the front block is unread.
LEMMA FrontWithinAvail ==
  ASSUME DataOK, blocks # <<>>
  PROVE  /\ FrontBlock \in Block /\ FrontBlock.end - FrontBlock.beg \in Nat
         /\ FrontBlock.end - FrontBlock.beg <= Avail
<1>1. /\ Len(blocks) \in Nat /\ 1 \in 1 .. Len(blocks) /\ Len(blocks) \in 1 .. Len(blocks)
      /\ blocks[1] \in Block /\ blocks[Len(blocks)] \in Block
      /\ blocks[1].beg <= blocks[1].end
      /\ blocks[Len(blocks)].beg <= blocks[Len(blocks)].end
  BY DEF DataOK, DataType, BlocksTileStream
<1>2. blocks[1].end <= blocks[Len(blocks)].end
  <2>1. Len(blocks) > 1 => blocks[1].end <= blocks[Len(blocks)].beg
    BY <1>1 DEF DataOK, BlocksOrdered
  <2>2. CASE Len(blocks) = 1
    BY <2>2, <1>1 DEF Block
  <2>3. CASE Len(blocks) > 1
    BY <2>1, <2>3, <1>1 DEF Block
  <2> QED BY <2>2, <2>3, <1>1
<1> QED BY <1>1, <1>2 DEF FrontBlock, BackBlock, Avail, Block

\* A read that is completed queues one task, for the bytes that come off the front.
LEMMA CompleteKeepsTypes ==
  ASSUME ControlType, DataOK, NEW r \in Request, Complete(r)
  PROVE  /\ Read(r.size) /\ DataOK' /\ tasks' \in Seq(Task)
         /\ \E t \in Task : /\ tasks' = Append(tasks, t)
                            /\ t.what = "done" /\ t.id = r.id /\ t.count = Least(r.size, total)
                            /\ t.count > 0 => t.from = total_read
<1> DEFINE t == [what |-> "done", id |-> r.id, kind |-> r.kind, size |-> r.size,
                 gets |-> IF r.kind = "getn" /\ r.size > 1 THEN "count" ELSE "char",
                 from |-> IF blocks = <<>> THEN 0 ELSE FrontBlock.beg,
                 count |-> Least(r.size, Avail)]
<1>1. r.size \in Nat \ {0} /\ r.id \in OpId /\ r.kind \in ReadKind
  BY DEF Request
<1>2. Avail = total /\ total \in Nat /\ total_read \in Nat
  BY AvailIsTotal DEF DataOK, DataType
<1>3. Least(r.size, Avail) \in Nat
  BY <1>1, <1>2 DEF Least
<1>4. blocks # <<>> => FrontBlock.beg = total_read
  BY DEF DataOK, BlocksTileStream
<1>5. t \in Task
  BY <1>1, <1>2, <1>3, <1>4 DEF Task
<1>6. t.count > 0 => t.from = total_read
  <2>1. blocks = <<>> => Least(r.size, Avail) = 0
    BY <1>1 DEF Avail, Least
  <2> QED BY <2>1, <1>4
<1>7. Read(r.size) /\ tasks' = Append(tasks, t)
  BY DEF Complete
<1>8. t.what = "done" /\ t.id = r.id /\ t.count = Least(r.size, total)
  BY <1>2
<1> HIDE DEF t
<1>9. tasks' \in Seq(Task)
  BY <1>5, <1>7 DEF ControlType
<1>10. DataOK'
  BY <1>1, <1>7, ReadKeepsData
<1> QED BY <1>5, <1>6, <1>7, <1>8, <1>9, <1>10

\* A call that is queued, or refused, becomes a task.
LEMMA QueueKeepsTypes ==
  ASSUME ops + 1 \in OpId, NEW what \in {"write", "done"}, NEW kind \in ReadKind \cup WriteKind,
         NEW n \in Nat \ {0}, Queue(what, kind, n)
  PROVE  \E t \in Task : tasks' = Append(tasks, t) /\ t.id = ops + 1
<1> DEFINE t == [what |-> what, id |-> ops + 1, kind |-> kind, size |-> n,
                 gets |-> IF kind \in {"getn", "putn"} THEN "count" ELSE "char",
                 from |-> 0, count |-> 0]
<1>1. t \in Task
  BY DEF Task
<1>2. tasks' = Append(tasks, t) /\ t.id = ops + 1
  BY DEF Queue
<1> QED BY <1>1, <1>2

-----------------------------------------------------------------------------
\* The data and the types, at every step of the thread and its client.
TypedData == ControlType /\ DataOK

LEMMA TypedDataInit == Init => TypedData
<1> SUFFICES ASSUME Init PROVE TypedData
  OBVIOUS
<1>1. blocks = <<>> /\ Len(blocks) = 0 /\ blocks \in Seq(Block)
  BY DEF Init
<1>2. DataOK
  BY <1>1 DEF Init, DataOK, DataType, BlocksTileStream, BlocksOrdered, Avail
<1>3. ControlType
  <2>1. <<>> \in Seq(Request) /\ <<>> \in Seq(Task) /\ 0 \in 0 .. MaxOps
    BY SizeAssumption
  <2>2. NotHeld \in Held
    BY DEF Held, NotHeld, None
  <2>3. [id \in OpId |-> 0] \in [OpId -> Nat]
    OBVIOUS
  <2> QED BY <2>1, <2>2, <2>3 DEF Init, ControlType
<1> QED BY <1>2, <1>3 DEF TypedData

LEMMA TypedDataStep == TypedData /\ [Next]_vars => TypedData'
<1> SUFFICES ASSUME TypedData, [Next]_vars PROVE TypedData'
  OBVIOUS
<1> USE DEF TypedData
<1>1. CASE FulfillOne
  <2>1. Head(requests) \in Request /\ Tail(requests) \in Seq(Request)
    BY <1>1 DEF FulfillOne, ControlType
  <2>2. DataOK' /\ tasks' \in Seq(Task)
    BY <2>1, <1>1, CompleteKeepsTypes DEF FulfillOne
  <2> QED BY <2>1, <2>2, <1>1 DEF FulfillOne, ControlType, flags
<1>2. CASE FulfillEnds
  <2>1. DataOK'
    BY <1>2, SameData DEF FulfillEnds
  <2> QED BY <2>1, <1>2 DEF FulfillEnds, ControlType, flags
<1>3. CASE RunTask
  <2>1. Head(tasks) \in Task /\ Tail(tasks) \in Seq(Task)
    BY <1>3 DEF RunTask, ControlType
  <2>2. Head(tasks).size \in Nat /\ Head(tasks).id \in OpId
    BY <2>1 DEF Task
  <2>3. DataOK'
    BY <2>2, <1>3, WriteKeepsData, SameData DEF RunTask
  <2>4. fulfilling' \in BOOLEAN
    BY <1>3 DEF RunTask, Write, Extend, ControlType
  <2>5. calls' \in [OpId -> Nat]
    BY <2>2, <1>3 DEF RunTask, ControlType
  <2> QED BY <2>1, <2>3, <2>4, <2>5, <1>3 DEF RunTask, ControlType, flags
<1>4. ASSUME NewOp PROVE ops + 1 \in OpId /\ ops' \in 0 .. MaxOps
  BY <1>4, SizeAssumption DEF NewOp, OpId, ControlType
<1>5. ASSUME NEW kind \in WriteKind, NEW n \in Nat \ {0}, Put(kind, n) PROVE TypedData'
  <2>1. DataOK'
    BY <1>5, SameData DEF Put
  <2>2. \E t \in Task : tasks' = Append(tasks, t)
    <3>1. Queue(IF can_write THEN "write" ELSE "done", kind, n) /\ NewOp
      BY <1>5 DEF Put
    <3>2. (IF can_write THEN "write" ELSE "done") \in {"write", "done"}
      OBVIOUS
    <3> QED BY <3>1, <3>2, <1>4, QueueKeepsTypes
  <2>3. tasks' \in Seq(Task)
    BY <2>2 DEF ControlType
  <2> QED BY <2>1, <2>3, <1>4, <1>5 DEF Put, ControlType, flags
<1>6. ASSUME NEW kind \in ReadKind, NEW n \in Nat \ {0}, Get(kind, n) PROVE TypedData'
  <2> DEFINE r == [id |-> ops + 1, kind |-> kind, size |-> n]
  <2>1. r \in Request
    BY <1>4, <1>6 DEF Get, Request
  <2>2. DataOK' /\ tasks' \in Seq(Task) /\ requests' \in Seq(Request)
    <3>1. CASE ~can_read
      <4>1. Queue("done", kind, n) /\ NewOp /\ UNCHANGED <<counters, blocks, requests>>
        BY <3>1, <1>6 DEF Get
      <4>2. \E t \in Task : tasks' = Append(tasks, t) /\ t.id = ops + 1
        BY <4>1, <1>4, QueueKeepsTypes
      <4> QED BY <4>1, <4>2, SameData DEF ControlType
    <3>2. CASE can_read /\ CanSatisfy(n)
      <4>1. Complete(r) /\ UNCHANGED requests
        BY <3>2, <1>6 DEF Get
      <4> HIDE DEF r
      <4> QED BY <4>1, <2>1, CompleteKeepsTypes DEF ControlType
    <3>3. CASE can_read /\ ~CanSatisfy(n)
      <4>1. requests' = Append(requests, r) /\ UNCHANGED <<counters, blocks, tasks>>
        BY <3>3, <1>6 DEF Get
      <4> HIDE DEF r
      <4> QED BY <4>1, <2>1, SameData DEF ControlType
    <3> QED BY <3>1, <3>2, <3>3
  <2> QED BY <2>2, <1>4, <1>6 DEF Get, ControlType, flags
<1>7. ASSUME NEW n \in Nat \ {0}, Sgetn(n) PROVE TypedData'
  <2>1. DataOK'
    BY <1>7, ReadKeepsData DEF Sgetn
  <2> QED BY <2>1, <1>7 DEF Sgetn, ControlType, flags
<1>8. ASSUME NEW advance \in BOOLEAN, SyncChar(advance) PROVE TypedData'
  <2>1. DataOK'
    BY <1>8, ReadKeepsData, SameData DEF SyncChar
  <2>2. read_eof' \in BOOLEAN
    BY <1>8 DEF SyncChar, AtEnd, CanSatisfy
  <2> QED BY <2>1, <2>2, <1>8 DEF SyncChar, ControlType
<1>9. CASE Sync
  <2>1. /\ total \in Nat /\ total' = total /\ total_read' = total_read
        /\ total_written' = total_written /\ blocks' = blocks /\ synced' = total
    BY <1>9 DEF Sync, DataOK, DataType
  <2>2. DataOK'
    BY <2>1 DEF DataOK, DataType, BlocksTileStream, BlocksOrdered, Avail, FrontBlock, BackBlock
  <2> QED BY <2>2, <1>9 DEF Sync, ControlType, flags
<1>10. ASSUME NEW n \in Nat \ {0}, Alloc(n) PROVE TypedData'
  <2>1. DataOK'
    BY <1>10, SameData DEF Alloc
  <2> QED BY <2>1, <1>4, <1>10 DEF Alloc, ControlType, flags
<1>11. ASSUME allocblock # None, NEW n \in 0 .. allocblock, Commit(n) PROVE TypedData'
  <2>1. allocblock \in Nat /\ n \in Nat /\ n <= allocblock
    BY <1>11 DEF ControlType
  <2>2. DataOK'
    BY <2>1, <1>11, AppendKeepsData DEF Commit
  <2> QED BY <2>2, <1>11 DEF Commit, Extend, ControlType, flags
<1>12. CASE Acquire
  <2>1. DataOK'
    BY <1>12, SameData DEF Acquire
  <2>2. blocks # <<>> /\ held' = [at |-> FrontBlock.beg, count |-> FrontBlock.end - FrontBlock.beg]
    BY <1>12 DEF Acquire, AcquireResult
  <2>3. blocks \in Seq(Block) /\ 1 \in 1 .. Len(blocks) /\ FrontBlock \in Block
    BY <2>2 DEF DataOK, DataType, FrontBlock
  <2>4. FrontBlock.beg <= FrontBlock.end
    BY <2>3 DEF DataOK, BlocksTileStream, FrontBlock
  <2>5. held' \in Held
    BY <2>2, <2>3, <2>4 DEF Held, Block
  <2> QED BY <2>1, <2>5, <1>12 DEF Acquire, ControlType, flags
<1>13. ASSUME held.at # None, NEW n \in 0 .. held.count, Release(n) PROVE TypedData'
  <2>1. n \in Nat
    BY <1>13 DEF ControlType, Held
  <2>2. DataOK'
    <3>1. CASE can_write
      <4>1. blocks # <<>> /\ n <= FrontBlock.end - FrontBlock.beg /\ Consume(n)
        BY <3>1, <1>13 DEF Release
      <4>2. n <= Avail
        BY <4>1, <2>1, FrontWithinAvail, AvailIsTotal
      <4> QED BY <4>1, <4>2, <2>1, AvailIsTotal, ConsumeKeepsData
    <3>2. CASE ~can_write
      BY <3>2, <1>13, SameData DEF Release
    <3> QED BY <3>1, <3>2
  <2>3. held' \in Held
    BY <1>13 DEF Release, NotHeld, Held, None
  <2> QED BY <2>2, <2>3, <1>13 DEF Release, ControlType, flags
<1>14. ASSUME NEW mode, Close(mode) PROVE TypedData'
  <2>1. DataOK'
    BY <1>14, SameData DEF Close
  <2> QED BY <2>1, <1>14 DEF Close, ControlType
<1>15. CASE UNCHANGED vars
  <2>1. DataOK'
    BY <1>15, SameData DEF vars
  <2> QED BY <2>1, <1>15 DEF vars, flags, ControlType
<1> QED
  BY <1>1, <1>2, <1>3, <1>5, <1>6, <1>7, <1>8, <1>9, <1>10, <1>11, <1>12, <1>13, <1>14, <1>15,
     SizeAssumption DEF Next, Fulfill, ReadKind, WriteKind

\* The type of every variable, for every alloc_size and all counts.
THEOREM TypeCorrect == Spec => []TypeOK
<1>1. TypedData => TypeOK
  BY TypeHalves DEF TypedData, DataOK
<1> QED BY <1>1, TypedDataInit, TypedDataStep, PTL DEF Spec

\* The blocks hold the unread part of the stream, each byte once and in order, and the
\* counters agree with them (update_write_head, update_read_head, write, read).
THEOREM BlocksTileStreamCorrect == Spec => []BlocksTileStream
<1>1. TypedData => BlocksTileStream
  BY DEF TypedData, DataOK
<1> QED BY <1>1, TypedDataInit, TypedDataStep, PTL DEF Spec

-----------------------------------------------------------------------------
\* A read never makes a read that waits possible, nor does giving bytes back.
LEMMA ConsumeShrinks ==
  ASSUME DataOK, NEW n \in 0 .. Avail, Consume(n)
  PROVE  /\ total \in Nat /\ total' \in Nat /\ total' <= total
         /\ synced \in Nat /\ synced' \in Nat /\ synced' <= synced
         /\ total_read \in Nat /\ total_read' = total_read + n
<1>1. /\ total' = total - n /\ total_read' = total_read + n /\ synced' = Less(synced, n)
      /\ n \in Nat /\ n <= total /\ total \in Nat /\ synced \in Nat /\ total_read \in Nat
  BY AvailIsTotal, ConsumeKeepsData DEF DataOK, DataType
<1> QED BY <1>1 DEF Less

LEMMA ReadShrinks ==
  ASSUME DataOK, NEW n \in Nat, Read(n)
  PROVE  /\ total \in Nat /\ total' \in Nat /\ total' <= total
         /\ synced \in Nat /\ synced' \in Nat /\ synced' <= synced
         /\ total_read \in Nat /\ total_read' = total_read + Least(n, total)
<1>1. Least(n, Avail) \in 0 .. Avail /\ Avail = total
  BY AvailIsTotal DEF Least
<1> QED BY <1>1, ConsumeShrinks DEF Read

\* What release() gives back is in the front block.
LEMMA ReleaseConsumes ==
  ASSUME TypedData, NEW n \in 0 .. held.count, Release(n), can_write
  PROVE  n \in 0 .. Avail /\ Consume(n)
<1>1. blocks # <<>> /\ n <= FrontBlock.end - FrontBlock.beg /\ Consume(n)
  BY DEF Release
<1>2. n \in Nat
  BY DEF TypedData, ControlType, Held
<1> QED BY <1>1, <1>2, FrontWithinAvail, AvailIsTotal DEF TypedData

LEMMA NoMissedStep == TypedData /\ NoMissedFulfilment /\ [Next]_vars => NoMissedFulfilment'
<1> SUFFICES ASSUME TypedData, NoMissedFulfilment, [Next]_vars, ~fulfilling', requests' # <<>>
             PROVE  ~CanSatisfy(Head(requests).size)'
  BY DEF NoMissedFulfilment
<1> DEFINE Kept == /\ requests # <<>> /\ Head(requests') = Head(requests)
                   /\ UNCHANGED <<can_write, fulfilling>>
<1>1. /\ DataOK /\ total \in Nat /\ synced \in Nat
      /\ requests # <<>> => Head(requests) \in Request /\ Head(requests).size \in Nat
  BY HeadTypes DEF TypedData, DataOK, DataType
<1>2. ASSUME Kept, total' \in Nat, total' <= total, synced' \in Nat, synced' <= synced
      PROVE  ~CanSatisfy(Head(requests).size)'
  BY <1>1, <1>2 DEF NoMissedFulfilment, CanSatisfy
<1>3. ASSUME Kept, UNCHANGED <<total, synced>>
      PROVE  ~CanSatisfy(Head(requests).size)'
  BY <1>1, <1>2, <1>3
<1>4. CASE FulfillOne
  BY <1>4 DEF FulfillOne
<1>5. CASE FulfillEnds
  BY <1>5 DEF FulfillEnds, CanSatisfy, flags, counters
<1>6. CASE RunTask
  BY <1>3, <1>6 DEF RunTask, Write, Extend, flags, counters
<1>7. ASSUME NEW kind, NEW n, Put(kind, n) PROVE ~CanSatisfy(Head(requests).size)'
  BY <1>3, <1>7 DEF Put, flags, counters
<1>8. ASSUME NEW kind, NEW n \in Nat, Get(kind, n) PROVE ~CanSatisfy(Head(requests).size)'
  <2> DEFINE r == [id |-> ops + 1, kind |-> kind, size |-> n]
  <2>1. CASE UNCHANGED <<counters, requests>>
    BY <1>3, <1>8, <2>1 DEF Get, flags, counters
  <2>2. CASE Complete(r) /\ UNCHANGED requests
    <3>1. Read(n)
      BY <2>2 DEF Complete
    <3> QED BY <1>1, <1>2, <1>8, <2>2, <3>1, ReadShrinks DEF Get, flags
  <2>3. CASE ~CanSatisfy(n) /\ requests' = Append(requests, r) /\ UNCHANGED counters
    <3>1. CASE requests = <<>>
      <4>1. Head(requests').size = n
        BY <2>3, <3>1
      <4> QED BY <4>1, <2>3, <1>8 DEF CanSatisfy, Get, flags, counters
    <3>2. CASE requests # <<>>
      <4>1. Head(requests') = Head(requests)
        BY <2>3, <3>2 DEF TypedData, ControlType
      <4> QED BY <4>1, <1>3, <1>8, <2>3, <3>2 DEF Get, flags, counters
    <3> QED BY <3>1, <3>2
  <2> QED BY <1>8, <2>1, <2>2, <2>3 DEF Get
<1>9. ASSUME NEW n \in Nat, Sgetn(n) PROVE ~CanSatisfy(Head(requests).size)'
  BY <1>1, <1>2, <1>9, ReadShrinks DEF Sgetn, flags
<1>10. ASSUME NEW advance, SyncChar(advance) PROVE ~CanSatisfy(Head(requests).size)'
  <2>1. Read(1) \/ UNCHANGED counters
    BY <1>10 DEF SyncChar
  <2> QED BY <2>1, <1>1, <1>2, <1>3, <1>10, ReadShrinks DEF SyncChar, counters
<1>11. CASE Sync
  BY <1>11 DEF Sync
<1>12. ASSUME NEW n, Alloc(n) PROVE ~CanSatisfy(Head(requests).size)'
  BY <1>3, <1>12 DEF Alloc, flags, counters
<1>13. ASSUME NEW n, Commit(n) PROVE ~CanSatisfy(Head(requests).size)'
  BY <1>13 DEF Commit, Extend
<1>14. CASE Acquire
  BY <1>3, <1>14 DEF Acquire, flags, counters
<1>15. ASSUME NEW n \in 0 .. held.count, Release(n) PROVE ~CanSatisfy(Head(requests).size)'
  <2>1. can_write => Kept /\ total' \in Nat /\ total' <= total /\ synced' \in Nat /\ synced' <= synced
    BY <1>1, <1>15, ReleaseConsumes, ConsumeShrinks DEF Release, flags
  <2>2. ~can_write => Kept /\ UNCHANGED <<total, synced>>
    BY <1>15 DEF Release, flags, counters
  <2> QED BY <2>1, <2>2, <1>2, <1>3
<1>16. ASSUME NEW mode, Close(mode) PROVE ~CanSatisfy(Head(requests).size)'
  <2>1. can_write => UNCHANGED can_write
    BY <1>16 DEF Close, TypedData, ControlType
  <2>2. ~can_write => requests = <<>>
    BY <1>16 DEF Close, NoMissedFulfilment, CanSatisfy
  <2>3. can_write => Kept
    BY <2>1, <1>16 DEF Close, TypedData, ControlType
  <2> QED BY <2>2, <2>3, <1>3, <1>16 DEF Close, counters
<1>17. CASE UNCHANGED vars
  BY <1>3, <1>17 DEF vars, flags, counters
<1> QED
  BY <1>4, <1>5, <1>6, <1>7, <1>8, <1>9, <1>10, <1>11, <1>12, <1>13, <1>14, <1>15, <1>16, <1>17,
     SizeAssumption DEF Next, Fulfill

\* When fulfill_outstanding() is not running, the oldest read that waits could not be
\* answered now: no write, flush, close, read or release forgets it.
THEOREM NoMissedFulfilmentCorrect == Spec => []NoMissedFulfilment
<1>1. Init => NoMissedFulfilment
  BY DEF Init, NoMissedFulfilment
<1> QED BY <1>1, NoMissedStep, TypedDataInit, TypedDataStep, PTL DEF Spec

-----------------------------------------------------------------------------
LEMMA EofStep == TypedData /\ EofIsFinal /\ [Next]_vars => EofIsFinal'
<1> SUFFICES ASSUME TypedData, EofIsFinal, [Next]_vars, read_eof'
             PROVE  ~can_write' /\ total' = 0
  BY DEF EofIsFinal
<1> DEFINE Kept == UNCHANGED <<read_eof, can_write>>
<1>1. DataOK /\ total \in Nat /\ synced \in Nat /\ synced <= total
  BY DEF TypedData, DataOK, DataType, BlocksTileStream
<1>2. ASSUME Kept, NEW n \in Nat, Read(n) PROVE ~can_write' /\ total' = 0
  BY <1>1, <1>2, ReadShrinks DEF EofIsFinal
<1>3. ASSUME Kept, UNCHANGED total PROVE ~can_write' /\ total' = 0
  BY <1>3 DEF EofIsFinal
<1>4. ASSUME Kept, can_write PROVE FALSE
  BY <1>4 DEF EofIsFinal
<1>5. CASE FulfillOne
  <2>1. Head(requests).size \in Nat
    BY <1>5, HeadTypes DEF FulfillOne, TypedData
  <2> QED BY <2>1, <1>1, <1>5, ReadShrinks DEF FulfillOne, Complete, flags, EofIsFinal
<1>6. CASE FulfillEnds
  BY <1>3, <1>6 DEF FulfillEnds, flags, counters
<1>7. CASE RunTask
  BY <1>3, <1>4, <1>7 DEF RunTask, Write, flags, counters
<1>8. ASSUME NEW kind, NEW n, Put(kind, n) PROVE ~can_write' /\ total' = 0
  BY <1>3, <1>8 DEF Put, flags, counters
<1>9. ASSUME NEW kind, NEW n \in Nat, Get(kind, n) PROVE ~can_write' /\ total' = 0
  <2>1. Read(n) \/ UNCHANGED counters
    BY <1>9 DEF Get, Complete
  <2> QED BY <2>1, <1>2, <1>3, <1>9 DEF Get, flags, counters
<1>10. ASSUME NEW n \in Nat, Sgetn(n) PROVE ~can_write' /\ total' = 0
  BY <1>2, <1>10 DEF Sgetn, flags
<1>11. ASSUME NEW advance, SyncChar(advance) PROVE ~can_write' /\ total' = 0
  <2>1. AtEnd /\ (Read(1) \/ UNCHANGED counters) /\ UNCHANGED can_write
    BY <1>11 DEF SyncChar
  <2>2. total = 0 /\ ~can_write
    BY <2>1, <1>1, AvailIsTotal DEF AtEnd, CanSatisfy
  <2> QED BY <2>1, <2>2, <1>1, ReadShrinks DEF counters
<1>12. CASE Sync
  BY <1>4, <1>12 DEF Sync, flags
<1>13. ASSUME NEW n, Alloc(n) PROVE ~can_write' /\ total' = 0
  BY <1>3, <1>13 DEF Alloc, flags, counters
<1>14. ASSUME NEW n, Commit(n) PROVE ~can_write' /\ total' = 0
  BY <1>4, <1>14 DEF Commit, flags
<1>15. CASE Acquire
  BY <1>3, <1>15 DEF Acquire, flags, counters
<1>16. ASSUME NEW n, Release(n) PROVE ~can_write' /\ total' = 0
  BY <1>3, <1>4, <1>16 DEF Release, flags, counters
<1>17. ASSUME NEW mode, Close(mode) PROVE ~can_write' /\ total' = 0
  BY <1>17 DEF Close, EofIsFinal, counters
<1>18. CASE UNCHANGED vars
  BY <1>3, <1>18 DEF vars, flags, counters
<1> QED
  BY <1>5, <1>6, <1>7, <1>8, <1>9, <1>10, <1>11, <1>12, <1>13, <1>14, <1>15, <1>16, <1>17, <1>18,
     SizeAssumption DEF Next, Fulfill

\* is_eof() is never reported early: once it is, nothing can be read or written again.
THEOREM EofIsFinalCorrect == Spec => []EofIsFinal
<1>1. Init => EofIsFinal
  BY DEF Init, EofIsFinal
<1> QED BY <1>1, EofStep, TypedDataInit, TypedDataStep, PTL DEF Spec

-----------------------------------------------------------------------------
\* What is held was at the front when it was acquired.
HeldBehind == held.at <= total_read

Acquired == HeldBehind /\ AcquiredDataStays

LEMMA AcquiredStep == TypedData /\ Acquired /\ [Next]_vars => Acquired'
<1> SUFFICES ASSUME TypedData, Acquired, [Next]_vars PROVE Acquired'
  OBVIOUS
<1>1. /\ DataOK /\ total \in Nat /\ total_read \in Nat /\ synced \in Nat /\ synced <= total
      /\ held.at \in Int /\ held.count \in Nat
  BY DEF TypedData, DataOK, DataType, BlocksTileStream, ControlType, Held, None
<1>2. ASSUME UNCHANGED <<held, blocks, total_read>>, can_write' => can_write PROVE Acquired'
  BY <1>2 DEF Acquired, HeldBehind, AcquiredDataStays, FrontBlock
<1>3. ASSUME UNCHANGED held, NEW n \in Nat, Read(n), ~can_write' \/ 0 < Least(n, total)
      PROVE  Acquired'
  <2>1. total_read' = total_read + Least(n, total) /\ Least(n, total) \in Nat
    BY <1>1, <1>3, ReadShrinks DEF Least
  <2> QED BY <2>1, <1>1, <1>3 DEF Acquired, HeldBehind, AcquiredDataStays
<1>4. ASSUME NEW n \in Nat \ {0}, CanSatisfy(n), UNCHANGED can_write
      PROVE  ~can_write' \/ 0 < Least(n, total)
  BY <1>1, <1>4 DEF CanSatisfy, Least
<1>5. ASSUME UNCHANGED <<held, total_read, can_write>>, FrontKept PROVE Acquired'
  <2>1. HeldBehind'
    BY <1>5 DEF Acquired, HeldBehind
  <2>2. ASSUME can_write', held.at' = total_read' PROVE
          /\ blocks' # <<>> /\ FrontBlock'.beg = held.at
          /\ held.count <= FrontBlock'.end - FrontBlock'.beg
    <3>1. blocks # <<>> /\ FrontBlock.beg = held.at /\ held.count <= FrontBlock.end - FrontBlock.beg
      BY <2>2, <1>5 DEF Acquired, AcquiredDataStays
    <3>2. blocks' # <<>> /\ FrontBlock'.beg = FrontBlock.beg /\ FrontBlock.end <= FrontBlock'.end
      BY <3>1, <1>5 DEF FrontKept
    <3>3. FrontBlock.end \in Nat /\ FrontBlock'.end \in Nat /\ FrontBlock.beg \in Nat
      <4>1. FrontBlock \in Block
        BY <3>1, <1>1, FrontWithinAvail
      <4>2. blocks' \in Seq(Block) /\ blocks' # <<>>
        BY <3>2, TypedDataStep DEF TypedData, DataOK, DataType
      <4>3. FrontBlock' \in Block
        <5>1. 1 \in 1 .. Len(blocks') /\ blocks'[1] \in Block
          BY <4>2
        <5> QED BY <5>1 DEF FrontBlock, Block
      <4> QED BY <4>1, <4>3 DEF Block
    <3> QED BY <3>1, <3>2, <3>3, <1>1
  <2> QED BY <2>1, <2>2, <1>5 DEF Acquired, AcquiredDataStays
<1>6. CASE FulfillOne
  <2>1. Head(requests).size \in Nat \ {0}
    BY <1>6, HeadTypes DEF FulfillOne, TypedData
  <2>2. Read(Head(requests).size) /\ CanSatisfy(Head(requests).size) /\ UNCHANGED <<held, can_write>>
    BY <1>6 DEF FulfillOne, Complete, flags
  <2> QED BY <2>1, <2>2, <1>3, <1>4
<1>7. CASE FulfillEnds
  BY <1>2, <1>7 DEF FulfillEnds, flags, counters
<1>8. CASE RunTask
  <2>1. CASE Write(Head(tasks).size)
    <3>1. Head(tasks).size \in Nat
      BY <1>8, HeadTypes DEF RunTask, TypedData
    <3>2. FrontKept
      BY <2>1, <3>1, <1>1, WriteKeepsData
    <3>3. UNCHANGED total_read
      BY <2>1 DEF Write, Extend, counters
    <3> QED BY <3>2, <3>3, <1>5, <1>8 DEF RunTask, flags
  <2>2. CASE UNCHANGED <<counters, blocks>>
    BY <2>2, <1>2, <1>8 DEF RunTask, flags, counters
  <2> QED BY <2>1, <2>2, <1>8 DEF RunTask
<1>9. ASSUME NEW kind, NEW n, Put(kind, n) PROVE Acquired'
  BY <1>2, <1>9 DEF Put, flags, counters
<1>10. ASSUME NEW kind, NEW n \in Nat \ {0}, Get(kind, n) PROVE Acquired'
  <2>1. (CanSatisfy(n) /\ Read(n)) \/ UNCHANGED <<counters, blocks>>
    BY <1>10 DEF Get, Complete
  <2> QED BY <2>1, <1>2, <1>3, <1>4, <1>10 DEF Get, flags, counters
<1>11. ASSUME NEW n \in Nat \ {0}, Sgetn(n) PROVE Acquired'
  BY <1>3, <1>4, <1>11 DEF Sgetn, flags
<1>12. ASSUME NEW advance, SyncChar(advance) PROVE Acquired'
  <2>1. (CanSatisfy(1) /\ Read(1)) \/ UNCHANGED <<counters, blocks>>
    BY <1>12 DEF SyncChar
  <2> QED BY <2>1, <1>2, <1>3, <1>4, <1>12 DEF SyncChar, counters
<1>13. CASE Sync
  BY <1>2, <1>13 DEF Sync, flags
<1>14. ASSUME NEW n, Alloc(n) PROVE Acquired'
  BY <1>2, <1>14 DEF Alloc, flags, counters
<1>15. ASSUME allocblock # None, NEW n \in 0 .. allocblock, Commit(n) PROVE Acquired'
  <2>1. allocblock \in Nat /\ n \in Nat /\ n <= allocblock
    BY <1>15 DEF TypedData, ControlType
  <2>2. FrontKept
    BY <2>1, <1>1, <1>15, AppendKeepsData DEF Commit
  <2> QED BY <2>2, <1>5, <1>15 DEF Commit, Extend, flags
<1>16. CASE Acquire
  <2>1. /\ blocks # <<>> /\ UNCHANGED <<blocks, total_read>>
        /\ held' = [at |-> FrontBlock.beg, count |-> FrontBlock.end - FrontBlock.beg]
    BY <1>16 DEF Acquire, AcquireResult, counters
  <2>2. FrontBlock.beg = total_read /\ FrontBlock.end - FrontBlock.beg \in Nat
    BY <2>1, <1>1, FrontWithinAvail DEF DataOK, BlocksTileStream
  <2> QED BY <2>1, <2>2, <1>1 DEF Acquired, HeldBehind, AcquiredDataStays, FrontBlock
<1>17. ASSUME NEW n, Release(n) PROVE Acquired'
  <2>1. held' = NotHeld
    BY <1>17 DEF Release
  <2>2. total_read' \in Nat
    BY TypedDataStep DEF TypedData, DataOK, DataType
  <2> QED BY <2>1, <2>2 DEF NotHeld, None, Acquired, HeldBehind, AcquiredDataStays
<1>18. ASSUME NEW mode, Close(mode) PROVE Acquired'
  BY <1>2, <1>18 DEF Close, counters
<1>19. CASE UNCHANGED vars
  BY <1>2, <1>19 DEF vars, flags, counters
<1> QED
  BY <1>6, <1>7, <1>8, <1>9, <1>10, <1>11, <1>12, <1>13, <1>14, <1>15, <1>16, <1>17, <1>18, <1>19,
     SizeAssumption DEF Next, Fulfill

\* What acquire() returned stays whole at the front until the read head moves.
THEOREM AcquiredDataStaysCorrect == Spec => []AcquiredDataStays
<1>1. Init => Acquired
  BY DEF Init, Acquired, HeldBehind, AcquiredDataStays, NotHeld, None
<1>2. Acquired => AcquiredDataStays
  BY DEF Acquired
<1> QED BY <1>1, <1>2, AcquiredStep, TypedDataInit, TypedDataStep, PTL DEF Spec

-----------------------------------------------------------------------------
LEMMA ElementTypes ==
  ASSUME TypedData
  PROVE  /\ ops \in Nat /\ Len(requests) \in Nat /\ Len(tasks) \in Nat
         /\ \A i \in 1 .. Len(requests) : requests[i].id \in OpId
         /\ \A i \in 1 .. Len(tasks) : tasks[i].id \in OpId
<1>1. /\ ops \in Nat /\ Len(requests) \in Nat /\ Len(tasks) \in Nat
      /\ \A i \in 1 .. Len(requests) : requests[i] \in Request
      /\ \A i \in 1 .. Len(tasks) : tasks[i] \in Task
  BY SizeAssumption DEF TypedData, ControlType
<1> QED BY <1>1 DEF Request, Task

LEMMA NewId ==
  ASSUME TypedData, NewOp
  PROVE  ops' = ops + 1 /\ ops + 1 \in OpId
  BY SizeAssumption DEF NewOp, OpId, TypedData, ControlType

\* The steps that touch the requests, the tasks and the handlers called.
LEMMA HandlerSteps ==
  ASSUME [Next]_vars
  PROVE  \/ FulfillOne \/ RunTask
         \/ \E kind, n : Put(kind, n)
         \/ \E kind \in ReadKind, n \in Nat \ {0} : Get(kind, n)
         \/ \E n : Alloc(n)
         \/ UNCHANGED <<requests, tasks, calls, ops>>
<1> DEFINE Same == UNCHANGED <<requests, tasks, calls, ops>>
<1>1. /\ FulfillEnds => Same
      /\ Sync => Same
      /\ Acquire => Same
      /\ UNCHANGED vars => Same
  BY DEF FulfillEnds, Sync, Acquire, vars
<1>2. /\ \A n : Sgetn(n) => Same
      /\ \A n : Commit(n) => Same
      /\ \A n : Release(n) => Same
  BY DEF Sgetn, Commit, Release
<1>3. /\ \A advance : SyncChar(advance) => Same
      /\ \A mode : Close(mode) => Same
  BY DEF SyncChar, Close
<1>4. "getn" \in ReadKind /\ "bumpc" \in ReadKind /\ ReadSizes \subseteq Nat \ {0} /\ 1 \in Nat \ {0}
  BY SizeAssumption DEF ReadKind
<1>5. ASSUME NEW kind, NEW n, n \in Nat \ {0}, Get(kind, n), kind \in ReadKind
      PROVE  \E k \in ReadKind, m \in Nat \ {0} : Get(k, m)
  BY <1>5
<1> HIDE DEF Same
<1> SUFFICES ASSUME ~Same, Next
             PROVE  \/ FulfillOne \/ RunTask
                    \/ \E kind, n : Put(kind, n)
                    \/ \E kind \in ReadKind, n \in Nat \ {0} : Get(kind, n)
                    \/ \E n : Alloc(n)
  BY <1>1 DEF Same
<1> QED BY <1>1, <1>2, <1>3, <1>4, <1>5 DEF Next, Fulfill

-----------------------------------------------------------------------------
\* Each handler is given the bytes that follow the last byte any reader took, and the read
\* head moves past exactly those.
LEMMA ReadsFollowStep ==
  ASSUME TypedData, [Next]_vars,
         NEW i \in (1 .. Len(tasks')) \ (1 .. Len(tasks)),
         tasks'[i].what = "done", tasks'[i].count > 0
  PROVE  /\ tasks'[i].from = total_read
         /\ total_read' = total_read + tasks'[i].count
<1> DEFINE Goal == /\ tasks'[i].from = total_read
                   /\ total_read' = total_read + tasks'[i].count
<1>1. tasks \in Seq(Task) /\ Len(tasks) \in Nat /\ tasks' # tasks
  BY DEF TypedData, ControlType
<1>2. ASSUME NEW t, tasks' = Append(tasks, t) PROVE tasks'[i] = t
  BY <1>1, <1>2
<1>3. ASSUME NEW r \in Request, Complete(r) PROVE Goal
  <2>1. PICK t \in Task : /\ tasks' = Append(tasks, t)
                          /\ t.what = "done" /\ t.id = r.id /\ t.count = Least(r.size, total)
                          /\ t.count > 0 => t.from = total_read
    BY <1>3, CompleteKeepsTypes DEF TypedData
  <2>2. total_read' = total_read + Least(r.size, total)
    BY <1>3, ReadShrinks DEF Complete, TypedData, Request
  <2>3. tasks'[i] = t
    BY <1>2, <2>1
  <2> QED BY <2>1, <2>2, <2>3
<1>4. ASSUME NEW what, NEW kind, NEW n, Queue(what, kind, n) PROVE FALSE
  BY <1>2, <1>4 DEF Queue
<1>5. CASE FulfillOne
  BY <1>3, <1>5, HeadTypes DEF FulfillOne, TypedData
<1>6. CASE RunTask
  <2>1. tasks # <<>> /\ tasks' = Tail(tasks)
    BY <1>6 DEF RunTask
  <2>2. Len(tasks') < Len(tasks) /\ Len(tasks') \in Nat
    BY <2>1, <1>1
  <2> QED BY <2>2, <1>1
<1>7. ASSUME NEW kind, NEW n, Put(kind, n) PROVE Goal
  BY <1>4, <1>7 DEF Put
<1>8. ASSUME NEW kind \in ReadKind, NEW n \in Nat \ {0}, Get(kind, n) PROVE Goal
  <2> DEFINE r == [id |-> ops + 1, kind |-> kind, size |-> n]
  <2>1. r \in Request
    BY <1>8, NewId DEF Get, Request
  <2>2. Complete(r)
    BY <1>1, <1>4, <1>8 DEF Get
  <2> HIDE DEF r
  <2> QED BY <1>3, <2>1, <2>2
<1>9. ASSUME NEW n, Alloc(n) PROVE Goal
  BY <1>1, <1>9 DEF Alloc
<1>10. UNCHANGED tasks => FALSE
  BY <1>1
<1> QED BY <1>5, <1>6, <1>7, <1>8, <1>9, <1>10, HandlerSteps

\* The same as a property of the behaviours (ev_request::complete, read).
THEOREM ReadsFollowStreamCorrect == Spec => ReadsFollowStream
<1>1. TypedData /\ [Next]_vars =>
        [\A i \in (1 .. Len(tasks')) \ (1 .. Len(tasks)) :
            tasks'[i].what = "done" /\ tasks'[i].count > 0
              => /\ tasks'[i].from = total_read
                 /\ total_read' = total_read + tasks'[i].count]_vars
  BY ReadsFollowStep
<1> QED BY <1>1, TypedDataInit, TypedDataStep, PTL DEF Spec, ReadsFollowStream

-----------------------------------------------------------------------------
\* A call has no handler waiting, and none called, before it is made.
IdsIssued ==
  /\ \A i \in 1 .. Len(requests) : requests[i].id <= ops
  /\ \A i \in 1 .. Len(tasks) : tasks[i].id <= ops
  /\ \A id \in OpId : id > ops => calls[id] = 0

Handlers == HandlerAtMostOnce /\ IdsIssued

\* What a call can do to the handlers: nothing, or make one that waits.
LEMMA SameHandlers ==
  ASSUME TypedData, Handlers, UNCHANGED <<requests, tasks, calls>>, ops' \in {ops, ops + 1}
  PROVE  Handlers'
<1>1. /\ ops \in Nat /\ ops' \in Nat /\ ops <= ops'
      /\ \A i \in 1 .. Len(requests) : requests[i].id \in OpId
      /\ \A i \in 1 .. Len(tasks) : tasks[i].id \in OpId
  BY ElementTypes
<1>2. IdsIssued'
  BY <1>1 DEF Handlers, IdsIssued, OpId
<1>3. HandlerAtMostOnce'
  BY DEF Handlers, HandlerAtMostOnce, Pending
<1> QED BY <1>2, <1>3 DEF Handlers

LEMMA NewHandlerTask ==
  ASSUME TypedData, Handlers, NewOp, NEW t, t.id = ops + 1, tasks' = Append(tasks, t),
         UNCHANGED <<requests, calls>>
  PROVE  Handlers'
<1>1. /\ ops \in Nat /\ ops' = ops + 1 /\ Len(tasks) \in Nat
      /\ \A i \in 1 .. Len(requests) : requests[i].id \in OpId /\ requests[i].id <= ops
      /\ \A i \in 1 .. Len(tasks) : tasks[i].id \in OpId /\ tasks[i].id <= ops
      /\ ops + 1 \in OpId
      /\ Len(tasks') = Len(tasks) + 1
      /\ \A i \in 1 .. Len(tasks) : tasks'[i] = tasks[i]
      /\ tasks'[Len(tasks) + 1].id = ops + 1
  BY ElementTypes, NewId DEF TypedData, ControlType, Handlers, IdsIssued
<1>2. IdsIssued'
  BY <1>1 DEF Handlers, IdsIssued, OpId
<1>3. \A i, j \in 1 .. Len(tasks') : tasks'[i].id = tasks'[j].id => i = j
  BY <1>1 DEF Handlers, HandlerAtMostOnce, OpId
<1>4. \A i \in 1 .. Len(requests'), j \in 1 .. Len(tasks') : requests'[i].id # tasks'[j].id
  BY <1>1 DEF Handlers, HandlerAtMostOnce, OpId
<1>5. \A id \in OpId : Pending(id)' => Pending(id) \/ id = ops + 1
  BY <1>1 DEF Pending
<1>6. \A id \in OpId : calls'[id] <= 1 /\ (Pending(id)' => calls'[id] = 0)
  BY <1>1, <1>5 DEF Handlers, HandlerAtMostOnce, IdsIssued, OpId
<1>7. HandlerAtMostOnce'
  BY <1>3, <1>4, <1>6 DEF Handlers, HandlerAtMostOnce
<1> QED BY <1>2, <1>7 DEF Handlers

LEMMA NewHandlerRequest ==
  ASSUME TypedData, Handlers, NewOp, NEW r, r.id = ops + 1, requests' = Append(requests, r),
         UNCHANGED <<tasks, calls>>
  PROVE  Handlers'
<1>1. /\ ops \in Nat /\ ops' = ops + 1 /\ Len(requests) \in Nat
      /\ \A i \in 1 .. Len(requests) : requests[i].id \in OpId /\ requests[i].id <= ops
      /\ \A i \in 1 .. Len(tasks) : tasks[i].id \in OpId /\ tasks[i].id <= ops
      /\ ops + 1 \in OpId
      /\ Len(requests') = Len(requests) + 1
      /\ \A i \in 1 .. Len(requests) : requests'[i] = requests[i]
      /\ requests'[Len(requests) + 1].id = ops + 1
  BY ElementTypes, NewId DEF TypedData, ControlType, Handlers, IdsIssued
<1>2. IdsIssued'
  BY <1>1 DEF Handlers, IdsIssued, OpId
<1>3. \A i, j \in 1 .. Len(requests') : requests'[i].id = requests'[j].id => i = j
  BY <1>1 DEF Handlers, HandlerAtMostOnce, OpId
<1>4. \A i \in 1 .. Len(requests'), j \in 1 .. Len(tasks') : requests'[i].id # tasks'[j].id
  BY <1>1 DEF Handlers, HandlerAtMostOnce, OpId
<1>5. \A id \in OpId : Pending(id)' => Pending(id) \/ id = ops + 1
  BY <1>1 DEF Pending
<1>6. \A id \in OpId : calls'[id] <= 1 /\ (Pending(id)' => calls'[id] = 0)
  BY <1>1, <1>5 DEF Handlers, HandlerAtMostOnce, IdsIssued, OpId
<1>7. HandlerAtMostOnce'
  BY <1>3, <1>4, <1>6 DEF Handlers, HandlerAtMostOnce
<1> QED BY <1>2, <1>7 DEF Handlers

\* The oldest request becomes the last task.
LEMMA FulfilHandler ==
  ASSUME TypedData, Handlers, requests # <<>>, NEW t, t.id = Head(requests).id,
         tasks' = Append(tasks, t), requests' = Tail(requests), UNCHANGED <<ops, calls>>
  PROVE  Handlers'
<1>1. /\ Len(requests) \in Nat \ {0} /\ Len(tasks) \in Nat
      /\ Len(requests') = Len(requests) - 1
      /\ \A i \in 1 .. Len(requests') : requests'[i] = requests[i + 1] /\ i + 1 \in 1 .. Len(requests)
      /\ 1 \in 1 .. Len(requests)
      /\ Len(tasks') = Len(tasks) + 1
      /\ \A i \in 1 .. Len(tasks) : tasks'[i] = tasks[i]
      /\ tasks'[Len(tasks) + 1].id = requests[1].id
  BY DEF TypedData, ControlType
<1>2. \A j \in 1 .. Len(tasks') :
        \/ j \in 1 .. Len(tasks) /\ tasks'[j].id = tasks[j].id
        \/ j = Len(tasks) + 1 /\ tasks'[j].id = requests[1].id
  BY <1>1
<1>3. IdsIssued'
  BY <1>1, <1>2 DEF Handlers, IdsIssued
<1>4. \A i, j \in 1 .. Len(tasks') : tasks'[i].id = tasks'[j].id => i = j
  BY <1>1, <1>2 DEF Handlers, HandlerAtMostOnce
<1>5. \A i, j \in 1 .. Len(requests') : requests'[i].id = requests'[j].id => i = j
  BY <1>1 DEF Handlers, HandlerAtMostOnce
<1>6. \A i \in 1 .. Len(requests'), j \in 1 .. Len(tasks') : requests'[i].id # tasks'[j].id
  <2> TAKE i \in 1 .. Len(requests'), j \in 1 .. Len(tasks')
  <2>1. requests'[i].id = requests[i + 1].id /\ i + 1 \in 1 .. Len(requests) /\ i + 1 # 1
    BY <1>1
  <2>2. requests[i + 1].id # requests[1].id
    BY <2>1, <1>1 DEF Handlers, HandlerAtMostOnce
  <2> QED BY <2>1, <2>2, <1>2 DEF Handlers, HandlerAtMostOnce
<1>7. \A id \in OpId : Pending(id)' => Pending(id)
  BY <1>1, <1>2 DEF Pending
<1>8. \A id \in OpId : calls'[id] <= 1 /\ (Pending(id)' => calls'[id] = 0)
  BY <1>7 DEF Handlers, HandlerAtMostOnce
<1>9. HandlerAtMostOnce'
  BY <1>4, <1>5, <1>6, <1>8 DEF HandlerAtMostOnce
<1> QED BY <1>3, <1>9 DEF Handlers

\* The first task is run.
LEMMA CallHandler ==
  ASSUME TypedData, Handlers, RunTask
  PROVE  Handlers'
<1> DEFINE c == Head(tasks).id
<1>1. /\ tasks # <<>> /\ tasks' = Tail(tasks) /\ UNCHANGED <<requests, ops>>
      /\ calls' = [calls EXCEPT ![c] = @ + 1]
  BY DEF RunTask
<1>2. /\ Len(tasks) \in Nat \ {0}
      /\ Len(tasks') = Len(tasks) - 1
      /\ \A i \in 1 .. Len(tasks') : tasks'[i] = tasks[i + 1] /\ i + 1 \in 1 .. Len(tasks)
      /\ 1 \in 1 .. Len(tasks) /\ tasks[1].id = c /\ c \in OpId
  BY <1>1, HeadTypes DEF TypedData, ControlType
<1>3. calls[c] = 0 /\ c <= ops
  BY <1>2 DEF Handlers, HandlerAtMostOnce, IdsIssued, Pending
<1>4. \A id \in OpId : calls'[id] = IF id = c THEN 1 ELSE calls[id]
  BY <1>1, <1>2, <1>3 DEF TypedData, ControlType
<1> HIDE DEF c
<1>5. IdsIssued'
  BY <1>1, <1>2, <1>3, <1>4, SizeAssumption DEF Handlers, IdsIssued, OpId, TypedData, ControlType
<1>6. \A i, j \in 1 .. Len(tasks') : tasks'[i].id = tasks'[j].id => i = j
  BY <1>2 DEF Handlers, HandlerAtMostOnce
<1>7. \A i \in 1 .. Len(requests'), j \in 1 .. Len(tasks') : requests'[i].id # tasks'[j].id
  BY <1>1, <1>2 DEF Handlers, HandlerAtMostOnce
<1>8. \A id \in OpId : Pending(id)' => Pending(id) /\ id # c
  <2>1. \A i \in 1 .. Len(requests') : requests'[i].id # c
    BY <1>1, <1>2 DEF Handlers, HandlerAtMostOnce
  <2>2. \A i \in 1 .. Len(tasks') : tasks'[i].id # c
    <3> TAKE i \in 1 .. Len(tasks')
    <3>1. tasks'[i] = tasks[i + 1] /\ i + 1 \in 1 .. Len(tasks) /\ i + 1 # 1
      BY <1>2
    <3> QED BY <3>1, <1>2 DEF Handlers, HandlerAtMostOnce
  <2> QED BY <1>1, <1>2, <2>1, <2>2 DEF Pending
<1>9. \A id \in OpId : calls'[id] <= 1 /\ (Pending(id)' => calls'[id] = 0)
  BY <1>4, <1>8 DEF Handlers, HandlerAtMostOnce
<1>10. HandlerAtMostOnce'
  BY <1>1, <1>6, <1>7, <1>9 DEF Handlers, HandlerAtMostOnce
<1> QED BY <1>5, <1>10 DEF Handlers

LEMMA HandlersStep == TypedData /\ Handlers /\ [Next]_vars => Handlers'
<1> SUFFICES ASSUME TypedData, Handlers, [Next]_vars PROVE Handlers'
  OBVIOUS
<1>1. CASE FulfillOne
  <2>1. PICK t \in Task : tasks' = Append(tasks, t) /\ t.id = Head(requests).id
    BY <1>1, HeadTypes, CompleteKeepsTypes DEF FulfillOne, TypedData
  <2> QED BY <2>1, <1>1, FulfilHandler DEF FulfillOne
<1>2. CASE RunTask
  BY <1>2, CallHandler
<1>3. ASSUME NEW what, NEW kind, NEW n, Queue(what, kind, n), NewOp, UNCHANGED <<requests, calls>>
      PROVE  Handlers'
  <2> DEFINE t == [what |-> what, id |-> ops + 1, kind |-> kind, size |-> n,
                   gets |-> IF kind \in {"getn", "putn"} THEN "count" ELSE "char",
                   from |-> 0, count |-> 0]
  <2>1. t.id = ops + 1 /\ tasks' = Append(tasks, t)
    BY <1>3 DEF Queue
  <2> HIDE DEF t
  <2> QED BY <2>1, <1>3, NewHandlerTask
<1>4. ASSUME NEW kind, NEW n, Put(kind, n) PROVE Handlers'
  BY <1>3, <1>4 DEF Put
<1>5. ASSUME NEW kind \in ReadKind, NEW n \in Nat \ {0}, Get(kind, n) PROVE Handlers'
  <2> DEFINE r == [id |-> ops + 1, kind |-> kind, size |-> n]
  <2>1. r \in Request /\ r.id = ops + 1 /\ NewOp /\ UNCHANGED calls
    BY <1>5, NewId DEF Get, Request
  <2>2. CASE ~can_read
    BY <2>2, <1>3, <1>5 DEF Get
  <2>3. CASE Complete(r) /\ UNCHANGED requests
    <3> HIDE DEF r
    <3>1. PICK t \in Task : tasks' = Append(tasks, t) /\ t.id = r.id
      BY <2>1, <2>3, CompleteKeepsTypes DEF TypedData
    <3> QED BY <2>1, <2>3, <3>1, NewHandlerTask
  <2>4. CASE requests' = Append(requests, r) /\ UNCHANGED tasks
    <3> HIDE DEF r
    <3> QED BY <2>1, <2>4, NewHandlerRequest
  <2> QED BY <1>5, <2>2, <2>3, <2>4 DEF Get
<1>6. ASSUME NEW n, Alloc(n) PROVE Handlers'
  BY <1>6, SameHandlers DEF Alloc, NewOp
<1>7. CASE UNCHANGED <<requests, tasks, calls, ops>>
  BY <1>7, SameHandlers
<1> QED BY <1>1, <1>2, <1>4, <1>5, <1>6, <1>7, HandlerSteps

\* The handler of a call waits in one place, is called once and never again.
THEOREM HandlerAtMostOnceCorrect == Spec => []HandlerAtMostOnce
<1>1. Init => Handlers
  BY DEF Init, Handlers, HandlerAtMostOnce, IdsIssued, Pending
<1>2. Handlers => HandlerAtMostOnce
  BY DEF Handlers
<1> QED BY <1>1, <1>2, HandlersStep, TypedDataInit, TypedDataStep, PTL DEF Spec

-----------------------------------------------------------------------------
(* The buffer keeps the contract of AsyncStream, as far as safety goes. *)

Waiting == [i \in 1 .. Len(requests) |-> requests[i].size]

LEMMA WaitingIsSeq ==
  ASSUME TypedData
  PROVE  /\ Waiting \in Seq(Nat) /\ Len(Waiting) = Len(requests) /\ Len(requests) \in Nat
         /\ \A i \in 1 .. Len(requests) : Waiting[i] = requests[i].size
<1>1. Len(requests) \in Nat /\ \A i \in 1 .. Len(requests) : requests[i] \in Request
  BY DEF TypedData, ControlType
<1>2. Waiting \in [1 .. Len(requests) -> Nat]
  BY <1>1 DEF Waiting, Request
<1> QED BY <1>1, <1>2, SeqOf DEF Waiting

\* A request joins the queue.
LEMMA WaitingAppend ==
  ASSUME TypedData, TypedData', NEW r \in Request, requests' = Append(requests, r)
  PROVE  Waiting' = Append(Waiting, r.size)
<1>1. /\ Len(requests) \in Nat /\ Len(requests') = Len(requests) + 1
      /\ \A i \in 1 .. Len(requests) : requests'[i] = requests[i]
      /\ requests'[Len(requests) + 1] = r /\ r.size \in Nat
  BY DEF TypedData, ControlType, Request
<1>2. Waiting' = [i \in 1 .. Len(requests') |-> requests'[i].size]
  BY DEF Waiting
<1>3. Waiting \in Seq(Nat) /\ Len(Waiting) = Len(requests)
      /\ \A i \in 1 .. Len(requests) : Waiting[i] = requests[i].size
  BY WaitingIsSeq
<1>4. Waiting' \in [1 .. Len(requests) + 1 -> Nat]
  <2>1. \A i \in 1 .. Len(requests') : requests'[i].size \in Nat
    BY <1>1, <1>3
  <2> QED BY <1>1, <1>2, <2>1
<1>5. Waiting' \in Seq(Nat) /\ Len(Waiting') = Len(requests) + 1
  BY <1>1, <1>4, SeqOf
<1>6. \A i \in 1 .. Len(requests) + 1 : Waiting'[i] = Append(Waiting, r.size)[i]
  BY <1>1, <1>2, <1>3
<1>7. Append(Waiting, r.size) \in Seq(Nat) /\ Len(Append(Waiting, r.size)) = Len(requests) + 1
  BY <1>1, <1>3
<1> QED BY <1>5, <1>6, <1>7, SeqEqual

\* The oldest request leaves it.
LEMMA WaitingTail ==
  ASSUME TypedData, TypedData', requests # <<>>, requests' = Tail(requests)
  PROVE  Waiting # <<>> /\ Head(Waiting) = Head(requests).size /\ Waiting' = Tail(Waiting)
<1>1. /\ Len(requests) \in Nat \ {0} /\ Len(requests') = Len(requests) - 1
      /\ \A i \in 1 .. Len(requests') : requests'[i] = requests[i + 1] /\ i + 1 \in 1 .. Len(requests)
      /\ Head(requests) = requests[1]
  BY DEF TypedData, ControlType
<1>2. Waiting \in Seq(Nat) /\ Len(Waiting) = Len(requests)
      /\ \A i \in 1 .. Len(requests) : Waiting[i] = requests[i].size
  BY WaitingIsSeq
<1>3. Waiting # <<>> /\ Head(Waiting) = Head(requests).size
  BY <1>1, <1>2
<1>4. Waiting' \in Seq(Nat) /\ Len(Waiting') = Len(requests')
      /\ \A i \in 1 .. Len(requests') : Waiting'[i] = requests'[i].size
  <2>1. Waiting' = [i \in 1 .. Len(requests') |-> requests'[i].size]
    BY DEF Waiting
  <2>2. Len(requests') \in Nat /\ \A i \in 1 .. Len(requests') : requests'[i] \in Request
    BY DEF TypedData, ControlType
  <2>3. Waiting' \in [1 .. Len(requests') -> Nat]
    BY <2>1, <2>2 DEF Request
  <2> QED BY <2>1, <2>2, <2>3, SeqOf, ZenonT(40)
<1>5. Tail(Waiting) \in Seq(Nat) /\ Len(Tail(Waiting)) = Len(requests')
      /\ \A i \in 1 .. Len(requests') : Tail(Waiting)[i] = Waiting[i + 1]
  BY <1>1, <1>2, <1>3
<1>6. \A i \in 1 .. Len(requests') : Waiting'[i] = Tail(Waiting)[i]
  BY <1>1, <1>2, <1>4, <1>5
<1> QED BY <1>3, <1>4, <1>5, <1>6, SeqEqual

LEMMA ContractStep == TypedData /\ [Next]_vars => [Contract!Next]_(Contract!vars)
<1> SUFFICES ASSUME TypedData, [Next]_vars PROVE Contract!Next \/ UNCHANGED Contract!vars
  OBVIOUS
<1> USE DEF Waiting
<1>1. TypedData'
  BY TypedDataStep
<1>2. /\ total \in Nat /\ total_read \in Nat /\ total_written \in Nat /\ synced \in Nat
      /\ total_written - total_read = total /\ DataOK
  BY DEF TypedData, DataOK, DataType, BlocksTileStream
<1>3. ASSUME UNCHANGED <<total_written, total_read, synced, can_write, requests>>
      PROVE  UNCHANGED Contract!vars
  BY <1>3 DEF Contract!vars
<1>4. ASSUME NEW n \in Nat, Read(n), UNCHANGED can_write PROVE Contract!Take(n)
  <2>1. /\ total_read' = total_read + Least(n, total) /\ total_written' = total_written
        /\ synced' = Less(synced, Least(n, total))
    BY <1>2, <1>4, ReadKeepsData
  <2>2. Least(n, total) = IF n <= Contract!Unread THEN n ELSE Contract!Unread
    BY <1>2 DEF Contract!Unread, Least
  <2> QED BY <1>2, <1>4, <2>1, <2>2 DEF Contract!Take, Less, Least
<1>5. ASSUME NEW n \in Nat, Read(n), UNCHANGED <<can_write, requests>> PROVE Contract!Read
  <2>1. Least(n, total) \in 0 .. Contract!Unread
    BY <1>2 DEF Contract!Unread, Least
  <2>2. Read(Least(n, total))
    <3>1. Least(Least(n, Avail), Avail) = Least(n, Avail) /\ Avail = total
      BY <1>2, AvailIsTotal DEF Least
    <3> QED BY <3>1, <1>5 DEF Read
  <2>3. Contract!Take(Least(n, total))
    BY <1>4, <1>5, <2>2, <1>2 DEF Least
  <2> QED BY <2>1, <2>3, <1>5 DEF Contract!Read
<1>6. ASSUME NEW n \in Nat, can_write, total_written' = total_written + n,
             UNCHANGED <<total_read, synced, can_write, requests>>
      PROVE  Contract!Write
  BY <1>2, <1>6 DEF Contract!Write
<1>7. ASSUME NEW n \in Nat, CanSatisfy(n) PROVE Contract!Ready(n)
  BY <1>2, <1>7 DEF Contract!Ready, Contract!Unread, CanSatisfy
<1>8. CASE FulfillOne
  <2>1. /\ requests # <<>> /\ requests' = Tail(requests) /\ UNCHANGED can_write
        /\ CanSatisfy(Head(requests).size) /\ Read(Head(requests).size)
    BY <1>8 DEF FulfillOne, Complete, flags
  <2>2. Head(requests).size \in Nat
    BY <2>1, HeadTypes DEF TypedData
  <2>3. Waiting # <<>> /\ Head(Waiting) = Head(requests).size /\ Waiting' = Tail(Waiting)
    BY <1>1, <2>1, WaitingTail
  <2>4. Contract!Take(Head(requests).size) /\ Contract!Ready(Head(requests).size)
    BY <1>4, <1>7, <2>1, <2>2
  <2>5. Contract!Answer
    BY <2>3, <2>4 DEF Contract!Answer
  <2> QED BY <2>5 DEF Contract!Next
<1>9. CASE RunTask
  <2>1. Head(tasks).size \in Nat /\ UNCHANGED <<can_write, requests>>
    BY <1>9, HeadTypes DEF RunTask, TypedData, flags
  <2>2. \/ UNCHANGED counters
        \/ can_write /\ total_written' = total_written + Head(tasks).size
           /\ UNCHANGED <<total_read, synced>>
    BY <1>9 DEF RunTask, Write, Extend
  <2> QED BY <2>1, <2>2, <1>3, <1>6 DEF Contract!Next, counters
<1>10. ASSUME NEW kind \in ReadKind, NEW n \in ReadSizes \cup {1}, Get(kind, n)
       PROVE  Contract!Next \/ UNCHANGED Contract!vars
  <2> DEFINE r == [id |-> ops + 1, kind |-> kind, size |-> n]
  <2>1. n \in Nat \ {0} /\ UNCHANGED can_write /\ r \in Request /\ r.size = n
    BY <1>10, NewId, SizeAssumption DEF Get, flags, Request
  <2>2. CASE UNCHANGED <<counters, requests>>
    BY <2>1, <2>2, <1>3 DEF counters
  <2>3. CASE Complete(r) /\ UNCHANGED requests
    <3>1. Read(n)
      BY <2>3 DEF Complete
    <3> QED BY <3>1, <2>1, <2>3, <1>5 DEF Contract!Next
  <2>4. CASE ~CanSatisfy(n) /\ requests' = Append(requests, r) /\ UNCHANGED counters
    <3>1. ~Contract!Ready(n)
      BY <2>1, <2>4, <1>2 DEF Contract!Ready, Contract!Unread, CanSatisfy
    <3> HIDE DEF r
    <3>2. Waiting' = Append(Waiting, n)
      BY <2>1, <2>4, <1>1, WaitingAppend
    <3>3. Contract!Wait
      BY <3>1, <3>2, <2>1, <2>4, <1>10 DEF Contract!Wait, counters
    <3> QED BY <3>3 DEF Contract!Next
  <2> QED BY <1>10, <2>2, <2>3, <2>4 DEF Get
<1>11. ASSUME NEW n \in Nat, Sgetn(n) PROVE Contract!Next \/ UNCHANGED Contract!vars
  BY <1>5, <1>11 DEF Sgetn, flags, Contract!Next
<1>12. ASSUME NEW advance, SyncChar(advance) PROVE Contract!Next \/ UNCHANGED Contract!vars
  <2>1. (Read(1) \/ UNCHANGED counters) /\ UNCHANGED <<can_write, requests>>
    BY <1>12 DEF SyncChar
  <2> QED BY <2>1, <1>3, <1>5 DEF counters, Contract!Next
<1>13. CASE Sync
  <2>1. Contract!Flush
    BY <1>13, <1>2 DEF Sync, flags, Contract!Flush, Contract!Unread
  <2> QED BY <2>1 DEF Contract!Next
<1>14. ASSUME allocblock # None, NEW n \in 0 .. allocblock, Commit(n) PROVE Contract!Next
  <2>1. n \in Nat
    BY <1>14 DEF TypedData, ControlType
  <2> QED BY <2>1, <1>6, <1>14 DEF Commit, Extend, flags, Contract!Next
<1>15. ASSUME NEW n \in 0 .. held.count, Release(n)
       PROVE  Contract!Next \/ UNCHANGED Contract!vars
  <2>1. UNCHANGED <<can_write, requests>>
    BY <1>15 DEF Release, flags
  <2>2. CASE can_write
    <3>1. n \in 0 .. Avail /\ Consume(n)
      BY <2>2, <1>15, ReleaseConsumes
    <3>2. n \in Nat /\ Read(n)
      BY <3>1, <1>2, AvailIsTotal DEF Read, Least
    <3> QED BY <3>2, <2>1, <1>5 DEF Contract!Next
  <2>3. CASE ~can_write
    BY <2>1, <2>3, <1>3, <1>15 DEF Release, counters
  <2> QED BY <2>2, <2>3
<1>16. ASSUME NEW mode, Close(mode) PROVE Contract!Next \/ UNCHANGED Contract!vars
  <2>1. CASE can_write' = FALSE
    BY <2>1, <1>16 DEF Close, counters, Contract!Close, Contract!Next
  <2>2. CASE UNCHANGED can_write
    BY <2>2, <1>3, <1>16 DEF Close, counters
  <2> QED BY <2>1, <2>2, <1>16 DEF Close, TypedData, ControlType
<1>17. /\ FulfillEnds => UNCHANGED Contract!vars
       /\ \A kind, n : Put(kind, n) => UNCHANGED Contract!vars
       /\ \A n : Alloc(n) => UNCHANGED Contract!vars
  BY <1>3 DEF FulfillEnds, Put, Alloc, flags, counters
<1>18. Acquire \/ UNCHANGED vars => UNCHANGED Contract!vars
  BY <1>3 DEF Acquire, vars, flags, counters
<1>19. "getn" \in ReadKind /\ "bumpc" \in ReadKind /\ ReadSizes \subseteq Nat
  BY SizeAssumption DEF ReadKind
<1> QED
  BY <1>8, <1>9, <1>10, <1>11, <1>12, <1>13, <1>14, <1>15, <1>16, <1>17, <1>18, <1>19
     DEF Next, Fulfill

\* Every behaviour of the buffer is, step for step, one the contract allows: reads that
\* wait are answered oldest first and in full unless the writer flushed or closed, and no
\* read that could be answered is made to wait (fulfill_outstanding, can_satisfy).
THEOREM ContractSafety == Spec => Contract!Init /\ [][Contract!Next]_(Contract!vars)
<1>1. Init => Contract!Init
  <2>1. Init => Waiting = <<>>
    BY DEF Init, Waiting
  <2> QED BY <2>1 DEF Init, Contract!Init, Waiting
<1> QED BY <1>1, ContractStep, TypedDataInit, TypedDataStep, PTL DEF Spec
=============================================================================
