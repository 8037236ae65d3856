--------------------------- MODULE NandWriteProofs ---------------------------
(***************************************************************************)
(* Proofs about nandwrite_main() for every device and image size.          *)
(***************************************************************************)
EXTENDS NandWrite, TLAPS

(* What the device operations return is again a block.                     *)
BlockType == [Pages -> Content(MaxImgPages)]

(* An erased block and a block of garbage are blocks.                      *)
LEMMA ErasedBlockType == ErasedBlock \in BlockType /\ GarbageBlock \in BlockType
BY MaxImgPagesAssumption
   DEF ErasedBlock, GarbageBlock, BlockType, Content, Erased, Garbage

(* Programming a page with a page of the image gives a block again.        *)
LEMMA ProgrammedType ==
  ASSUME NEW block \in BlockType, NEW p \in Pages,
         NEW x \in Content(MaxImgPages)
  PROVE  Programmed(block, p, x) \in BlockType
BY MaxImgPagesAssumption DEF Programmed, BlockType, Content, Erased, Garbage

(* So does a write or an erase that fails, whatever it leaves behind.      *)
LEMMA FailedType ==
  ASSUME NEW block \in BlockType
  PROVE  /\ FailedErase(block) \subseteq BlockType
         /\ \A p \in Pages : FailedWrite(block, p) \subseteq BlockType
BY ErasedBlockType, MaxImgPagesAssumption
   DEF FailedErase, FailedWrite, BlockType, Content, Garbage

(* The steps that index filebuf and dev keep the types only because the    *)
(* two positions are in step.                                              *)
TypeInv == TypeOK /\ InStep

(* nandwrite_main() starts with an empty buffer at the start of the device.*)
LEMMA TypeInit == Init => TypeInv
<1> SUFFICES ASSUME Init PROVE TypeInv
  OBVIOUS
<1> USE EbCntAssumption, PagesPerEbAssumption, MaxImgPagesAssumption
<1>1. dev \in [Blocks -> [Pages -> Content(MaxImgPages)]]
  BY ErasedBlockType DEF Init, BlockType
<1>2. filebuf \in [Pages -> Content(MaxImgPages)]
  BY ErasedBlockType DEF Init, BlockType, EmptyBuf
<1>3. bad \in SUBSET Blocks /\ pc \in PC /\ result \in {-1, 0}
  BY DEF Init, PC
<1>4. ofg_imglen \in 0 .. MaxImgPages /\ tail \in {0, 1} /\ imglen \in 0 .. ofg_imglen
  BY DEF Init
<1>5. eb \in 0 .. EbCnt /\ blockstart \in -1 .. EbCnt
  BY DEF Init
<1>6. pg \in Pages /\ filebuf_len \in 0 .. PagesPerEb /\ writebuf \in -1 .. PagesPerEb
  BY DEF Init, Pages
<1>7. warned \in BOOLEAN
  BY DEF Init
<1>8. TypeOK
  BY <1>1, <1>2, <1>3, <1>4, <1>5, <1>6, <1>7 DEF TypeOK
<1>9. InStep
  BY DEF Init, InStep, NotStarted, Running, Recovering
<1>10. QED
  BY <1>8, <1>9 DEF TypeInv

(* No handler of a block, page or error takes the two positions apart.     *)
LEMMA TypeNext == TypeInv /\ [Next]_vars => TypeInv'
<1> SUFFICES ASSUME TypeInv, [Next]_vars PROVE TypeInv'
  OBVIOUS
<1> USE EbCntAssumption, PagesPerEbAssumption, MaxImgPagesAssumption
<1> USE DEF TypeInv, TypeOK, InStep, NotStarted, PC, Pages, Running, Recovering, ValidEb, Blocks,
            devVars, imgVars, posVars, bufVars, outVars, CloseAll
<1>1. CASE OpenFails
  BY <1>1 DEF OpenFails
<1>2. CASE Open
  BY <1>2 DEF Open
<1>3. CASE LoopExit
  BY <1>3 DEF LoopExit
<1>4. CASE NewBlock
  BY <1>4, ErasedBlockType DEF NewBlock, InBody, StartBuffer, EmptyBuf, SkipBlock, BlockType
<1>5. CASE BadCheckFails
  BY <1>5, ErasedBlockType DEF BadCheckFails, InBody, StartBuffer, EmptyBuf, BlockType
<1>6. CASE ReadPage
  <2>1. writebuf \in Pages /\ writebuf = filebuf_len /\ pg = writebuf
    BY <1>6 DEF ReadPage, InBody, NeedRead
  <2>2. filebuf' \in [Pages -> Content(MaxImgPages)]
    <3>1. ofg_imglen - imglen + 1 \in Content(MaxImgPages)
      BY <1>6 DEF ReadPage, Content
    <3>2. filebuf' = [filebuf EXCEPT ![writebuf] = ofg_imglen - imglen + 1]
      BY <1>6 DEF ReadPage
    <3>3. filebuf \in [Pages -> Content(MaxImgPages)]
      OBVIOUS
    <3> HIDE DEF TypeInv, TypeOK, InStep, Pages
    <3>4. QED
      BY <2>1, <3>1, <3>2, <3>3
  <2>3. filebuf_len' \in 0 .. PagesPerEb /\ imglen' \in 0 .. ofg_imglen
    BY <1>6, <2>1 DEF ReadPage
  <2>4. TypeOK'
    BY <1>6, <2>2, <2>3 DEF ReadPage
  <2>5. InStep'
    BY <1>6, <2>1 DEF ReadPage, InBody
  <2>6. QED
    BY <2>4, <2>5
<1>7. CASE ReadEnds
  BY <1>7 DEF ReadEnds
<1>8. CASE Replay
  BY <1>8 DEF Replay, NeedRead, InBody, LoopCond
<1>9. CASE WritePage
  <2>1. eb \in Blocks /\ writebuf \in Pages /\ pg = writebuf
    BY <1>9 DEF WritePage
  <2>2. dev[eb] \in BlockType /\ filebuf[writebuf] \in Content(MaxImgPages)
    BY <2>1 DEF BlockType
  <2>3. Programmed(dev[eb], pg, filebuf[writebuf]) \in BlockType
    BY <2>1, <2>2, ProgrammedType
  <2>4. dev' \in [Blocks -> [Pages -> Content(MaxImgPages)]]
    BY <1>9, <2>1, <2>3 DEF WritePage, BlockType
  <2>5. eb' \in 0 .. EbCnt /\ pg' \in Pages /\ writebuf' \in -1 .. PagesPerEb
    BY <1>9, <2>1 DEF WritePage, Advance
  <2>6. TypeOK'
    BY <1>9, <2>4, <2>5 DEF WritePage
  <2>7. InStep'
    BY <1>9, <2>1 DEF WritePage, Advance
  <2>8. QED
    BY <2>6, <2>7
<1>10. CASE WriteEIO
  BY <1>10, FailedType DEF WriteEIO, Rewind, BlockType
<1>11. CASE WriteFails
  BY <1>11, FailedType DEF WriteFails, BlockType
<1>12. CASE EraseBlock
  <2>1. dev' \in [Blocks -> BlockType]
    <3>1. dev \in [Blocks -> BlockType]
      BY DEF BlockType
    <3>2. blockstart \in Blocks
      BY <1>12 DEF EraseBlock
    <3> HIDE DEF TypeInv, TypeOK, InStep, Blocks
    <3>3. PICK block \in BlockType : dev' = [dev EXCEPT ![blockstart] = block]
      BY <1>12, <3>1, <3>2, FailedType, ErasedBlockType DEF EraseBlock
    <3>4. QED
      BY <3>1, <3>3
  <2>2. QED
    BY <1>12, <2>1 DEF EraseBlock, BlockType
<1>13. CASE EraseFails
  <2>1. dev' \in [Blocks -> BlockType]
    <3>1. dev \in [Blocks -> BlockType]
      BY DEF BlockType
    <3>2. blockstart \in Blocks
      BY <1>13 DEF EraseFails
    <3> HIDE DEF TypeInv, TypeOK, InStep, Blocks
    <3>3. PICK block \in BlockType : dev' = [dev EXCEPT ![blockstart] = block]
      BY <1>13, <3>1, <3>2, FailedType DEF EraseFails
    <3>4. QED
      BY <3>1, <3>3
  <2>2. QED
    BY <1>13, <2>1 DEF EraseFails, BlockType
<1>14. CASE MarkBad
  BY <1>14 DEF MarkBad, SkipBlock
<1>15. CASE MarkFails
  BY <1>15 DEF MarkFails
<1>16. CASE UNCHANGED vars
  BY <1>16 DEF vars
<1>17. QED
  BY <1>1, <1>2, <1>3, <1>4, <1>5, <1>6, <1>7, <1>8, <1>9, <1>10, <1>11,
     <1>12, <1>13, <1>14, <1>15, <1>16 DEF Next, Returned

(* Every variable of nandwrite_main() keeps its type: in particular, the   *)
(* offsets never leave the device and the buffer, whatever blocks fail.    *)
THEOREM TypeCorrect == Spec => []TypeOK
<1>1. Spec => []TypeInv
  BY TypeInit, TypeNext, PTL DEF Spec
<1>2. TypeInv => TypeOK
  BY DEF TypeInv
<1>3. QED
  BY <1>1, <1>2, PTL

------------------------------------------------------------------------------
(* The inductive invariant: besides the two positions, it says what is in  *)
(* the buffer, in the block in progress and ahead of it.                   *)
DataInv ==
  /\ BufferContinuesImage
  /\ BufferMirrorsBlock
  /\ AheadErased
  /\ PagesInOrder
  /\ NoPageLost

IInv == TypeInv /\ DataInv

(* Before the first read the device holds no page of the image.            *)
LEMMA DataInit == Init => DataInv
<1> SUFFICES ASSUME Init PROVE DataInv
  OBVIOUS
<1> USE EbCntAssumption, PagesPerEbAssumption, MaxImgPagesAssumption
<1>1. BufferContinuesImage /\ BufferMirrorsBlock
  BY DEF Init, BufferContinuesImage, BufferMirrorsBlock, Running
<1>2. AheadErased
  BY DEF Init, AheadErased, Blocks, Pages, ErasedBlock
<1>3. PagesInOrder /\ NoPageLost
  BY DEF Init, PagesInOrder, NoPageLost, Stored, PagesStored, Blocks
<1>4. QED
  BY <1>1, <1>2, <1>3 DEF DataInv

(* The buffer keeps mirroring the flash: a page enters it as the next one  *)
(* of the image and leaves it for an erased page.                          *)
LEMMA BufferNext ==
  IInv /\ [Next]_vars => BufferContinuesImage' /\ BufferMirrorsBlock'
<1> SUFFICES ASSUME IInv, [Next]_vars
             PROVE  BufferContinuesImage' /\ BufferMirrorsBlock'
  OBVIOUS
<1> USE EbCntAssumption, PagesPerEbAssumption, MaxImgPagesAssumption
<1> USE DEF IInv, TypeInv, TypeOK, InStep, DataInv, BufferContinuesImage,
            BufferMirrorsBlock, Running, Recovering, Pages, Blocks,
            devVars, imgVars, posVars, bufVars, outVars
<1>1. CASE OpenFails \/ Open
  BY <1>1 DEF OpenFails, Open, NotStarted, CloseAll
<1>2. CASE LoopExit \/ ReadEnds \/ MarkFails
  BY <1>2 DEF LoopExit, ReadEnds, MarkFails, CloseAll
<1>3. CASE NewBlock \/ BadCheckFails
  <2>1. CASE NewBlock
    <3>1. /\ filebuf_len' = 0 \/ UNCHANGED <<filebuf, filebuf_len>>
          /\ writebuf' = 0 /\ UNCHANGED <<imglen, ofg_imglen>>
      BY <2>1 DEF NewBlock, StartBuffer
    <3>2. BufferContinuesImage'
      BY <3>1
    <3>3. BufferMirrorsBlock'
      BY <3>1
    <3>4. QED
      BY <3>2, <3>3
  <2>2. CASE BadCheckFails
    BY <2>2 DEF BadCheckFails, StartBuffer, InBody
  <2> QED
    BY <1>3, <2>1, <2>2
<1>4. CASE ReadPage
  <2>1. writebuf \in Pages /\ writebuf = filebuf_len /\ pg = writebuf
    BY <1>4 DEF ReadPage, InBody, NeedRead
  <2>2. /\ filebuf'[writebuf] = ofg_imglen - imglen + 1
        /\ \A j \in 0 .. writebuf - 1 : filebuf'[j] = filebuf[j]
    BY <1>4, <2>1 DEF ReadPage
  <2>3. BufferContinuesImage'
    BY <1>4, <2>1, <2>2 DEF ReadPage
  <2>4. BufferMirrorsBlock'
    BY <1>4, <2>1, <2>2 DEF ReadPage, InBody
  <2>5. QED
    BY <2>3, <2>4
<1>5. CASE Replay
  BY <1>5 DEF Replay, InBody
<1>6. CASE WritePage
  <2>1. eb \in Blocks /\ writebuf \in Pages /\ pg = writebuf /\ blockstart = eb
    BY <1>6 DEF WritePage
  <2>2. dev[eb][pg] = Erased /\ eb \notin bad
    BY <1>6, <2>1 DEF WritePage, AheadErased
  <2>3. /\ dev'[eb][writebuf] = filebuf[writebuf]
        /\ \A p \in 0 .. writebuf - 1 : dev'[eb][p] = dev[eb][p]
    BY <1>6, <2>1, <2>2 DEF WritePage, Programmed
  <2>4. BufferContinuesImage'
    BY <1>6 DEF WritePage
  <2>5. eb' = eb => BufferMirrorsBlock'
    BY <1>6, <2>1, <2>3 DEF WritePage
  <2>6. eb' # eb => BufferMirrorsBlock'
    BY <1>6, <2>1 DEF WritePage, Advance
  <2>7. QED
    BY <2>4, <2>5, <2>6
<1>7. CASE WriteEIO \/ WriteFails \/ EraseBlock \/ EraseFails
  BY <1>7 DEF WriteEIO, WriteFails, EraseBlock, EraseFails, Rewind, CloseAll
<1>8. CASE MarkBad
  BY <1>8 DEF MarkBad, SkipBlock
<1>9. CASE UNCHANGED vars
  BY <1>9 DEF vars
<1>10. QED
  BY <1>1, <1>2, <1>3, <1>4, <1>5, <1>6, <1>7, <1>8, <1>9 DEF Next, Returned

(* No step programs ahead of the position, and skipping a block moves to   *)
(* one that is still erased.                                               *)
LEMMA AheadNext == IInv /\ [Next]_vars => AheadErased'
<1> SUFFICES ASSUME IInv, [Next]_vars PROVE AheadErased'
  OBVIOUS
<1> USE EbCntAssumption, PagesPerEbAssumption, MaxImgPagesAssumption
<1> USE DEF IInv, TypeInv, TypeOK, InStep, DataInv, AheadErased,
            Running, Recovering, Pages, Blocks,
            devVars, imgVars, posVars, bufVars, outVars
<1>1. CASE OpenFails \/ Open \/ LoopExit \/ ReadEnds \/ MarkFails
  BY <1>1 DEF OpenFails, Open, LoopExit, ReadEnds, MarkFails, CloseAll
<1>2. CASE NewBlock \/ BadCheckFails
  <2>1. CASE NewBlock
    BY <2>1 DEF NewBlock, SkipBlock, InBody, ErasedBlock
  <2>2. CASE BadCheckFails
    BY <2>2 DEF BadCheckFails, InBody
  <2> QED
    BY <1>2, <2>1, <2>2
<1>3. CASE ReadPage \/ Replay
  BY <1>3 DEF ReadPage, Replay, InBody
<1>4. CASE WritePage
  BY <1>4 DEF WritePage, Advance, Programmed, ErasedBlock
<1>5. CASE WriteEIO \/ WriteFails \/ EraseBlock \/ EraseFails
  BY <1>5 DEF WriteEIO, WriteFails, EraseBlock, EraseFails, CloseAll
<1>6. CASE MarkBad
  BY <1>6 DEF MarkBad, SkipBlock, ErasedBlock
<1>7. CASE UNCHANGED vars
  BY <1>7 DEF vars
<1>8. QED
  BY <1>1, <1>2, <1>3, <1>4, <1>5, <1>6, <1>7 DEF Next, Returned

(***************************************************************************)
(* The pages on the flash.  A step either keeps the stored pages and their *)
(* number, or stores the next page, or takes back those of the block in    *)
(* progress.                                                               *)
(***************************************************************************)
SameStore ==
  /\ PagesStored' = PagesStored
  /\ \A b \in Blocks, p \in Pages :
       /\ Stored(b, p)' <=> Stored(b, p)
       /\ Stored(b, p) => dev'[b][p] = dev[b][p]

(* A step that stores and removes nothing keeps the order.                 *)
LEMMA SameStoreKeepsOrder ==
  ASSUME IInv, SameStore, TypeOK'
  PROVE  PagesInOrder' /\ NoPageLost'
BY DEF IInv, DataInv, SameStore, PagesInOrder, NoPageLost, Before

(* The pages of the finished blocks come before those in the buffer, so    *)
(* they are the stored ones that a rewind does not take back.              *)
LEMMA FinishedBeforeBuffer ==
  ASSUME IInv, blockstart = eb, Running,
         NEW b \in Blocks, NEW p \in Pages, Stored(b, p), b < eb
  PROVE  dev[b][p] <= ofg_imglen - imglen - filebuf_len
<1> USE EbCntAssumption, PagesPerEbAssumption, MaxImgPagesAssumption
<1> USE DEF IInv, TypeInv, TypeOK, InStep, NotStarted, Running, Blocks, Pages
<1>1. writebuf \in 0 .. PagesPerEb /\ eb \in Blocks /\ eb \notin bad
  BY EbCntAssumption
<1>2. CASE writebuf = 0
  BY <1>1, <1>2 DEF DataInv, PagesInOrder, PagesStored
<1>3. CASE writebuf > 0
  <2>1. Stored(eb, 0) /\ Before(b, p, eb, 0) /\ 0 \in Pages
    BY <1>1, <1>3 DEF Stored, Before
  <2>2. dev[b][p] < dev[eb][0]
    BY <1>1, <2>1 DEF DataInv, PagesInOrder
  <2>3. dev[eb][0] = ofg_imglen - imglen - filebuf_len + 1
    BY <1>1, <1>3 DEF DataInv, BufferMirrorsBlock, BufferContinuesImage
  <2>4. dev[b][p] \in Int
    BY DEF Content
  <2>5. QED
    BY <2>2, <2>3, <2>4
<1>4. QED
  BY <1>1, <1>2, <1>3

(* Writing, failing, replaying and erasing keep the order of the image.    *)
LEMMA OrderNext ==
  IInv /\ TypeInv' /\ [Next]_vars => PagesInOrder' /\ NoPageLost'
<1> SUFFICES ASSUME IInv, TypeInv', [Next]_vars
             PROVE  PagesInOrder' /\ NoPageLost'
  OBVIOUS
<1> USE EbCntAssumption, PagesPerEbAssumption, MaxImgPagesAssumption
<1> USE DEF TypeInv, TypeOK, InStep, NotStarted, Running, Recovering,
            Pages, Blocks, devVars, imgVars, posVars, bufVars, outVars
<1>1. TypeInv /\ DataInv
  BY DEF IInv
<1>2. CASE OpenFails \/ Open \/ LoopExit \/ ReadEnds \/ Replay \/ MarkFails
  <2>1. SameStore
    BY <1>2 DEF OpenFails, Open, LoopExit, ReadEnds, Replay, MarkFails, CloseAll,
                SameStore, PagesStored, Stored
  <2>2. QED
    BY <2>1, SameStoreKeepsOrder
<1>3. CASE NewBlock \/ BadCheckFails
  <2>1. /\ writebuf \in {-1, 0, filebuf_len}
        /\ writebuf = -1 => NotStarted
        /\ StartBuffer /\ UNCHANGED <<ofg_imglen, imglen>>
    BY <1>1, <1>3 DEF NewBlock, BadCheckFails, InBody
  <2>2. PagesStored' = PagesStored
    <3>1. CASE writebuf = 0
      BY <2>1, <3>1 DEF StartBuffer, PagesStored
    <3>2. CASE writebuf # 0
      <4>1. PagesStored = ofg_imglen - imglen
        BY <1>1, <2>1, <3>2 DEF PagesStored
      <4>2. writebuf' = 0 /\ filebuf_len' = 0
        BY <2>1, <3>2 DEF StartBuffer
      <4>3. QED
        BY <1>1, <2>1, <4>1, <4>2 DEF PagesStored
    <3>3. QED
      BY <3>1, <3>2
  <2>3. \A b \in Blocks, p \in Pages : Stored(b, p)' <=> Stored(b, p)
    BY <1>1, <1>3 DEF NewBlock, BadCheckFails, StartBuffer, SkipBlock, InBody, Stored
  <2>4. SameStore
    BY <1>3, <2>2, <2>3 DEF NewBlock, BadCheckFails, SameStore
  <2>5. QED
    BY <2>4, SameStoreKeepsOrder
<1>4. CASE ReadPage
  <2>1. writebuf # -1
    BY <1>1, <1>4 DEF ReadPage, InBody
  <2>2. SameStore
    BY <1>1, <1>4, <2>1 DEF ReadPage, SameStore, PagesStored, Stored
  <2>3. QED
    BY <2>2, SameStoreKeepsOrder
<1>5. CASE WritePage
  <2>1. /\ eb \in Blocks /\ eb \notin bad /\ pg \in Pages /\ pg = writebuf
        /\ blockstart = eb
    BY <1>1, <1>5 DEF WritePage
  <2>2. PagesStored' = PagesStored + 1 /\ PagesStored \in Nat
    BY <1>1, <1>5, <2>1 DEF WritePage, PagesStored
  <2>3. \A b \in Blocks, p \in Pages :
          Stored(b, p)' <=> Stored(b, p) \/ (b = eb /\ p = pg)
    BY <1>1, <1>5, <2>1 DEF WritePage, Advance, Stored
  <2>4. dev'[eb][pg] = PagesStored'
    <3>1. dev[eb][pg] = Erased
      BY <1>1, <1>5, <2>1 DEF DataInv, AheadErased, WritePage
    <3>2. dev'[eb][pg] = filebuf[writebuf]
      BY <1>1, <1>5, <2>1, <3>1 DEF WritePage, Programmed
    <3>3. filebuf[writebuf] = PagesStored + 1
      BY <1>1, <1>5, <2>1 DEF WritePage, DataInv, BufferContinuesImage, PagesStored
    <3>4. QED
      BY <2>2, <3>2, <3>3
  <2>5. \A b \in Blocks, p \in Pages :
          b # eb \/ p # pg => dev'[b][p] = dev[b][p]
    BY <1>1, <1>5, <2>1 DEF WritePage, Programmed
  <2>6. \A b \in Blocks, p \in Pages :
          Stored(b, p) => b < eb \/ (b = eb /\ p < pg)
    BY <2>1 DEF Stored
  <2> HIDE DEF IInv, TypeInv, TypeOK, InStep
  <2>7. \A b \in Blocks, p \in Pages : Stored(b, p) => dev'[b][p] = dev[b][p]
    BY <2>1, <2>5, <2>6
  <2>8. PagesInOrder'
    <3> SUFFICES ASSUME NEW b \in Blocks, NEW c \in Blocks,
                        NEW p \in Pages, NEW q \in Pages
                 PROVE  /\ Stored(b, p)' => dev'[b][p] \in 1 .. PagesStored'
                        /\ Stored(b, p)' /\ Stored(c, q)' /\ Before(b, p, c, q)
                             => dev'[b][p] < dev'[c][q]
      BY DEF PagesInOrder, Before
    <3>1. Stored(b, p) => dev'[b][p] \in 1 .. PagesStored
      BY <1>1, <2>7 DEF DataInv, PagesInOrder
    <3>2. Stored(b, p) /\ Stored(c, q) /\ Before(b, p, c, q)
            => dev'[b][p] < dev'[c][q]
      BY <1>1, <2>7 DEF DataInv, PagesInOrder
    <3>3. Before(b, p, c, q) /\ b = eb /\ p = pg => ~Stored(c, q) /\ ~(c = eb /\ q = pg)
      BY <2>1, <2>6 DEF Before
    <3>4. Stored(b, p) => dev'[b][p] < PagesStored'
      BY <2>2, <3>1
    <3>5. Stored(b, p)' => dev'[b][p] \in 1 .. PagesStored'
      <4>1. Stored(b, p)' => Stored(b, p) \/ (b = eb /\ p = pg)
        BY <2>3
      <4>2. 1 .. PagesStored \subseteq 1 .. PagesStored' /\ PagesStored' \in 1 .. PagesStored'
        BY <2>2
      <4>3. CASE Stored(b, p)
        BY <3>1, <4>2, <4>3
      <4>4. CASE b = eb /\ p = pg
        BY <2>4, <4>2, <4>4
      <4>5. QED
        BY <4>1, <4>3, <4>4
    <3>6. CASE c = eb /\ q = pg
      <4>1. Stored(b, p)' /\ Before(b, p, c, q) => Stored(b, p)
        BY <2>1, <2>3, <3>6 DEF Before
      <4>2. QED
        BY <2>4, <3>4, <3>5, <3>6, <4>1
    <3>7. CASE ~(c = eb /\ q = pg)
      <4>1. Stored(c, q)' => Stored(c, q)
        BY <2>3, <3>7
      <4>2. Stored(b, p)' /\ Stored(c, q)' /\ Before(b, p, c, q) => Stored(b, p)
        BY <2>3, <3>3, <4>1
      <4>3. QED
        BY <3>2, <3>5, <4>1, <4>2
    <3>8. QED
      BY <3>6, <3>7
  <2>9. NoPageLost'
    <3> SUFFICES ASSUME NEW i \in 1 .. PagesStored'
                 PROVE  \E b \in Blocks, p \in Pages : Stored(b, p)' /\ dev'[b][p] = i
      BY DEF NoPageLost
    <3>1. CASE i = PagesStored'
      <4>1. \A b \in Blocks, p \in Pages : b = eb /\ p = pg => Stored(b, p)'
        BY <2>3
      <4>2. dev'[eb][pg] = i
        BY <2>4, <3>1
      <4>3. QED
        BY <2>1, <4>1, <4>2
    <3>2. CASE i \in 1 .. PagesStored
      <4>1. PICK b \in Blocks, p \in Pages : Stored(b, p) /\ dev[b][p] = i
        BY <1>1, <3>2 DEF DataInv, NoPageLost
      <4>2. QED
        BY <2>3, <2>7, <4>1
    <3>3. QED
      BY <2>2, <3>1, <3>2
  <2>10. QED
    BY <2>8, <2>9
<1>6. CASE WriteEIO
  <2> DEFINE base == ofg_imglen - imglen - filebuf_len
  <2>1. /\ eb \in Blocks /\ eb \notin bad /\ pg = writebuf /\ writebuf \in Pages
        /\ blockstart = eb /\ Running
    BY <1>1, <1>6 DEF WriteEIO
  <2>2. PagesStored' = base /\ base \in Nat /\ PagesStored = base + writebuf
    BY <1>1, <1>6, <2>1 DEF WriteEIO, Rewind, PagesStored
  <2>3. \A b \in Blocks, p \in Pages : Stored(b, p)' <=> Stored(b, p) /\ b < eb
    BY <1>1, <1>6, <2>1 DEF WriteEIO, Rewind, Stored
  <2>4. \A b \in Blocks, p \in Pages : b < eb => dev'[b][p] = dev[b][p]
    BY <1>6, <2>1 DEF WriteEIO
  <2>5. \A b \in Blocks, p \in Pages :
          Stored(b, p) /\ b < eb => dev[b][p] \in 1 .. base
    <3> SUFFICES ASSUME NEW b \in Blocks, NEW p \in Pages, Stored(b, p), b < eb
                 PROVE  dev[b][p] \in 1 .. base
      OBVIOUS
    <3>1. dev[b][p] <= base
      BY <2>1, FinishedBeforeBuffer
    <3>2. PagesInOrder
      BY <1>1 DEF DataInv
    <3>3. dev[b][p] \in 1 .. PagesStored
      BY <3>2 DEF PagesInOrder
    <3>4. QED
      BY <2>2, <2>1, <3>1, <3>3
  <2> HIDE DEF IInv, TypeInv, TypeOK, InStep
  <2>6. PagesInOrder'
    BY <1>1, <2>2, <2>3, <2>4, <2>5 DEF DataInv, PagesInOrder, Before
  <2>7. NoPageLost'
    <3> SUFFICES ASSUME NEW i \in 1 .. PagesStored'
                 PROVE  \E b \in Blocks, p \in Pages : Stored(b, p)' /\ dev'[b][p] = i
      BY DEF NoPageLost
    <3>1. i \in 1 .. PagesStored /\ i <= base
      <4> HIDE DEF base
      <4>1. i \in 1 .. base
        BY <2>2
      <4>2. writebuf \in Nat
        BY <2>1
      <4>3. base \in Nat /\ PagesStored = base + writebuf
        BY <2>2
      <4>4. QED
        BY <4>1, <4>2, <4>3
    <3> NoPageLost
      BY <1>1 DEF DataInv
    <3>2. PICK b \in Blocks, p \in Pages : Stored(b, p) /\ dev[b][p] = i
      BY <3>1 DEF NoPageLost
    <3>3. CASE b < eb
      BY <2>3, <2>4, <3>2, <3>3
    <3>4. CASE b = eb /\ p < writebuf
      <4>1. BufferMirrorsBlock /\ BufferContinuesImage
        BY <1>1 DEF DataInv
      <4>2. p \in Nat /\ p < writebuf /\ writebuf <= filebuf_len
            /\ writebuf \in Nat /\ filebuf_len \in Nat
        BY <1>1, <2>1, <3>4 DEF TypeInv, TypeOK, InStep
      <4>3. dev[eb][p] = filebuf[p]
        BY <2>1, <4>1, <4>2 DEF BufferMirrorsBlock
      <4>4. filebuf[p] = base + p + 1
        BY <4>1, <4>2 DEF BufferContinuesImage
      <4>5. i = base + p + 1
        BY <3>2, <3>4, <4>3, <4>4
      <4>6. ~(i <= base)
        <5> HIDE DEF base
        <5> QED
          BY <2>2, <4>2, <4>5
      <4>7. QED
        BY <3>1, <4>6
    <3>5. QED
      BY <3>2, <3>3, <3>4 DEF Stored
  <2>8. QED
    BY <2>6, <2>7
<1>7. CASE WriteFails
  <2>1. eb \in Blocks /\ pg = writebuf /\ writebuf \in Pages /\ blockstart = eb
    BY <1>1, <1>7 DEF WriteFails
  <2>2. \A b \in Blocks, p \in Pages :
          b # eb \/ p # pg => dev'[b][p] = dev[b][p]
    BY <1>1, <1>7, <2>1 DEF WriteFails, FailedWrite
  <2>3. SameStore
    BY <1>1, <1>7, <2>1, <2>2 DEF WriteFails, CloseAll, SameStore, PagesStored, Stored
  <2>4. QED
    BY <2>3, SameStoreKeepsOrder
<1>8. CASE EraseBlock \/ EraseFails
  <2>1. Recovering
    BY <1>8 DEF EraseBlock, EraseFails
  <2>2. eb \in Blocks /\ writebuf = 0 /\ blockstart = eb
    BY <1>1, <2>1
  <2>3. /\ UNCHANGED <<bad, ofg_imglen, imglen, eb, blockstart, writebuf, filebuf_len>>
        /\ \E block : dev' = [dev EXCEPT ![blockstart] = block]
    BY <1>8 DEF EraseBlock, EraseFails
  <2>4. \A b \in Blocks : b # eb => dev'[b] = dev[b]
    BY <1>1, <2>2, <2>3
  <2>5. SameStore
    BY <1>1, <2>2, <2>3, <2>4 DEF SameStore, PagesStored, Stored
  <2>6. QED
    BY <2>5, SameStoreKeepsOrder
<1>9. CASE MarkBad
  <2>1. eb \in Blocks /\ writebuf = 0 /\ blockstart = eb
    BY <1>1, <1>9 DEF MarkBad
  <2>2. SameStore
    BY <1>1, <1>9, <2>1 DEF MarkBad, SkipBlock, SameStore, PagesStored, Stored
  <2>3. QED
    BY <2>2, SameStoreKeepsOrder
<1>10. CASE UNCHANGED vars
  <2>1. SameStore
    BY <1>10 DEF vars, SameStore, PagesStored, Stored
  <2>2. QED
    BY <2>1, SameStoreKeepsOrder
<1>11. QED
  BY <1>2, <1>3, <1>4, <1>5, <1>6, <1>7, <1>8, <1>9, <1>10 DEF Next, Returned

(* The invariant holds in every state of nandwrite_main().                 *)
LEMMA Invariance == Spec => []IInv
<1>1. Init => IInv
  BY TypeInit, DataInit DEF IInv
<1>2. IInv /\ [Next]_vars => IInv'
  BY TypeNext, BufferNext, AheadNext, OrderNext DEF IInv, DataInv
<1>3. QED
  BY <1>1, <1>2, PTL DEF Spec

(* What nandwrite_main() has written is readable in image order from the   *)
(* good blocks, without repeated, swapped or garbage pages, on every       *)
(* device and after any number of failing blocks.                          *)
THEOREM OrderKept == Spec => []PagesInOrder
<1>1. IInv => PagesInOrder
  BY DEF IInv, DataInv
<1>2. QED
  BY <1>1, Invariance, PTL

(* No image page that left the buffer is missing: with OrderKept, the good *)
(* blocks hold exactly the pages 1 .. PagesStored of the image.            *)
THEOREM NothingLost == Spec => []NoPageLost
<1>1. IInv => NoPageLost
  BY DEF IInv, DataInv
<1>2. QED
  BY <1>1, Invariance, PTL

(* Blocks that are marked bad stay as they are: the block written, erased  *)
(* or marked is the one in progress, which is good.                        *)
LEMMA BadKept == TypeInv /\ [Next]_vars => \A b \in bad : b \in bad' /\ dev'[b] = dev[b]
<1> SUFFICES ASSUME TypeInv, [Next]_vars
             PROVE  \A b \in bad : b \in bad' /\ dev'[b] = dev[b]
  OBVIOUS
<1> USE DEF TypeInv, TypeOK, InStep, Recovering, devVars
<1>1. CASE WritePage \/ WriteEIO \/ WriteFails
  BY <1>1 DEF WritePage, WriteEIO, WriteFails
<1>2. CASE EraseBlock \/ EraseFails
  BY <1>2 DEF EraseBlock, EraseFails
<1>3. CASE MarkBad
  BY <1>3 DEF MarkBad
<1>4. CASE UNCHANGED devVars
  BY <1>4
<1>5. QED
  BY <1>1, <1>2, <1>3, <1>4
     DEF Next, Returned, vars, OpenFails, Open, LoopExit, NewBlock,
         BadCheckFails, ReadPage, ReadEnds, Replay, MarkFails

(* Blocks that are marked bad stay marked, and as they are.                *)
THEOREM BadLeftAlone == Spec => BadBlocksLeftAlone
<1>1. IInv /\ [Next]_vars => [\A b \in bad : b \in bad' /\ dev'[b] = dev[b]]_vars
  BY BadKept DEF IInv
<1>2. QED
  BY <1>1, Invariance, PTL DEF Spec, BadBlocksLeftAlone

(* The loop never looks for a block without something left to write.       *)
SomethingLeft ==
  pc = "inner" /\ ofg_imglen > 0 => imglen > 0 \/ writebuf < filebuf_len

WarnInv == SomethingLeft /\ WarnedIffIncomplete

(* A page is missing exactly when one is left to read or to write.         *)
Missing == imglen > 0 \/ writebuf < filebuf_len

(* What CloseAll looks at tells whether pages are missing.                *)
LEMMA MissingPages ==
  ASSUME IInv, ofg_imglen > 0
  PROVE  PagesStored < ofg_imglen <=> Missing
<1> USE DEF IInv, TypeInv, TypeOK, InStep, NotStarted, PagesStored, Missing
<1>1. CASE writebuf = -1
  BY <1>1, MaxImgPagesAssumption
<1>2. CASE writebuf # -1
  BY <1>2, MaxImgPagesAssumption, PagesPerEbAssumption
<1>3. QED
  BY <1>1, <1>2

(* closeall: prints the warning exactly when pages are missing.            *)
LEMMA CloseAllHonest ==
  ASSUME IInv, NEW failed \in BOOLEAN, CloseAll(failed), UNCHANGED bufVars,
         UNCHANGED imgVars, failed /\ ofg_imglen > 0 => Missing
  PROVE  WarnInv'
<1>1. warned' <=> failed \/ Missing
  BY DEF CloseAll, Missing
<1>2. PagesStored' = PagesStored /\ ofg_imglen' = ofg_imglen /\ pc' = "done"
  BY DEF CloseAll, PagesStored, bufVars, imgVars
<1>3. WarnedIffIncomplete'
  BY <1>1, <1>2, MissingPages DEF WarnedIffIncomplete
<1>4. QED
  BY <1>2, <1>3 DEF WarnInv, SomethingLeft

(* No other step prints it, or adds pages after it.                        *)
LEMMA WarnNext == IInv /\ IInv' /\ WarnInv /\ [Next]_vars => WarnInv'
<1> SUFFICES ASSUME IInv, IInv', WarnInv, [Next]_vars PROVE WarnInv'
  OBVIOUS
<1> USE EbCntAssumption, PagesPerEbAssumption, MaxImgPagesAssumption
<1>1. InBody /\ blockstart # eb /\ ofg_imglen > 0 => Missing
  BY DEF IInv, TypeInv, TypeOK, InStep, NotStarted, WarnInv, SomethingLeft,
         Missing, InBody, LoopCond
<1>2. CASE OpenFails
  BY <1>2 DEF OpenFails, WarnInv, SomethingLeft, WarnedIffIncomplete
<1>3. CASE Open
  <2>1. ofg_imglen > 0 => Missing
    BY <1>3 DEF Open, IInv, TypeInv, TypeOK, InStep, NotStarted, Missing
  <2>2. CASE CloseAll(TRUE)
    BY <1>3, <2>1, <2>2, CloseAllHonest DEF Open
  <2>3. CASE pc' = "outer"
    BY <2>3 DEF WarnInv, SomethingLeft, WarnedIffIncomplete
  <2>4. QED
    BY <1>3, <2>2, <2>3 DEF Open
<1>4. CASE LoopExit
  BY <1>4, CloseAllHonest DEF LoopExit
<1>5. CASE NewBlock
  <2>1. ofg_imglen > 0 => Missing'
    BY <1>1, <1>5 DEF NewBlock, IInv, TypeInv, TypeOK, InStep, NotStarted, Missing,
                      StartBuffer, InBody, LoopCond
  <2>2. QED
    BY <1>5, <2>1 DEF NewBlock, imgVars, Missing, WarnInv, SomethingLeft,
                      WarnedIffIncomplete
<1>6. CASE BadCheckFails
  <2>1. ofg_imglen > 0 => Missing'
    BY <1>1, <1>6 DEF BadCheckFails, IInv, TypeInv, TypeOK, InStep, NotStarted,
                      Missing, StartBuffer, InBody, LoopCond
  <2>2. ofg_imglen' > 0 => (PagesStored < ofg_imglen)'
    <3>1. IInv' /\ (ofg_imglen > 0)' => (PagesStored < ofg_imglen <=> Missing)'
      BY MissingPages, PTL
    <3>2. QED
      BY <1>6, <2>1, <3>1 DEF BadCheckFails, imgVars
  <2>3. QED
    BY <1>6, <2>2 DEF BadCheckFails, WarnInv, SomethingLeft, WarnedIffIncomplete
<1>7. CASE ReadPage \/ Replay \/ WritePage \/ WriteEIO \/ EraseBlock \/ MarkBad
  BY <1>7 DEF ReadPage, Replay, WritePage, WriteEIO, EraseBlock, MarkBad,
              WarnInv, SomethingLeft, WarnedIffIncomplete
<1>8. CASE ReadEnds
  <2>1. ofg_imglen > 0 => Missing
    BY <1>8 DEF ReadEnds, InBody, LoopCond, NeedRead, Missing, WarnInv, SomethingLeft,
                IInv, TypeInv, TypeOK, InStep
  <2>2. QED
    BY <1>8, <2>1, CloseAllHonest DEF ReadEnds
<1>9. CASE WriteFails \/ EraseFails \/ MarkFails
  <2>1. pc \in {"write", "erase", "mark"}
    BY <1>9 DEF WriteFails, EraseFails, MarkFails
  <2>2. Missing
    BY <2>1 DEF Missing, Recovering, IInv, TypeInv, TypeOK, InStep, Pages
  <2>3. QED
    BY <1>9, <2>2, CloseAllHonest DEF WriteFails, EraseFails, MarkFails
<1>10. CASE UNCHANGED vars
  BY <1>10 DEF vars, imgVars, bufVars, outVars, WarnInv, SomethingLeft,
               WarnedIffIncomplete, PagesStored
<1>11. QED
  BY <1>2, <1>3, <1>4, <1>5, <1>6, <1>7, <1>8, <1>9, <1>10 DEF Next, Returned

(* Whatever exit nandwrite_main() takes, its warning tells whether the     *)
(* image is complete (the return value does not).                          *)
THEOREM WarningHonest == Spec => []WarnedIffIncomplete
<1>1. Init => WarnInv
  BY DEF Init, WarnInv, SomethingLeft, WarnedIffIncomplete
<1>2. Spec => []WarnInv
  BY <1>1, Invariance, WarnNext, PTL DEF Spec
<1>3. WarnInv => WarnedIffIncomplete
  BY DEF WarnInv
<1>4. QED
  BY <1>2, <1>3, PTL

(* A return that prints no warning leaves the loop with every page of the  *)
(* buffer written, and what lies ahead of the position is erased.          *)
LEMMA BehindNext ==
  IInv /\ NothingBehindImage /\ [Next]_vars => NothingBehindImage'
<1> SUFFICES ASSUME IInv, NothingBehindImage, [Next]_vars PROVE NothingBehindImage'
  OBVIOUS
<1> USE DEF CloseAll, devVars, posVars, bufVars, outVars
<1>1. CASE LoopExit \/ ReadEnds
  <2>1. /\ pc \in {"outer", "inner"} /\ (pc = "outer" \/ blockstart = eb)
        /\ UNCHANGED <<dev, bad, eb, blockstart, writebuf>>
    BY <1>1 DEF LoopExit, ReadEnds, InBody
  <2> SUFFICES ASSUME NEW b \in Blocks \ bad, NEW p \in Pages
               PROVE  Stored(b, p) \/ dev[b][p] = Erased
    BY <2>1 DEF NothingBehindImage, Stored
  <2> USE DEF IInv, TypeInv, TypeOK, InStep, DataInv, AheadErased, Running,
              Recovering, Blocks, Pages
  <2>2. CASE b < eb
    BY <2>2 DEF Stored
  <2>3. CASE b > eb
    <3>1. dev[b] = ErasedBlock /\ p \in Pages
      BY <2>1, <2>3
    <3> HIDE DEF IInv, TypeInv, TypeOK, InStep, DataInv, Pages
    <3> QED
      BY <3>1 DEF ErasedBlock
  <2>4. CASE b = eb
    <3>1. CASE blockstart = eb
      BY <2>1, <2>4, <3>1 DEF Stored
    <3>2. CASE blockstart # eb
      BY <2>1, <2>4, <3>2
    <3> QED
      BY <3>1, <3>2
  <2> QED
    BY <2>2, <2>3, <2>4, EbCntAssumption
<1>2. CASE OpenFails
  BY <1>2 DEF OpenFails, NothingBehindImage
<1>3. CASE Open
  BY <1>3 DEF Open, NothingBehindImage
<1>4. CASE BadCheckFails
  BY <1>4 DEF BadCheckFails, NothingBehindImage
<1>5. CASE WriteFails \/ EraseFails \/ MarkFails
  BY <1>5 DEF WriteFails, EraseFails, MarkFails, NothingBehindImage
<1>6. CASE pc' # "done"
  BY <1>6 DEF NothingBehindImage
<1>7. CASE UNCHANGED vars
  BY <1>7 DEF vars, NothingBehindImage, Stored
<1>8. QED
  BY <1>1, <1>2, <1>3, <1>4, <1>5, <1>6, <1>7
     DEF Next, Returned, NewBlock, ReadPage, Replay, WritePage, WriteEIO, EraseBlock,
         MarkBad

(* After a return without warning the good blocks hold the image and are   *)
(* erased behind it.                                                       *)
THEOREM ErasedBehind == Spec => []NothingBehindImage
<1>1. Init => NothingBehindImage
  BY DEF Init, NothingBehindImage
<1>2. QED
  BY <1>1, Invariance, BehindNext, PTL DEF Spec

(* Until the failing block is erased, nothing in it is programmed behind   *)
(* the page that failed.                                                   *)
FailedBlockInv ==
  pc = "erase" => \A p \in Pages : p > pg => dev[eb][p] = Erased

(* A write that fails harms its own page only.                             *)
LEMMA OtherPagesKept ==
  ASSUME dev \in [Blocks -> [Pages -> Content(MaxImgPages)]], eb \in Blocks,
         \E block \in FailedWrite(dev[eb], pg) : dev' = [dev EXCEPT ![eb] = block]
  PROVE  \A b \in Blocks, p \in Pages :
           b # eb \/ p # pg => dev'[b][p] = dev[b][p]
<1>1. PICK block \in FailedWrite(dev[eb], pg) : dev' = [dev EXCEPT ![eb] = block]
  OBVIOUS
<1>2. \A p \in Pages : p # pg => block[p] = dev[eb][p]
  BY <1>1 DEF FailedWrite
<1>3. QED
  BY <1>1, <1>2

(* The block to be erased is the one whose write failed.                   *)
LEMMA FailedBlockNext ==
  IInv /\ FailedBlockInv /\ [Next]_vars => FailedBlockInv'
<1> SUFFICES ASSUME IInv, FailedBlockInv, [Next]_vars PROVE FailedBlockInv'
  OBVIOUS
<1>1. CASE WriteEIO
  <2>1. /\ eb \in Blocks /\ pg \in Pages
        /\ \A p \in Pages : p >= pg => dev[eb][p] = Erased
    BY <1>1, EbCntAssumption
       DEF WriteEIO, IInv, TypeInv, TypeOK, InStep, DataInv, AheadErased, Recovering,
           Pages, Blocks
  <2>2. \A p \in Pages : p # pg => dev'[eb][p] = dev[eb][p]
    BY <1>1, <2>1, OtherPagesKept DEF WriteEIO, IInv, TypeInv, TypeOK
  <2> QED
    BY <1>1, <2>1, <2>2 DEF WriteEIO, posVars, FailedBlockInv, Pages
<1>2. CASE pc' # "erase"
  BY <1>2 DEF FailedBlockInv
<1>3. CASE UNCHANGED vars
  BY <1>3 DEF vars, devVars, posVars, FailedBlockInv
<1>4. QED
  BY <1>1, <1>2, <1>3
     DEF Next, Returned, CloseAll, OpenFails, Open, LoopExit, NewBlock, BadCheckFails,
         ReadPage, ReadEnds, Replay, WritePage, WriteFails, EraseBlock, EraseFails,
         MarkBad, MarkFails

(* Only erased pages are programmed, and only the block whose pages wait   *)
(* in the buffer is erased.                                                *)
THEOREM FlashDiscipline == Spec => OnlyErasedPagesProgrammed
<1> DEFINE A == \A b \in Blocks, p \in Pages :
                  dev'[b][p] # dev[b][p] =>
                    \/ dev[b][p] = Erased
                    \/ b = eb /\ p <= pg /\ p < filebuf_len /\ writebuf = 0
<1>1. IInv /\ FailedBlockInv /\ [Next]_vars => [A]_vars
  <2> SUFFICES ASSUME IInv, FailedBlockInv, Next,
                      NEW b \in Blocks, NEW p \in Pages, dev'[b][p] # dev[b][p],
                      dev[b][p] # Erased
               PROVE  b = eb /\ p <= pg /\ p < filebuf_len /\ writebuf = 0
    OBVIOUS
  <2> USE DEF IInv, TypeInv, TypeOK, InStep, DataInv, AheadErased, Running,
              Recovering, devVars, Pages, Blocks
  <2>1. CASE WritePage
    BY <2>1 DEF WritePage, Programmed
  <2>2. CASE WriteEIO \/ WriteFails
    <3>0. pc = "write"
      BY <2>2 DEF WriteEIO, WriteFails
    <3>1. eb \in Blocks /\ dev[eb][pg] = Erased
      BY <3>0, EbCntAssumption
    <3>2. b # eb \/ p # pg => dev'[b][p] = dev[b][p]
      BY <2>2, <3>1, OtherPagesKept DEF WriteEIO, WriteFails
    <3> QED
      BY <3>1, <3>2
  <2>3. CASE EraseBlock \/ EraseFails
    <3>1. /\ eb \in Blocks /\ pg \in Pages /\ blockstart = eb /\ writebuf = 0
          /\ pg < filebuf_len /\ pc = "erase"
      BY <2>3, EbCntAssumption DEF EraseBlock, EraseFails
    <3>2. b # eb => dev'[b] = dev[b]
      BY <2>3, <3>1 DEF EraseBlock, EraseFails
    <3>3. ~(p > pg)
      BY <3>1, <3>2 DEF FailedBlockInv
    <3> QED
      BY <3>1, <3>2, <3>3
  <2>4. CASE UNCHANGED dev
    BY <2>4
  <2>5. QED
    BY <2>1, <2>2, <2>3, <2>4
       DEF Next, Returned, vars, OpenFails, Open, LoopExit, NewBlock,
           BadCheckFails, ReadPage, ReadEnds, Replay, MarkBad, MarkFails
<1>2. Init => FailedBlockInv
  BY DEF Init, FailedBlockInv
<1>3. Spec => []FailedBlockInv
  BY <1>2, Invariance, FailedBlockNext, PTL DEF Spec
<1>4. QED
  BY <1>1, <1>3, Invariance, PTL DEF Spec, OnlyErasedPagesProgrammed

------------------------------------------------------------------------------
(* One step of nandwrite_main() makes the progress MovesOn names.          *)
Progress ==
  \/ eb' > eb
  \/ eb' = eb /\ blockstart' > blockstart
  \/ UNCHANGED <<eb, blockstart>> /\ pg' > pg
  \/ UNCHANGED posVars /\ Stage[pc'] > Stage[pc]

(* A step that leaves the offset alone comes closer to one that does not.  *)
LEMMA StageProgress ==
  ASSUME UNCHANGED posVars,
         \/ pc = "open" /\ pc' \in {"outer", "done"}
         \/ pc \in {"outer", "inner"} /\ pc' \in {"write", "done"}
         \/ pc = "write" /\ pc' \in {"erase", "done"}
         \/ pc = "erase" /\ pc' \in {"mark", "done"}
         \/ pc = "mark" /\ pc' = "done"
  PROVE  Progress
BY DEF Progress, Stage

(* A block is taken up once, a page written moves the offset, and a block  *)
(* marked bad is left.                                                     *)
LEMMA ProgressNext == TypeInv /\ [Next]_vars => Progress \/ UNCHANGED vars
<1> SUFFICES ASSUME TypeInv, [Next]_vars PROVE Progress \/ UNCHANGED vars
  OBVIOUS
<1> USE EbCntAssumption, PagesPerEbAssumption
<1>1. eb \in Nat /\ pg \in Nat /\ blockstart \in Int
  BY DEF TypeInv, TypeOK, Pages
<1>2. CASE OpenFails \/ Open \/ LoopExit \/ ReadPage \/ ReadEnds \/ Replay
  BY <1>2, StageProgress
     DEF OpenFails, Open, LoopExit, ReadPage, ReadEnds, Replay, InBody, CloseAll
<1>3. CASE NewBlock \/ BadCheckFails
  <2>1. blockstart' = eb /\ blockstart < eb
    BY <1>1, <1>3 DEF NewBlock, BadCheckFails, InBody, TypeInv, InStep
  <2>2. eb' = eb \/ eb' = eb + 1
    BY <1>3 DEF NewBlock, BadCheckFails, SkipBlock
  <2>3. QED
    BY <1>1, <2>1, <2>2 DEF Progress
<1>4. CASE WritePage
  BY <1>1, <1>4 DEF WritePage, Advance, Progress
<1>5. CASE WriteEIO \/ WriteFails \/ EraseBlock \/ EraseFails \/ MarkFails
  BY <1>5, StageProgress
     DEF WriteEIO, WriteFails, EraseBlock, EraseFails, MarkFails, CloseAll
<1>6. CASE MarkBad
  BY <1>1, <1>6 DEF MarkBad, SkipBlock, Progress
<1>7. QED
  BY <1>2, <1>3, <1>4, <1>5, <1>6 DEF Next, Returned

(* However often programming fails and the buffer is replayed, no state of *)
(* the loops comes back.                                                   *)
THEOREM NoEndlessLoop == Spec => MovesOn
<1>1. Spec => []TypeInv
  BY TypeInit, TypeNext, PTL DEF Spec
<1>2. TypeInv /\ [Next]_vars => [Progress]_vars
  BY ProgressNext
<1>3. Spec => [][Progress]_vars
  BY <1>1, <1>2, PTL DEF Spec
<1>4. QED
  BY <1>3 DEF MovesOn, Progress
==============================================================================
