--------------------------- MODULE FlashNandProofs ---------------------------
(***************************************************************************)
(* Proofs about the jobs on raw flash, for every device and image size.    *)
(***************************************************************************)
EXTENDS FlashNand, NandWriteImplProofs

(* Types, and which tool is used: the flash type decides, and only NAND has*)
(* bad blocks.                                                             *)
KindInv ==
  /\ TypeInv
  /\ mtype \in {"nand", "mlc", "nor", "other"} 
  /\ job \in Jobs /\ todo \subseteq Jobs
  /\ ~Nand => bad = {}
  /\ complained \in BOOLEAN
  /\ stage = "start" => epc = "idle" /\ cpc = "idle"
  /\ stage \in {"start", "erase", "copy"} => pc = "open"
  /\ stage \in {"erase", "write"} => UsesErase
  /\ stage \in {"copy", "rebooted"} => UsesCopy
  /\ stage = "flashed" => \/ UsesUbi
                          \/ UsesErase /\ pc = "done" /\ result = 0
                          \/ UsesCopy /\ cpc = "done" /\ cresult = 0
  /\ stage = "rebooted" => cpc = "rebooted"

(* flash_erase has erased the good blocks it has passed.                   *)
ErasedTo(d, g, n) == \A b \in g : b < n => d[b] = ErasedBlock

EraseInv ==
  stage = "erase" =>
    /\ epc \in {"prepare", "loop", "cleanmarker", "done"}
    /\ epc = "prepare" => eeb = 0
    /\ epc \in {"loop", "cleanmarker"} => eeb \in 0 .. EbCnt
    /\ epc = "cleanmarker" => eeb \in Blocks
    /\ epc = "loop" /\ ~complained => ErasedTo(dev, Good, eeb)
    /\ epc = "cleanmarker" /\ ~complained => ErasedTo(dev, Good, eeb + 1)
    /\ epc = "done" /\ eresult = 0 /\ ~complained => ErasedTo(dev, Good, EbCnt)

(* nandwrite works on erased blocks, unless flash_erase complained.        *)
CompleteInv == Outcome = "complete" => Kept = ofg_imglen

WriteInv ==
  stage \in {"write", "flashed"} /\ UsesErase /\ ~complained =>
    StoreInv /\ NothingBehindImage /\ CompleteInv

(* flashcp erases the blocks of the image and then fills them.             *)
NorPage(b, p) == b * PagesPerEb + p

Filled(d, n) ==
  \A b \in Blocks, p \in Pages : NorPage(b, p) < n => d[b][p] = NorPage(b, p) + 1

Free(d, n, len) ==
  \A b \in Blocks, p \in Pages :
    n <= NorPage(b, p) /\ NorPage(b, p) < len => d[b][p] = Erased

CopyInv ==
  stage \in {"copy", "flashed", "rebooted"} /\ UsesCopy =>
    /\ cpc \in {"open", "erase", "write", "done", "rebooted"}
    /\ ceb \in Nat /\ written \in Nat
    /\ cpc \in {"open", "erase"} => written = 0
    /\ cpc = "open" => ceb = 0
    /\ cpc \in {"erase", "write"} => Copy!CopyFits /\ ceb <= Copy!BlocksToErase
    /\ cpc = "erase" => ErasedTo(dev, Blocks, ceb)
    /\ cpc = "write" =>
         /\ written <= ofg_imglen
         /\ Filled(dev, written) /\ Free(dev, written, ofg_imglen)
    /\ (cpc = "done" /\ cresult = 0) \/ cpc = "rebooted" => Copy!CopyFits /\ Filled(dev, ofg_imglen)

FlashInv == KindInv /\ EraseInv /\ WriteInv /\ CopyInv

------------------------------------------------------------------------------
(* A partition that has just been opened has the types of nandwrite.       *)
LEMMA NandInitType == NandInit => TypeInv
<1> SUFFICES ASSUME NandInit PROVE TypeInv
  OBVIOUS
<1> USE EbCntAssumption, PagesPerEbAssumption, MaxImgPagesAssumption
<1>1. dev \in [Blocks -> [Pages -> Content(MaxImgPages)]]
  BY ErasedBlockType DEF NandInit, BlockType
<1>2. filebuf \in [Pages -> Content(MaxImgPages)]
  BY ErasedBlockType DEF NandInit, BlockType, EmptyBuf
<1>3. bad \in SUBSET Blocks
  BY DEF NandInit
<1>4. pc \in PC /\ result \in {-1, 0} /\ warned \in BOOLEAN
  BY DEF NandInit, PC
<1>5. /\ ofg_imglen \in 0 .. MaxImgPages /\ tail \in {0, 1} /\ imglen \in 0 .. ofg_imglen
      /\ eb \in 0 .. EbCnt /\ pg \in Pages /\ blockstart \in -1 .. EbCnt
      /\ filebuf_len \in 0 .. PagesPerEb /\ writebuf \in -1 .. PagesPerEb
  BY DEF NandInit, Pages
<1>6. TypeOK
  BY <1>1, <1>2, <1>3, <1>4, <1>5 DEF TypeOK
<1>7. InStep
  BY DEF NandInit, InStep, NotStarted, Running, Recovering
<1> QED
  BY <1>6, <1>7 DEF TypeInv

(* A tool that writes blocks to the partition keeps the types.             *)
LEMMA DevType ==
  ASSUME TypeInv, dev' \in [Blocks -> BlockType],
         UNCHANGED <<bad, nandVars>>
  PROVE  TypeInv'
BY DEF TypeInv, TypeOK, BlockType, InStep, NotStarted, Running, Recovering, nandVars,
       imgVars, posVars, bufVars, outVars

(* FlashErase sees the same partition.                                     *)
LEMMA EraseSame ==
  /\ Erase!Blocks = Blocks /\ Erase!Pages = Pages
  /\ Erase!ErasedBlock = ErasedBlock /\ Erase!GarbageBlock = GarbageBlock
  /\ \A block : Erase!FailedErase(block) = FailedErase(block)
BY DEF Erase!Blocks, Blocks, Erase!Pages, Pages, Erase!ErasedBlock, ErasedBlock,
       Erase!GarbageBlock, GarbageBlock, Erase!FailedErase, FailedErase,
       Erase!Erased, Erased, Erase!Garbage, Garbage

(* So does FlashCp.                                                        *)
LEMMA CopySame ==
  /\ Copy!Blocks = Blocks /\ Copy!Pages = Pages
  /\ Copy!ErasedBlock = ErasedBlock /\ Copy!GarbageBlock = GarbageBlock
  /\ \A block : Copy!FailedErase(block) = FailedErase(block)
  /\ \A block, p : Copy!FailedWrite(block, p) = FailedWrite(block, p)
  /\ \A block, p, x : Copy!Programmed(block, p, x) = Programmed(block, p, x)
BY DEF Copy!Blocks, Blocks, Copy!Pages, Pages, Copy!ErasedBlock, ErasedBlock,
       Copy!GarbageBlock, GarbageBlock, Copy!FailedErase, FailedErase,
       Copy!FailedWrite, FailedWrite, Copy!Programmed, Programmed,
       Copy!Erased, Erased, Copy!Garbage, Garbage

(* A step of flash_erase in words of the partition: it erases the block of *)
(* the loop or fails to, unless that one is bad.                           *)
ErasesOne ==
  \/ dev' = dev
  \/ /\ epc = "loop" /\ eeb < EbCnt /\ eeb \notin bad
     /\ \E block \in {ErasedBlock} \union FailedErase(dev[eeb]) :
          dev' = [dev EXCEPT ![eeb] = block]

(* No step of flash_erase does more to the flash.                          *)
LEMMA EraseStepDev ==
  ASSUME Erase!EraseStep
  PROVE  ErasesOne /\ UNCHANGED <<bad, mtype>>
BY EraseSame
   DEF ErasesOne, Erase!EraseStep, Erase!EraseRefused, Erase!ErasePrepared, Erase!SkipBad,
       Erase!EraseBadCheckFails, Erase!EraseOk, Erase!EraseFailure, Erase!Cleanmarker,
       Erase!EraseDone, Erase!InLoop, Erase!EraseReturns, Erase!statics

(* The loop of flash_erase stays on the device.                            *)
LEMMA EraseBlockInLoop ==
  ASSUME EraseInv, stage = "erase", epc = "loop", eeb < EbCnt
  PROVE  eeb \in Blocks
BY EbCntAssumption DEF EraseInv, Blocks

(* The pages of the image are in the blocks that flashcp counts, and those *)
(* blocks begin in front of its end.                                       *)
LEMMA ToErase ==
  ASSUME NEW n \in Nat, NEW k \in Nat \ {0}, NEW c \in Nat
  PROVE  c < (n + k - 1) \div k <=> c * k < n
<1> DEFINE q == (n + k - 1) \div k
           r == (n + k - 1) % k
<1>1. n + k - 1 \in Nat
  OBVIOUS
<1>2. q \in Nat /\ r \in Nat /\ r < k /\ n + k - 1 = q * k + r
  BY <1>1, Divide
<1> HIDE DEF q, r
<1>3. ASSUME c < q PROVE c * k < n
  <2>1. c + 1 <= q
    BY <1>2, <1>3
  <2>2. (c + 1) * k <= q * k /\ (c + 1) * k = c * k + k /\ c * k \in Nat /\ q * k \in Nat
    BY <1>2, <2>1, Times
  <2> QED
    BY <1>2, <2>2
<1>4. ASSUME q <= c PROVE ~(c * k < n)
  <2>1. q * k <= c * k /\ c * k \in Nat /\ q * k \in Nat
    BY <1>2, <1>4, Times
  <2> QED
    BY <1>2, <2>1
<1>5. c < q <=> c * k < n
  BY <1>2, <1>3, <1>4
<1> QED
  BY <1>5 DEF q

(* A block that flashcp counts is on the device and begins in front of the *)
(* end of the image.                                                       *)
LEMMA CountedBlock ==
  ASSUME TypeInv, NEW c \in Nat, c < Copy!BlocksToErase, Copy!CopyFits
  PROVE  c * PagesPerEb < ofg_imglen /\ c \in Blocks
<1>1. PagesPerEb \in Nat \ {0} /\ EbCnt \in Nat /\ ofg_imglen \in Nat
  BY PagesPerEbAssumption, EbCntAssumption, MaxImgPagesAssumption DEF TypeInv, TypeOK
<1>2. c * PagesPerEb < ofg_imglen
  BY <1>1, ToErase DEF Copy!BlocksToErase
<1>3. CASE EbCnt <= c
  <2>1. EbCnt * PagesPerEb <= c * PagesPerEb
    BY <1>1, <1>3, Times
  <2> QED
    BY <1>1, <1>2, <2>1, Times DEF Copy!CopyFits
<1> QED
  BY <1>1, <1>2, <1>3 DEF Blocks

(* Where flashcp writes is a page of the device, inside the image.         *)
LEMMA CopyPlace ==
  ASSUME TypeInv, written \in Nat, written < ofg_imglen, Copy!CopyFits
  PROVE  /\ Copy!CopyEb \in Blocks /\ Copy!CopyPg \in Pages
         /\ written = NorPage(Copy!CopyEb, Copy!CopyPg)
         /\ Copy!CopyEb * PagesPerEb < ofg_imglen
<1> DEFINE q == written \div PagesPerEb
           r == written % PagesPerEb
<1>1. PagesPerEb \in Nat \ {0} /\ EbCnt \in Nat /\ ofg_imglen \in Nat
  BY PagesPerEbAssumption, EbCntAssumption, MaxImgPagesAssumption DEF TypeInv, TypeOK
<1>2. q \in Nat /\ r \in Nat /\ r < PagesPerEb /\ written = q * PagesPerEb + r
  BY <1>1, Divide
<1>3. ofg_imglen <= EbCnt * PagesPerEb
  BY DEF Copy!CopyFits
<1> HIDE DEF q, r
<1>4. q * PagesPerEb \in Nat /\ EbCnt * PagesPerEb \in Nat
  BY <1>1, <1>2, Times
<1>5. q < EbCnt
  <2>1. CASE EbCnt <= q
    <3>1. EbCnt * PagesPerEb <= q * PagesPerEb
      BY <1>1, <1>2, <2>1, Times
    <3> QED
      BY <1>1, <1>2, <1>3, <1>4, <3>1
  <2> QED
    BY <1>1, <1>2, <2>1
<1>6. q * PagesPerEb < ofg_imglen
  BY <1>1, <1>2, <1>4
<1> QED
  BY <1>1, <1>2, <1>5, <1>6 DEF q, r, Copy!CopyEb, Copy!CopyPg, NorPage, Blocks, Pages

(* A step of flashcp in words of the partition: it works on one block that *)
(* begins in front of the end of the image.                                *)
CopiesOne ==
  \/ dev' = dev
  \/ \E b \in Blocks, block \in BlockType :
       b * PagesPerEb < ofg_imglen /\ dev' = [dev EXCEPT ![b] = block]

(* No step of flashcp does more to the flash.                              *)
LEMMA CopyStepDev ==
  ASSUME TypeInv, CopyInv, stage = "copy", UsesCopy, Copy!CopyStep
  PROVE  CopiesOne /\ UNCHANGED ofg_imglen
<1> USE DEF Copy!CopyReturns
<1>1. CASE Copy!CopyOpen \/ Copy!CopyErased \/ Copy!CopyDone
  BY <1>1 DEF Copy!CopyOpen, Copy!CopyErased, Copy!CopyDone, CopiesOne
<1>2. CASE Copy!CopyErase \/ Copy!CopyEraseFails
  <2>1. /\ cpc = "erase" /\ ceb < Copy!BlocksToErase /\ UNCHANGED ofg_imglen
        /\ \E block \in {ErasedBlock, GarbageBlock, dev[ceb]} : dev' = [dev EXCEPT ![ceb] = block]
    BY <1>2, CopySame DEF Copy!CopyErase, Copy!CopyEraseFails, FailedErase
  <2>2. ceb \in Nat /\ Copy!CopyFits
    BY <2>1 DEF CopyInv
  <2>3. ceb * PagesPerEb < ofg_imglen /\ ceb \in Blocks
    BY <2>1, <2>2, CountedBlock
  <2>4. {ErasedBlock, GarbageBlock, dev[ceb]} \subseteq BlockType
    BY <2>3, ErasedBlockType DEF TypeInv, TypeOK, BlockType
  <2> QED
    BY <2>1, <2>3, <2>4 DEF CopiesOne
<1>3. CASE Copy!CopyWrite \/ Copy!CopyWriteFails
  <2>1. cpc = "write" /\ written < ofg_imglen /\ UNCHANGED ofg_imglen
    BY <1>3 DEF Copy!CopyWrite, Copy!CopyWriteFails
  <2>2. written \in Nat /\ Copy!CopyFits
    BY <2>1 DEF CopyInv
  <2>3. /\ Copy!CopyEb \in Blocks /\ Copy!CopyPg \in Pages
        /\ Copy!CopyEb * PagesPerEb < ofg_imglen
    BY <2>1, <2>2, CopyPlace
  <2>4. dev[Copy!CopyEb] \in BlockType
    BY <2>3 DEF TypeInv, TypeOK, BlockType
  <2>5. written + 1 \in Content(MaxImgPages)
    BY <2>1, <2>2, MaxImgPagesAssumption DEF TypeInv, TypeOK, Content
  <2>6. Programmed(dev[Copy!CopyEb], Copy!CopyPg, written + 1) \in BlockType
    BY <2>3, <2>4, <2>5, ProgrammedType
  <2>7. FailedWrite(dev[Copy!CopyEb], Copy!CopyPg) \subseteq BlockType
    BY <2>3, <2>4, FailedType
  <2>8. \E block \in BlockType : dev' = [dev EXCEPT ![Copy!CopyEb] = block]
    BY <1>3, <2>6, <2>7, CopySame DEF Copy!CopyWrite, Copy!CopyWriteFails
  <2> QED
    BY <2>1, <2>3, <2>8 DEF CopiesOne
<1> QED
  BY <1>1, <1>2, <1>3 DEF Copy!CopyStep

------------------------------------------------------------------------------
(* The blocks that flash_erase writes are blocks.                          *)
LEMMA ErasesOneType ==
  ASSUME TypeInv, EraseInv, stage = "erase", ErasesOne
  PROVE  dev' \in [Blocks -> BlockType]
<1>1. dev \in [Blocks -> BlockType]
  BY DEF TypeInv, TypeOK, BlockType
<1>2. CASE dev' = dev
  BY <1>1, <1>2
<1>3. CASE dev' # dev
  <2>1. PICK block \in {ErasedBlock} \union FailedErase(dev[eeb]) :
          dev' = [dev EXCEPT ![eeb] = block]
    BY <1>3 DEF ErasesOne
  <2>2. eeb \in Blocks
    BY <1>3, EraseBlockInLoop DEF ErasesOne
  <2>3. block \in BlockType
    BY <1>1, <2>1, <2>2, ErasedBlockType, FailedType
  <2> QED
    BY <1>1, <2>1, <2>3
<1> QED
  BY <1>2, <1>3

(* The jobs keep the types, and every stage is reached by the branch for   *)
(* its flash and its rootfs.                                               *)
LEMMA KindNext == FlashInv /\ [FlashNext]_allVars => KindInv'
<1> SUFFICES ASSUME FlashInv, [FlashNext]_allVars PROVE KindInv'
  OBVIOUS
<1>0. TypeInv /\ KindInv
  BY DEF FlashInv, KindInv
<1> USE DEF UsesErase, UsesCopy, UsesUbi, Nand, Nor
<1>1. CASE Unsupported \/ UbiWrite
  <2>1. UNCHANGED <<vars, typeVars, eVars, cVars, job, todo>>
    BY <1>1 DEF Unsupported, UbiWrite
  <2>2. TypeInv'
    BY <1>0, <2>1, DevType
       DEF vars, nandVars, devVars, TypeInv, TypeOK, BlockType
  <2> QED
    BY <1>0, <1>1, <2>1, <2>2
       DEF KindInv, Unsupported, UbiWrite, vars, devVars, outVars, typeVars, eVars, cVars
<1>2. CASE StartErase
  <2>1. /\ UNCHANGED <<dev, bad, mtype, nandVars, rootfs_type, cVars, job, todo>>
        /\ stage = "start" /\ UsesErase /\ stage' = "erase" /\ complained' = FALSE
    BY <1>2 DEF StartErase, Erase!EraseCall
  <2>2. TypeInv'
    BY <1>0, <2>1, DevType DEF TypeInv, TypeOK, BlockType
  <2> QED
    BY <1>0, <2>1, <2>2 DEF KindInv, nandVars, outVars, cVars
<1>3. CASE StartCopy
  <2>1. /\ UNCHANGED <<dev, bad, nandVars, typeVars, eVars, job, todo>>
        /\ stage = "start" /\ UsesCopy /\ stage' = "copy"
    BY <1>3 DEF StartCopy, Copy!CopyCall
  <2>2. TypeInv'
    BY <1>0, <2>1, DevType DEF TypeInv, TypeOK, BlockType
  <2> QED
    BY <1>0, <2>1, <2>2 DEF KindInv, nandVars, typeVars, eVars
<1>4. CASE Erasing
  <2>1. /\ ErasesOne /\ UNCHANGED <<bad, mtype, nandVars, rootfs_type, cVars, jobVars>>
        /\ stage = "erase"
    BY <1>4, EraseStepDev DEF Erasing
  <2>2. TypeInv'
    BY <1>0, <2>1, DevType, ErasesOneType DEF FlashInv
  <2>3. complained' \in BOOLEAN
    BY <1>0, <1>4
       DEF Erasing, KindInv, Erase!EraseStep, Erase!EraseRefused, Erase!ErasePrepared,
           Erase!SkipBad, Erase!EraseBadCheckFails, Erase!EraseOk, Erase!EraseFailure,
           Erase!Cleanmarker, Erase!EraseDone
  <2> QED
    BY <1>0, <2>1, <2>2, <2>3 DEF KindInv, nandVars, jobVars, outVars, cVars
<1>5. CASE Copying
  <2>1. /\ CopiesOne /\ UNCHANGED ofg_imglen /\ stage = "copy"
        /\ UNCHANGED <<bad, pc, tail, posVars, bufVars, outVars, typeVars, eVars, jobVars>>
    BY <1>0, <1>5, CopyStepDev DEF Copying, FlashInv, KindInv
  <2>2. dev' \in [Blocks -> BlockType]
    BY <1>0, <2>1 DEF CopiesOne, TypeInv, TypeOK, BlockType
  <2>3. TypeInv'
    BY <1>0, <2>1, <2>2, DevType DEF nandVars, imgVars
  <2> QED
    BY <1>0, <2>1, <2>3 DEF KindInv, jobVars, typeVars, eVars
<1>6. CASE Writing
  <2>1. /\ UNCHANGED <<typeVars, eVars, cVars, jobVars>> /\ stage = "write" /\ Next
    BY <1>6 DEF Writing
  <2>2. TypeInv'
    BY <1>0, <2>1, TypeNext
  <2>3. Nand /\ Nand'
    BY <1>0, <2>1 DEF KindInv, typeVars
  <2> QED
    BY <1>0, <2>1, <2>2, <2>3 DEF KindInv, jobVars, typeVars, eVars
<1>7. CASE EraseReturned \/ WriteReturned \/ CopyReturned
  <2>1. UNCHANGED <<vars, typeVars, eVars, cVars, job, todo>>
    BY <1>7 DEF EraseReturned, WriteReturned, CopyReturned
  <2>2. TypeInv'
    BY <1>0, <2>1, DevType
       DEF vars, nandVars, devVars, TypeInv, TypeOK, BlockType
  <2> QED
    BY <1>0, <1>7, <2>1, <2>2
       DEF KindInv, EraseReturned, WriteReturned, CopyReturned, vars, devVars, outVars,
           typeVars, eVars, cVars
<1>8. CASE NextJob
  <2>1. NandInit' /\ UNCHANGED typeVars
    BY <1>8 DEF NextJob, NandInit, typeVars
  <2>2. TypeInv'
    <3>1. (NandInit => TypeInv)'
      BY NandInitType, PTL
    <3> QED
      BY <2>1, <3>1
  <2>3. job' \in Jobs
    BY <1>8, <1>0 DEF NextJob, FlashInv, KindInv
  <2> QED
    BY <1>0, <1>8, <2>1, <2>2, <2>3 DEF KindInv, NextJob, NandInit, typeVars
<1>9. CASE UNCHANGED allVars
  <2>1. UNCHANGED <<vars, typeVars, eVars, cVars, jobVars>>
    BY <1>9 DEF allVars
  <2>2. TypeInv'
    BY <1>0, <2>1, DevType
       DEF vars, nandVars, devVars, TypeInv, TypeOK, BlockType
  <2> QED
    BY <1>0, <2>1, <2>2
       DEF KindInv, vars, devVars, outVars, typeVars, eVars, cVars, jobVars
<1> QED
  BY <1>1, <1>2, <1>3, <1>4, <1>5, <1>6, <1>7, <1>8, <1>9
     DEF FlashNext, Finished

------------------------------------------------------------------------------
(* Without a message, flash_erase leaves no good block behind that it has  *)
(* not erased.                                                             *)
LEMMA EraseNext == FlashInv /\ [FlashNext]_allVars => EraseInv'
<1> SUFFICES ASSUME FlashInv, [FlashNext]_allVars PROVE EraseInv'
  OBVIOUS
<1>0. TypeInv /\ EraseInv /\ complained \in BOOLEAN
  BY DEF FlashInv, KindInv
<1>1. CASE stage' # "erase"
  BY <1>1 DEF EraseInv
<1>2. CASE StartErase
  BY <1>2, EbCntAssumption DEF StartErase, Erase!EraseCall, EraseInv, ErasedTo
<1>3. CASE Erasing
  <2> USE <1>3 DEF Erasing
  <2>1. /\ stage = "erase" /\ stage' = "erase" /\ UNCHANGED bad /\ Good' = Good
        /\ Good \in SUBSET Blocks
    BY EraseStepDev DEF jobVars, Good
  <2>2. CASE Erase!EraseRefused \/ Erase!EraseBadCheckFails
    BY <2>1, <2>2 DEF Erase!EraseRefused, Erase!EraseBadCheckFails, Erase!EraseReturns, EraseInv
  <2>3. CASE Erase!ErasePrepared
    <3>1. epc' = "loop" /\ eeb' = 0
      BY <1>0, <2>1, <2>3 DEF Erase!ErasePrepared, EraseInv
    <3>2. ErasedTo(dev', Good', 0)
      BY <2>1, EbCntAssumption DEF ErasedTo, Good, Blocks
    <3> QED
      BY <3>1, <3>2, EbCntAssumption DEF EraseInv
  <2>4. CASE Erase!SkipBad
    <3>1. /\ epc = "loop" /\ eeb < EbCnt /\ eeb \in bad /\ eeb' = eeb + 1
          /\ UNCHANGED <<dev, epc, complained>>
      BY <2>4 DEF Erase!SkipBad, Erase!InLoop
    <3>2. eeb \in 0 .. EbCnt /\ (~complained => ErasedTo(dev, Good, eeb))
      BY <1>0, <2>1, <3>1 DEF EraseInv
    <3>3. eeb + 1 \in 0 .. EbCnt
      BY <3>1, <3>2, EbCntAssumption
    <3>4. ErasedTo(dev, Good, eeb) => ErasedTo(dev, Good, eeb + 1)
      BY <2>1, <3>1, <3>2, EbCntAssumption DEF ErasedTo, Good, Blocks
    <3>5. ErasedTo(dev, Good, eeb + 1) => ErasedTo(dev', Good', eeb')
      BY <2>1, <3>1 DEF ErasedTo
    <3> QED
      BY <3>1, <3>2, <3>3, <3>4, <3>5 DEF EraseInv
  <2>5. CASE Erase!EraseOk
    <3>1. /\ epc = "loop" /\ eeb < EbCnt /\ dev' = [dev EXCEPT ![eeb] = ErasedBlock]
          /\ \/ epc' = "cleanmarker" /\ eeb' = eeb
             \/ epc' = "loop" /\ eeb' = eeb + 1
          /\ UNCHANGED complained
      BY <2>5, EraseSame DEF Erase!EraseOk, Erase!InLoop
    <3>2. eeb \in Blocks /\ (~complained => ErasedTo(dev, Good, eeb))
      BY <1>0, <2>1, <3>1, EraseBlockInLoop DEF EraseInv
    <3>3. eeb \in 0 .. EbCnt /\ eeb + 1 \in 0 .. EbCnt
      BY <3>1, <3>2, EbCntAssumption DEF Blocks
    <3>4. ErasedTo(dev, Good, eeb) => ErasedTo(dev', Good', eeb + 1)
      <4> SUFFICES ASSUME ErasedTo(dev, Good, eeb), NEW b \in Good, b < eeb + 1 PROVE dev'[b] = ErasedBlock
        BY <2>1 DEF ErasedTo
      <4>1. b \in Blocks /\ (b < eeb \/ b = eeb)
        BY <2>1, <3>2, EbCntAssumption DEF Blocks
      <4> QED
        BY <1>0, <3>1, <3>2, <4>1 DEF ErasedTo, TypeInv, TypeOK
    <3> QED
      BY <3>1, <3>2, <3>3, <3>4 DEF EraseInv, ErasedTo
  <2>6. CASE Erase!EraseFailure
    BY <1>0, <2>1, <2>6, EbCntAssumption DEF Erase!EraseFailure, Erase!InLoop, EraseInv
  <2>7. CASE Erase!Cleanmarker
    <3>1. /\ epc = "cleanmarker" /\ epc' = "loop" /\ eeb' = eeb + 1 /\ UNCHANGED dev
          /\ complained' = complained \/ complained' = TRUE
      BY <2>7 DEF Erase!Cleanmarker
    <3>2. eeb \in Blocks /\ (~complained => ErasedTo(dev, Good, eeb + 1))
      BY <1>0, <2>1, <3>1 DEF EraseInv
    <3>3. eeb + 1 \in 0 .. EbCnt
      BY <3>2, EbCntAssumption DEF Blocks
    <3>4. ErasedTo(dev, Good, eeb + 1) => ErasedTo(dev', Good', eeb')
      BY <2>1, <3>1 DEF ErasedTo
    <3>5. ~complained' => ~complained
      BY <3>1
    <3> QED
      BY <3>1, <3>2, <3>3, <3>4, <3>5 DEF EraseInv
  <2>8. CASE Erase!EraseDone
    <3>1. /\ epc = "loop" /\ ~(eeb < EbCnt) /\ epc' = "done" /\ UNCHANGED <<dev, complained>>
      BY <2>8 DEF Erase!EraseDone, Erase!InLoop, Erase!EraseReturns
    <3>2. eeb = EbCnt /\ (~complained => ErasedTo(dev, Good, eeb))
      BY <1>0, <2>1, <3>1, EbCntAssumption DEF EraseInv
    <3>3. ErasedTo(dev, Good, EbCnt) => ErasedTo(dev', Good', EbCnt)
      BY <2>1, <3>1 DEF ErasedTo
    <3> QED
      BY <3>1, <3>2, <3>3 DEF EraseInv
  <2> QED
    BY <2>2, <2>3, <2>4, <2>5, <2>6, <2>7, <2>8 DEF Erase!EraseStep
<1>4. CASE UNCHANGED allVars
  BY <1>0, <1>4
     DEF allVars, vars, devVars, eVars, jobVars, EraseInv, ErasedTo, Good
<1> QED
  BY <1>1, <1>2, <1>3, <1>4
     DEF FlashNext, Finished, Unsupported, UbiWrite, EraseReturned, Writing, WriteReturned,
         StartCopy, Copying, CopyReturned, NextJob, jobVars

------------------------------------------------------------------------------
(* nandwrite reports "complete" only with the whole image on the flash.    *)
LEMMA CompleteNext ==
  StoreInv /\ CompleteInv /\ [Next]_vars => CompleteInv'
<1> SUFFICES ASSUME StoreInv, CompleteInv, [Next]_vars PROVE CompleteInv'
  OBVIOUS
<1>1. StoreInv'
  BY StoreNext
<1>2. CASE UNCHANGED vars
  BY <1>2 DEF vars, devVars, imgVars, posVars, outVars, CompleteInv, Outcome, Kept, Intact,
              PageNo, Good
<1>3. CASE KeptStep
  BY <1>3 DEF KeptStep, KeepsRunning, Goes, CompleteInv
<1> QED
  BY <1>1, <1>2, <1>3, StoreStep DEF StoreInv

(* nandwrite starts on an erased partition if flash_erase was silent.      *)
LEMMA WriteNext == FlashInv /\ [FlashNext]_allVars => WriteInv'
<1> SUFFICES ASSUME FlashInv, [FlashNext]_allVars PROVE WriteInv'
  OBVIOUS
<1>0. KindInv /\ TypeInv /\ EraseInv /\ WriteInv
  BY DEF FlashInv, KindInv
<1>1. CASE EraseReturned
  <2>1. /\ stage = "erase" /\ epc = "done" /\ pc = "open" /\ UNCHANGED <<vars, eVars>>
        /\ stage' = "write" => eresult = 0 /\ stage' # "flashed"
    BY <1>0, <1>1 DEF EraseReturned, KindInv
  <2>2. CASE stage' \in {"write", "flashed"} /\ ~complained
    <3>1. ErasedTo(dev, Good, EbCnt)
      BY <1>0, <1>1, <2>1, <2>2 DEF EraseInv, EraseReturned
    <3>2. \A b \in Good : dev[b] = ErasedBlock
      BY <3>1, EbCntAssumption DEF ErasedTo, Good, Blocks
    <3>3. StoreInv /\ NothingBehindImage /\ CompleteInv
      BY <1>0, <2>1, <3>2, StoreFresh DEF NothingBehindImage, CompleteInv, Outcome
    <3>4. (StoreInv /\ NothingBehindImage /\ CompleteInv)'
      <4>1. [Next]_vars
        BY <2>1
      <4> QED
        BY <3>3, <4>1, StoreNext, BehindNext, CompleteNext DEF StoreInv
    <3> QED
      BY <3>4 DEF WriteInv
  <2> QED
    BY <2>1, <2>2 DEF WriteInv, eVars
<1>2. CASE Writing \/ WriteReturned \/ UNCHANGED allVars
  <2>1. /\ [Next]_vars /\ UNCHANGED <<typeVars, eVars, job>>
        /\ stage' \in {"write", "flashed"} => stage \in {"write", "flashed"}
    BY <1>2 DEF Writing, WriteReturned, allVars, jobVars
  <2>2. /\ complained' = complained
        /\ UsesErase' <=> UsesErase
    BY <2>1 DEF eVars, typeVars, UsesErase, Nand
  <2>3. StoreInv /\ NothingBehindImage /\ CompleteInv
          => (StoreInv /\ NothingBehindImage /\ CompleteInv)'
    BY <2>1, StoreNext, BehindNext, CompleteNext DEF StoreInv
  <2> QED
    BY <1>0, <2>1, <2>2, <2>3 DEF WriteInv
<1>3. CASE UbiWrite
  BY <1>3 DEF UbiWrite, UsesUbi, UsesErase, Nand, typeVars, WriteInv
<1>4. CASE CopyReturned
  BY <1>0, <1>4 DEF CopyReturned, KindInv, UsesCopy, UsesErase, Nand, Nor, typeVars, WriteInv
<1>5. CASE Finished
  BY <1>2, <1>5 DEF Finished
<1>6. CASE stage' \notin {"write", "flashed"}
  BY <1>6 DEF WriteInv
<1> QED
  BY <1>1, <1>2, <1>3, <1>4, <1>5, <1>6
     DEF FlashNext, Unsupported, StartErase, Erasing, StartCopy, Copying, NextJob, jobVars,
         EraseInv, KindInv

------------------------------------------------------------------------------
(* The pages of NOR are numbered without gap or repetition.                *)
LEMMA NorPages ==
  ASSUME NEW b \in Blocks, NEW p \in Pages
  PROVE  /\ NorPage(b, p) \in Nat /\ b * PagesPerEb <= NorPage(b, p)
         /\ b \in Nat /\ b * PagesPerEb \in Nat
         /\ NorPage(b, p) \div PagesPerEb = b /\ NorPage(b, p) % PagesPerEb = p
<1>1. /\ b \in Nat /\ p \in Nat /\ p < PagesPerEb /\ PagesPerEb \in Nat \ {0}
  BY EbCntAssumption, PagesPerEbAssumption DEF Blocks, Pages
<1>2. b * PagesPerEb \in Nat
  BY <1>1, Times
<1>3. (b * PagesPerEb + p) \div PagesPerEb = b /\ (b * PagesPerEb + p) % PagesPerEb = p
  BY <1>1, Split
<1> QED
  BY <1>1, <1>2, <1>3 DEF NorPage

(* The erase loop of flashcp clears every page of the image, and the write *)
(* loop fills them in order.                                               *)
LEMMA CopyNext == FlashInv /\ [FlashNext]_allVars => CopyInv'
<1> SUFFICES ASSUME FlashInv, [FlashNext]_allVars PROVE CopyInv'
  OBVIOUS
<1>0. KindInv /\ TypeInv /\ CopyInv
  BY DEF FlashInv, KindInv
<1>1. CASE StartCopy
  BY <1>1 DEF StartCopy, Copy!CopyCall, CopyInv
<1>2. CASE Copying
  <2>1. /\ stage = "copy" /\ stage' = "copy" /\ UsesCopy /\ ofg_imglen' = ofg_imglen
        /\ Copy!CopyStep /\ CopiesOne
    BY <1>0, <1>2, CopyStepDev DEF Copying, KindInv, jobVars
  <2>2. /\ ceb \in Nat /\ written \in Nat /\ ofg_imglen \in Nat
        /\ Copy!CopyFits' <=> Copy!CopyFits
        /\ Copy!BlocksToErase' = Copy!BlocksToErase
        /\ PagesPerEb \in Nat \ {0} /\ EbCnt \in Nat \ {0}
    BY <1>0, <2>1, PagesPerEbAssumption, EbCntAssumption, MaxImgPagesAssumption
       DEF CopyInv, TypeInv, TypeOK, Copy!CopyFits, Copy!BlocksToErase
  <2>3. Copy!BlocksToErase \in Nat
    <3>1. ofg_imglen + PagesPerEb - 1 \in Nat
      BY <2>2
    <3> QED
      BY <2>2, <3>1, Divide DEF Copy!BlocksToErase
  <2>4. CASE Copy!CopyOpen
    <3>1. /\ cpc = "open" /\ UNCHANGED <<dev, ceb, written>>
          /\ \/ Copy!CopyFits /\ cpc' = "erase"
             \/ cpc' = "done" /\ cresult' = -1
      BY <2>4 DEF Copy!CopyOpen, Copy!CopyReturns
    <3>2. ceb = 0 /\ written = 0
      BY <1>0, <2>1, <3>1 DEF CopyInv
    <3>3. ErasedTo(dev', Blocks, ceb')
      BY <3>1, <3>2 DEF ErasedTo, Blocks
    <3> QED
      BY <2>2, <2>3, <3>1, <3>2, <3>3 DEF CopyInv
  <2>5. CASE Copy!CopyErase
    <3>1. /\ cpc = "erase" /\ cpc' = "erase" /\ ceb < Copy!BlocksToErase /\ ceb' = ceb + 1
          /\ dev' = [dev EXCEPT ![ceb] = ErasedBlock] /\ written' = written
      BY <2>5, CopySame DEF Copy!CopyErase
    <3>2. Copy!CopyFits /\ written = 0 /\ ErasedTo(dev, Blocks, ceb)
      BY <1>0, <2>1, <3>1 DEF CopyInv
    <3>3. ceb \in Blocks
      BY <1>0, <2>2, <3>1, <3>2, CountedBlock
    <3>4. ErasedTo(dev', Blocks, ceb + 1)
      <4> SUFFICES ASSUME NEW b \in Blocks, b < ceb + 1 PROVE dev'[b] = ErasedBlock
        BY DEF ErasedTo
      <4>1. b < ceb \/ b = ceb
        BY <2>2, EbCntAssumption DEF Blocks
      <4> QED
        BY <1>0, <3>1, <3>2, <3>3, <4>1 DEF ErasedTo, TypeInv, TypeOK
    <3>5. ceb + 1 \in Nat /\ ceb + 1 <= Copy!BlocksToErase
      BY <2>2, <2>3, <3>1
    <3> QED
      BY <2>2, <3>1, <3>2, <3>4, <3>5 DEF CopyInv
  <2>6. CASE Copy!CopyEraseFails \/ Copy!CopyWriteFails
    <3>1. cpc' = "done" /\ cresult' = -1 /\ UNCHANGED <<ceb, written>>
      BY <2>6 DEF Copy!CopyEraseFails, Copy!CopyWriteFails, Copy!CopyReturns
    <3> QED
      BY <2>2, <3>1 DEF CopyInv
  <2>7. CASE Copy!CopyErased
    <3>1. /\ cpc = "erase" /\ cpc' = "write" /\ ceb = Copy!BlocksToErase
          /\ UNCHANGED <<dev, ceb, written>>
      BY <2>7 DEF Copy!CopyErased
    <3>2. Copy!CopyFits /\ written = 0 /\ ErasedTo(dev, Blocks, ceb)
      BY <1>0, <2>1, <3>1 DEF CopyInv
    <3>3. Filled(dev, 0)
      <4>1. \A b \in Blocks, p \in Pages : ~(NorPage(b, p) < 0)
        BY NorPages
      <4> QED
        BY <4>1 DEF Filled
    <3>4. Free(dev, 0, ofg_imglen)
      <4> SUFFICES ASSUME NEW b \in Blocks, NEW p \in Pages, NorPage(b, p) < ofg_imglen
                   PROVE  dev[b][p] = Erased
        BY DEF Free
      <4>1. b \in Nat /\ b * PagesPerEb < ofg_imglen
        BY <2>2, NorPages
      <4>2. b < Copy!BlocksToErase
        BY <2>2, <4>1, ToErase DEF Copy!BlocksToErase
      <4> QED
        BY <3>1, <3>2, <4>2 DEF ErasedTo, ErasedBlock
    <3> QED
      BY <2>1, <2>2, <2>3, <3>1, <3>2, <3>3, <3>4 DEF CopyInv
  <2>8. CASE Copy!CopyWrite
    <3> DEFINE e == Copy!CopyEb
               q == Copy!CopyPg
    <3>1. /\ cpc = "write" /\ cpc' = "write" /\ written < ofg_imglen
          /\ written' = written + 1 /\ ceb' = ceb
          /\ dev' = [dev EXCEPT ![e] = Programmed(@, q, written + 1)]
      BY <2>8, CopySame DEF Copy!CopyWrite
    <3>2. /\ Copy!CopyFits /\ ceb <= Copy!BlocksToErase
          /\ Filled(dev, written) /\ Free(dev, written, ofg_imglen)
      BY <1>0, <2>1, <3>1 DEF CopyInv
    <3>3. e \in Blocks /\ q \in Pages /\ written = NorPage(e, q)
      BY <1>0, <2>2, <3>1, <3>2, CopyPlace
    <3> HIDE DEF e, q
    <3>4. dev[e][q] = Erased
      BY <2>2, <3>1, <3>2, <3>3 DEF Free
    <3>5. /\ dev'[e][q] = written + 1
          /\ \A b \in Blocks, p \in Pages : b # e \/ p # q => dev'[b][p] = dev[b][p]
      BY <1>0, <3>1, <3>3, <3>4 DEF Programmed, TypeInv, TypeOK
    <3>6. \A b \in Blocks, p \in Pages :
            NorPage(b, p) \in Nat /\ (NorPage(b, p) = written => b = e /\ p = q)
      BY <3>3, NorPages
    <3>7. Filled(dev', written + 1)
      <4> SUFFICES ASSUME NEW b \in Blocks, NEW p \in Pages, NorPage(b, p) < written + 1
                   PROVE  dev'[b][p] = NorPage(b, p) + 1
        BY DEF Filled
      <4>1. CASE NorPage(b, p) = written
        BY <3>5, <3>6, <4>1
      <4>2. CASE NorPage(b, p) # written
        <5>1. NorPage(b, p) < written
          BY <2>2, <3>6, <4>2
        <5>2. b # e \/ p # q
          BY <3>3, <4>2
        <5> QED
          BY <3>2, <3>5, <5>1, <5>2 DEF Filled
      <4> QED
        BY <4>1, <4>2
    <3>8. Free(dev', written + 1, ofg_imglen)
      <4> SUFFICES ASSUME NEW b \in Blocks, NEW p \in Pages, written + 1 <= NorPage(b, p),
                          NorPage(b, p) < ofg_imglen
                   PROVE  dev'[b][p] = Erased
        BY DEF Free
      <4>1. written <= NorPage(b, p) /\ NorPage(b, p) # written
        BY <2>2, <3>6
      <4>2. b # e \/ p # q
        BY <3>3, <4>1
      <4> QED
        BY <3>2, <3>5, <4>1, <4>2 DEF Free
    <3>9. written + 1 \in Nat /\ written + 1 <= ofg_imglen
      BY <2>2, <3>1
    <3> QED
      BY <2>1, <2>2, <3>1, <3>2, <3>7, <3>8, <3>9 DEF CopyInv
  <2>9. CASE Copy!CopyDone
    <3>1. /\ cpc = "write" /\ cpc' \in {"done", "rebooted"} /\ written = ofg_imglen
          /\ UNCHANGED <<dev, ceb, written>>
      BY <2>9 DEF Copy!CopyDone, Copy!CopyReturns
    <3>2. Copy!CopyFits /\ Filled(dev, ofg_imglen)
      BY <1>0, <2>1, <3>1 DEF CopyInv
    <3> QED
      BY <2>1, <2>2, <3>1, <3>2 DEF CopyInv
  <2> QED
    BY <2>1, <2>4, <2>5, <2>6, <2>7, <2>8, <2>9 DEF Copy!CopyStep
<1>3. CASE CopyReturned \/ UNCHANGED allVars
  <2>1. /\ UNCHANGED <<vars, typeVars, cVars, job>>
        /\ stage' \in {"copy", "flashed", "rebooted"} => stage \in {"copy", "flashed", "rebooted"}
    BY <1>3 DEF CopyReturned, allVars, jobVars
  <2>2. /\ UNCHANGED <<dev, ofg_imglen, cpc, ceb, written, cresult>>
        /\ UsesCopy' <=> UsesCopy
        /\ Copy!CopyFits' <=> Copy!CopyFits
        /\ Copy!BlocksToErase' = Copy!BlocksToErase
    BY <2>1 DEF vars, devVars, imgVars, typeVars, cVars, UsesCopy, Nor, Copy!CopyFits,
                Copy!BlocksToErase
  <2> QED
    BY <1>0, <2>1, <2>2 DEF CopyInv
<1>4. CASE UbiWrite
  BY <1>4 DEF UbiWrite, UsesUbi, UsesCopy, Nand, Nor, typeVars, CopyInv
<1>5. CASE WriteReturned
  BY <1>0, <1>5 DEF WriteReturned, KindInv, UsesErase, UsesCopy, Nand, Nor, typeVars, CopyInv
<1>6. CASE Finished
  BY <1>3, <1>6 DEF Finished
<1>7. CASE stage' \notin {"copy", "flashed", "rebooted"}
  BY <1>7 DEF CopyInv
<1> QED
  BY <1>0, <1>1, <1>2, <1>3, <1>4, <1>5, <1>6, <1>7
     DEF FlashNext, Unsupported, StartErase, Erasing, EraseReturned, Writing, NextJob, jobVars

------------------------------------------------------------------------------
(* At the start of the first job nothing is done yet.                      *)
LEMMA FlashStart == FlashInit => FlashInv
<1> SUFFICES ASSUME FlashInit PROVE FlashInv
  OBVIOUS
<1>1. TypeInv
  BY NandInitType DEF FlashInit
<1>2. KindInv
  BY <1>1 DEF FlashInit, NandInit, KindInv, Jobs
<1> QED
  BY <1>2 DEF FlashInit, FlashInv, EraseInv, WriteInv, CopyInv

(* The invariant of the jobs, through every tool and both jobs.            *)
THEOREM FlashInductive == FlashSpec => []FlashInv
<1>1. FlashInv /\ [FlashNext]_allVars => FlashInv'
  BY KindNext, EraseNext, WriteNext, CopyNext DEF FlashInv
<1> QED
  BY <1>1, FlashStart, PTL DEF FlashSpec

(* Without a warning, what nandwrite leaves reads as the image with erased *)
(* flash behind it.                                                        *)
LEMMA NandReadable ==
  ASSUME StoreInv, NothingBehindImage, CompleteInv, pc = "done", result = 0, ~warned
  PROVE  ImageReadable
<1>1. Kept = ofg_imglen /\ Reads(ReadBack, ofg_imglen)
  BY StoredPagesKept DEF CompleteInv, Outcome
<1>2. /\ ofg_imglen \in Nat /\ PagesStored \in Int /\ PagesStored <= ofg_imglen
  BY PagesPerEbAssumption, MaxImgPagesAssumption
     DEF StoreInv, IInv, TypeInv, TypeOK, InStep, PagesStored
<1>3. ASSUME NEW i \in DOMAIN ReadBack, ~(i <= ofg_imglen)
      PROVE  ReadBack[i] = Erased
  <2>1. PICK b \in Good, p \in Pages : i = PageNo(b, p)
    BY ReadFrom
  <2>2. ReadBack[i] = dev[b][p] /\ b \in Blocks \ bad
    BY <2>1, ReadAt DEF Good
  <2>3. CASE Stored(b, p)
    <3>1. dev[b][p] = i /\ dev[b][p] \in 1 .. PagesStored
      BY <2>1, <2>2, <2>3
         DEF StoreInv, NumberInv, Numbered, IInv, DataInv, PagesInOrder
    <3> QED
      BY <1>2, <1>3, <3>1
  <2> QED
    BY <2>2, <2>3 DEF NothingBehindImage
<1>4. 1 .. ofg_imglen \subseteq DOMAIN ReadBack
  BY <1>1 DEF Reads
<1>5. \A i \in DOMAIN ReadBack : i <= ofg_imglen => ReadBack[i] = i
  <2>1. Good \in SUBSET Blocks
    BY DEF Good
  <2>2. DOMAIN ReadBack = 1 .. Cardinality(Good) * PagesPerEb
    BY DEF ReadBack
  <2>3. Cardinality(Good) * PagesPerEb \in Nat
    BY <2>1, FiniteBlocks, Times, PagesPerEbAssumption
  <2>4. \A i \in DOMAIN ReadBack : i <= ofg_imglen => i \in 1 .. ofg_imglen
    BY <1>2, <2>2, <2>3
  <2> QED
    BY <1>1, <2>4 DEF Reads
<1> QED
  BY <1>3, <1>4, <1>5 DEF ImageReadable

(* On a device without bad blocks the reader finds the pages in the order  *)
(* of their offsets.                                                       *)
LEMMA NorReadable ==
  ASSUME TypeInv, Nor, bad = {}, Copy!CopyFits, Filled(dev, ofg_imglen)
  PROVE  ImageReadable
<1>1. /\ Good = Blocks /\ EbCnt \in Nat \ {0} /\ PagesPerEb \in Nat \ {0}
      /\ ofg_imglen \in Nat
  BY EbCntAssumption, PagesPerEbAssumption, MaxImgPagesAssumption DEF Good, TypeInv, TypeOK
<1>2. Cardinality(Good) = EbCnt
  BY <1>1, FS_Interval DEF Blocks
<1>3. ASSUME NEW b \in Blocks, NEW p \in Pages PROVE PageNo(b, p) = NorPage(b, p) + 1
  <2>1. b \in Nat /\ b < EbCnt
    BY <1>1 DEF Blocks
  <2>2. {c \in Blocks : c < b} = 0 .. b - 1
    BY <1>1, <2>1 DEF Blocks
  <2>3. Rank(Good, b) = b
    <3>1. Rank(Good, b) = Cardinality(0 .. b - 1)
      BY <1>1, <2>2 DEF Rank
    <3>2. \A m \in Int : Cardinality(0 .. m) = IF 0 > m THEN 0 ELSE m - 0 + 1
      BY FS_Interval
    <3>3. b - 1 \in Int
      BY <2>1
    <3> QED
      BY <2>1, <3>1, <3>2, <3>3
  <2> QED
    BY <2>3 DEF PageNo, Base, NorPage
<1>4. 1 .. ofg_imglen \subseteq DOMAIN ReadBack
  <2>1. ofg_imglen <= EbCnt * PagesPerEb /\ EbCnt * PagesPerEb \in Nat
    BY <1>1, Times DEF Copy!CopyFits
  <2> QED
    BY <1>1, <1>2, <2>1 DEF ReadBack
<1>5. ASSUME NEW i \in DOMAIN ReadBack, i <= ofg_imglen PROVE ReadBack[i] = i
  <2>1. PICK b \in Good, p \in Pages : i = PageNo(b, p)
    BY ReadFrom
  <2>2. ReadBack[i] = dev[b][p] /\ i = NorPage(b, p) + 1 /\ b \in Blocks
    BY <1>1, <1>3, <2>1, ReadAt
  <2>3. NorPage(b, p) < ofg_imglen
    BY <1>1, <1>5, <2>2, NorPages
  <2> QED
    BY <2>2, <2>3 DEF Filled
<1> QED
  BY <1>4, <1>5 DEF ImageReadable, Nand, Nor

(* If the tools of a job print no message and it reports success, or       *)
(* flashcp reboots, the partition holds the image, whatever the flash, the *)
(* image and the blocks that fail.                                         *)
THEOREM QuietSuccess == FlashSpec => []QuietSuccessMeansImage
<1>1. FlashInv => QuietSuccessMeansImage
  <2> SUFFICES ASSUME FlashInv, stage \in {"flashed", "rebooted"}, ~UsesUbi, ~complained,
                      ~warned
               PROVE  ImageReadable
    BY DEF QuietSuccessMeansImage
  <2>1. CASE UsesErase
    <3>1. stage = "flashed" /\ pc = "done" /\ result = 0
      BY <2>1 DEF FlashInv, KindInv, UsesErase, UsesCopy, Nand, Nor
    <3>2. StoreInv /\ NothingBehindImage /\ CompleteInv
      BY <2>1, <3>1 DEF FlashInv, WriteInv
    <3> QED
      BY <3>1, <3>2, NandReadable
  <2>2. CASE UsesCopy
    <3>1. TypeInv /\ Nor /\ bad = {}
      BY <2>2 DEF FlashInv, KindInv, UsesCopy, Nand, Nor
    <3>2. (cpc = "done" /\ cresult = 0) \/ cpc = "rebooted"
      BY <2>2 DEF FlashInv, KindInv, UsesErase, UsesCopy, Nand, Nor
    <3>3. Copy!CopyFits /\ Filled(dev, ofg_imglen)
      BY <2>2, <3>2 DEF FlashInv, CopyInv
    <3> QED
      BY <3>1, <3>3, NorReadable
  <2> QED
    BY <2>1, <2>2 DEF FlashInv, KindInv
<1> QED
  BY <1>1, FlashInductive, PTL

(* No tool erases or programs a block that was bad when the partition was  *)
(* opened, or that nandwrite has marked bad since.                         *)
THEOREM BadUntouched == FlashSpec => BadBlocksUntouched
<1>1. FlashInv /\ [FlashNext]_allVars
        => [stage = stage' => \A b \in bad : dev'[b] = dev[b]]_allVars
  <2> SUFFICES ASSUME FlashInv, FlashNext, stage = stage', NEW b \in bad
               PROVE  dev'[b] = dev[b]
    BY DEF allVars, vars, devVars
  <2>1. KindInv /\ TypeInv /\ b \in Blocks
    BY DEF FlashInv, KindInv, TypeInv, TypeOK
  <2>2. CASE Erasing
    <3>1. ErasesOne
      BY <2>2, EraseStepDev DEF Erasing
    <3> QED
      BY <2>1, <3>1 DEF ErasesOne, TypeInv, TypeOK
  <2>3. CASE Writing
    BY <2>1, <2>3, BadKept DEF Writing
  <2>4. CASE Copying
    BY <2>1, <2>4 DEF Copying, KindInv, UsesCopy, Nand, Nor
  <2>5. CASE Finished
    BY <2>5 DEF Finished, allVars, vars, devVars
  <2> QED
    BY <2>2, <2>3, <2>4, <2>5
       DEF FlashNext, Unsupported, UbiWrite, StartErase, EraseReturned, WriteReturned,
           StartCopy, CopyReturned, NextJob
<1> QED
  BY <1>1, FlashInductive, PTL DEF FlashSpec, BadBlocksUntouched

(* flashcp never touches a block behind the one the image ends in.         *)
THEOREM BehindUntouched == FlashSpec => BehindImageUntouched
<1>1. FlashInv /\ [FlashNext]_allVars
        => [Nor /\ stage = stage' =>
              \A b \in Blocks : b * PagesPerEb >= ofg_imglen => dev'[b] = dev[b]]_allVars
  <2> SUFFICES ASSUME FlashInv, FlashNext, Nor, stage = stage', NEW b \in Blocks,
                      b * PagesPerEb >= ofg_imglen
               PROVE  dev'[b] = dev[b]
    BY DEF allVars, vars, devVars
  <2>1. KindInv /\ TypeInv /\ CopyInv
    BY DEF FlashInv, KindInv
  <2>2. CASE Erasing \/ Writing
    BY <2>1, <2>2 DEF Erasing, Writing, KindInv, UsesErase, Nand, Nor
  <2>3. CASE Copying
    <3>1. CopiesOne
      BY <2>1, <2>3, CopyStepDev DEF Copying, KindInv
    <3>2. b * PagesPerEb \in Nat /\ ofg_imglen \in Nat
      BY <2>1, NorPages, MaxImgPagesAssumption DEF TypeInv, TypeOK
    <3> QED
      BY <2>1, <3>1, <3>2 DEF CopiesOne, TypeInv, TypeOK
  <2>4. CASE Finished
    BY <2>4 DEF Finished, allVars, vars, devVars
  <2> QED
    BY <2>2, <2>3, <2>4
       DEF FlashNext, Unsupported, UbiWrite, StartErase, EraseReturned, WriteReturned,
           StartCopy, CopyReturned, NextJob
<1> QED
  BY <1>1, FlashInductive, PTL DEF FlashSpec, BehindImageUntouched
==============================================================================
