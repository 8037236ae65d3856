------------------------------ MODULE NandWrite ------------------------------
(***************************************************************************)
(* nandwrite_main() (nandwrite.c) as ofgwrite runs it: "nandwrite -pm dev  *)
(* file", that is, pad the last page, mark failing blocks bad, no OOB data *)
(* and blockalign = 1.  The function copies the image page by page to the  *)
(* good blocks of the partition; when programming a page fails with EIO it *)
(* rewinds its one-eraseblock buffer, erases the block, marks it bad and   *)
(* replays the buffered pages into the next block.                         *)
(*                                                                         *)
(* The byte offset mtdoffset is kept as the pair                           *)
(*   eb = mtdoffset / eb_size     pg = (mtdoffset % eb_size) / min_io_size *)
(* and imglen, filebuf_len, writebuf count pages instead of bytes.  The    *)
(* only place where the bytes matter is the fit check, which rounds the    *)
(* image length DOWN to whole pages; "tail" says that the last page is     *)
(* short.                                                                  *)
(***************************************************************************)
EXTENDS Mtd

CONSTANT MaxImgPages   (* bound on the image length, in pages *)

ASSUME MaxImgPagesAssumption == MaxImgPages \in Nat

VARIABLES
  dev,          (* dev[b][p]: content of the pages of the partition           *)
  bad,          (* blocks marked bad (MEMGETBADBLOCK answers 1)               *)
  pc,           (* where the function is, see PC                              *)
  ofg_imglen,   (* length of the image file in pages                          *)
  tail,         (* 1 iff the last page of the image is short, else 0          *)
  imglen,       (* pages not read from the file yet                           *)
  eb, pg,       (* mtdoffset                                                  *)
  blockstart,   (* the block the loop works on, -1 before the first           *)
  filebuf,      (* the one-eraseblock buffer                                  *)
  filebuf_len,  (* pages in it                                                *)
  writebuf,     (* next page of filebuf to write; -1 is the initial NULL      *)
  warned,       (* "Data was only partially written due to error" was printed *)
  result        (* return value                                               *)

devVars  == <<dev, bad>>
imgVars  == <<ofg_imglen, tail>>
posVars  == <<eb, pg, blockstart>>
bufVars  == <<imglen, filebuf, filebuf_len, writebuf>>
outVars  == <<warned, result>>
vars == <<devVars, pc, imgVars, posVars, bufVars, outVars>>

(***************************************************************************)
(* "open"  before open(), libmtd_open() and the checks on the image;       *)
(* "outer" at the condition of the outer while loop;                       *)
(* "inner" at the condition of the loop that looks for a good block;       *)
(* "write" about to program a page;  "erase", "mark" in the EIO recovery;  *)
(* "done"  returned.                                                       *)
(***************************************************************************)
PC == {"open", "outer", "inner", "write", "erase", "mark", "done"}

EmptyBuf == ErasedBlock

Init ==
  /\ bad \in SUBSET Blocks
  /\ dev = [b \in Blocks |-> IF b \in bad THEN GarbageBlock ELSE ErasedBlock]
  /\ pc = "open"
  /\ ofg_imglen \in 0 .. MaxImgPages
  /\ tail \in {0, 1}
  /\ tail <= ofg_imglen
  /\ imglen = ofg_imglen
  /\ eb = 0 /\ pg = 0 /\ blockstart = -1
  /\ filebuf = EmptyBuf /\ filebuf_len = 0 /\ writebuf = -1
  /\ warned = FALSE
  /\ result = 0

(* Mutant: the pages that wait in the buffer are not looked at.            *)
CloseAllWithoutBuffer(failed) ==
  /\ pc' = "done"
  /\ warned' = (failed \/ imglen > 0)
  /\ result' = 0

(* Mutant: "failed" is not looked at, nor is the buffer.                   *)
CloseAllByLength(failed) ==
  /\ pc' = "done"
  /\ warned' = (imglen > 0)
  /\ result' = 0

(* closeall: the warning is decided here, and the value returned is always *)
(* EXIT_SUCCESS ("Return happy").                                          *)
CloseAll(failed) ==
  /\ pc' = "done"
  /\ warned' = (failed \/ imglen > 0 \/ writebuf < filebuf_len)
  /\ result' = 0

(* The function returns -1 before closeall when the device cannot be       *)
(* opened or queried.                                                      *)
OpenFails ==
  /\ pc = "open"
  /\ pc' = "done"
  /\ result' = -1
  /\ UNCHANGED <<devVars, imgVars, posVars, bufVars, warned>>

(* "Check, if length fits into device".                                    *)
Fits == ofg_imglen - tail <= EbCnt * PagesPerEb

Open ==
  /\ pc = "open"
  /\ \/ /\ Fits
        /\ pc' = "outer"
        /\ UNCHANGED outVars
     \/ CloseAll(TRUE)      \* the image cannot be opened, or does not fit
  /\ UNCHANGED <<devVars, imgVars, posVars, bufVars>>

LoopCond == (imglen > 0 \/ writebuf < filebuf_len) /\ eb < EbCnt

InBody == pc = "inner" \/ (pc = "outer" /\ LoopCond)

LoopExit ==
  /\ pc = "outer"
  /\ ~LoopCond
  /\ CloseAll(FALSE)
  /\ UNCHANGED <<devVars, imgVars, posVars, bufVars>>

(* Mutant: writebuf is reset and filebuf_len is not.                       *)
StartBufferKeeps ==
  IF writebuf # 0
    THEN writebuf' = 0 /\ UNCHANGED <<filebuf, filebuf_len>>
    ELSE UNCHANGED <<filebuf, filebuf_len, writebuf>>

(* A new block starts: the buffer is emptied unless writebuf = filebuf,    *)
(* i.e. unless it is to be replayed.                                       *)
StartBuffer ==
  IF writebuf # 0
    THEN filebuf' = EmptyBuf /\ filebuf_len' = 0 /\ writebuf' = 0
    ELSE UNCHANGED <<filebuf, filebuf_len, writebuf>>

(* mtdoffset = blockstart + ebsize_aligned                                 *)
SkipBlock == eb' = eb + 1 /\ pg' = 0

(* Mutant: the answer of mtd_is_bad() is not looked at.                    *)
NewBlockUnasked ==
  /\ InBody
  /\ blockstart # eb
  /\ blockstart' = eb
  /\ StartBuffer
  /\ pc' = "inner"
  /\ ValidEb(eb)
  /\ UNCHANGED <<devVars, imgVars, imglen, eb, pg, outVars>>

NewBlock ==
  /\ InBody
  /\ blockstart # eb
  /\ blockstart' = eb
  /\ StartBuffer
  /\ pc' = "inner"
  /\ ValidEb(eb)
  /\ IF eb \in bad THEN SkipBlock ELSE UNCHANGED <<eb, pg>>
  /\ UNCHANGED <<devVars, imgVars, imglen, outVars>>

(* mtd_is_bad() < 0: the ioctl fails, or the blocks are used up.  With     *)
(* mtdoffset = mtd.size the check "mtdoffset > mtd.size" has let it pass.  *)
BadCheckFails ==
  /\ InBody
  /\ blockstart # eb
  /\ blockstart' = eb
  /\ StartBuffer
  /\ pc' = "done"
  /\ warned' = TRUE
  /\ result' = 0
  /\ UNCHANGED <<devVars, imgVars, imglen, eb, pg>>

NeedRead == writebuf + 1 > filebuf_len

ReadPage ==
  /\ InBody
  /\ blockstart = eb
  /\ NeedRead
  /\ imglen > 0
  /\ filebuf' = [filebuf EXCEPT ![writebuf] = ofg_imglen - imglen + 1]
  /\ filebuf_len' = filebuf_len + 1
  /\ imglen' = imglen - 1
  /\ pc' = "write"
  /\ UNCHANGED <<devVars, imgVars, posVars, writebuf, outVars>>

(* read() fails (failed stays TRUE), or the file ends before st_size bytes *)
(* were read, or the file is empty (break, failed = FALSE).                *)
ReadEnds ==
  /\ InBody
  /\ blockstart = eb
  /\ NeedRead
  /\ \E failed \in BOOLEAN : CloseAll(failed)
  /\ UNCHANGED <<devVars, imgVars, posVars, bufVars>>

(* A page of the buffer is there already when a rewound buffer is replayed.*)
Replay ==
  /\ InBody
  /\ blockstart = eb
  /\ ~NeedRead
  /\ pc' = "write"
  /\ UNCHANGED <<devVars, imgVars, posVars, bufVars, outVars>>

(* Mutant: the offset never leaves the block.                              *)
AdvanceInBlock == eb' = eb /\ pg' = pg + 1

Advance ==
  IF pg + 1 = PagesPerEb
    THEN eb' = eb + 1 /\ pg' = 0
    ELSE eb' = eb /\ pg' = pg + 1

WritePage ==
  /\ pc = "write"
  /\ dev' = [dev EXCEPT ![eb] = Programmed(@, pg, filebuf[writebuf])]
  /\ Advance
  /\ writebuf' = writebuf + 1
  /\ pc' = "outer"
  /\ UNCHANGED <<bad, imgVars, blockstart, imglen, filebuf, filebuf_len, outVars>>

(* Mutant: the buffer is not rewound.                                      *)
RewindForgotten == UNCHANGED writebuf

(* "Must rewind to blockstart if we can"                                   *)
Rewind == writebuf' = 0

WriteEIO ==
  /\ pc = "write"
  /\ \E block \in FailedWrite(dev[eb], pg) : dev' = [dev EXCEPT ![eb] = block]
  /\ Rewind
  /\ pc' = "erase"
  /\ UNCHANGED <<bad, imgVars, posVars, imglen, filebuf, filebuf_len, outVars>>

WriteFails ==
  /\ pc = "write"
  /\ \E block \in FailedWrite(dev[eb], pg) : dev' = [dev EXCEPT ![eb] = block]
  /\ CloseAll(TRUE)
  /\ UNCHANGED <<bad, imgVars, posVars, bufVars>>

(* The erase of the failing block succeeds or fails with EIO: both go on.  *)
EraseBlock ==
  /\ pc = "erase"
  /\ \E block \in {ErasedBlock} \union FailedErase(dev[blockstart]) :
       dev' = [dev EXCEPT ![blockstart] = block]
  /\ pc' = "mark"
  /\ UNCHANGED <<bad, imgVars, posVars, bufVars, outVars>>

EraseFails ==
  /\ pc = "erase"
  /\ \E block \in FailedErase(dev[blockstart]) :
       dev' = [dev EXCEPT ![blockstart] = block]
  /\ CloseAll(TRUE)
  /\ UNCHANGED <<bad, imgVars, posVars, bufVars>>

(* Mutant: the block is marked bad and used again.                         *)
MarkBadStays ==
  /\ pc = "mark"
  /\ bad' = bad \union {eb}
  /\ eb' = eb /\ pg' = 0
  /\ pc' = "outer"
  /\ UNCHANGED <<dev, imgVars, blockstart, bufVars, outVars>>

MarkBad ==
  /\ pc = "mark"
  /\ bad' = bad \union {eb}
  /\ SkipBlock
  /\ pc' = "outer"
  /\ UNCHANGED <<dev, imgVars, blockstart, bufVars, outVars>>

MarkFails ==
  /\ pc = "mark"
  /\ CloseAll(TRUE)
  /\ UNCHANGED <<devVars, imgVars, posVars, bufVars>>

Returned == pc = "done" /\ UNCHANGED vars

Next ==
  \/ OpenFails \/ Open \/ LoopExit
  \/ NewBlock \/ BadCheckFails
  \/ ReadPage \/ ReadEnds \/ Replay
  \/ WritePage \/ WriteEIO \/ WriteFails
  \/ EraseBlock \/ EraseFails \/ MarkBad \/ MarkFails
  \/ Returned

Spec == Init /\ [][Next]_vars

(* A single thread that only makes blocking calls: it keeps running.       *)
FairSpec == Spec /\ WF_vars(Next)

------------------------------------------------------------------------------

TypeOK ==
  /\ dev \in [Blocks -> [Pages -> Content(MaxImgPages)]]
  /\ bad \in SUBSET Blocks
  /\ pc \in PC
  /\ ofg_imglen \in 0 .. MaxImgPages
  /\ tail \in {0, 1}
  /\ imglen \in 0 .. ofg_imglen
  /\ eb \in 0 .. EbCnt
  /\ pg \in Pages
  /\ blockstart \in -1 .. EbCnt
  /\ filebuf \in [Pages -> Content(MaxImgPages)]
  /\ filebuf_len \in 0 .. PagesPerEb
  /\ writebuf \in -1 .. PagesPerEb
  /\ warned \in BOOLEAN
  /\ result \in {-1, 0}

(* The number of image pages that are on the device for good: those read   *)
(* minus those that still wait in the buffer.                              *)
PagesStored ==
  IF writebuf = -1 THEN 0 ELSE ofg_imglen - imglen - filebuf_len + writebuf

(* Page p of block b holds one of them: the finished good blocks, and the  *)
(* pages written so far to the block in progress.                          *)
Stored(b, p) ==
  /\ b \notin bad
  /\ b < eb \/ (b = eb /\ blockstart = eb /\ p < writebuf)

Before(b, p, c, q) == b < c \/ (b = c /\ p < q)

(***************************************************************************)
(* The two positions the loop keeps, mtdoffset on the device and writebuf  *)
(* in the buffer, stay in step through rewinds and skipped blocks.         *)
(***************************************************************************)
Recovering == pc \in {"erase", "mark"}
Running == pc \in {"outer", "inner", "write"}

NotStarted ==
  /\ imglen = ofg_imglen
  /\ eb = 0 /\ pg = 0 /\ blockstart = -1
  /\ filebuf_len = 0
  /\ pc \in {"open", "outer", "done"}

InStep ==
  /\ writebuf = -1 => NotStarted
  /\ pc = "open" => writebuf = -1
  /\ writebuf <= filebuf_len
  /\ filebuf_len <= ofg_imglen - imglen
  /\ blockstart # eb /\ pc # "done" =>
       /\ eb = blockstart + 1 /\ pg = 0
       /\ writebuf \in {-1, 0, filebuf_len}
  /\ blockstart = eb /\ Running => pg = writebuf
  /\ blockstart = eb /\ pc # "done" => eb < EbCnt /\ eb \notin bad
  /\ pc = "write" => blockstart = eb /\ writebuf < filebuf_len
  /\ Recovering => blockstart = eb /\ writebuf = 0 /\ pg < filebuf_len

(* The buffer holds the image pages that follow those of the finished      *)
(* blocks, so that replaying it continues the image.                       *)
BufferContinuesImage ==
  \A j \in 0 .. filebuf_len - 1 :
    filebuf[j] = ofg_imglen - imglen - filebuf_len + j + 1

(* It also mirrors what has been programmed into the block in progress,    *)
(* which is what a failing block takes along.                              *)
BufferMirrorsBlock ==
  blockstart = eb /\ Running =>
    \A p \in 0 .. writebuf - 1 : dev[eb][p] = filebuf[p]

(* Good flash that has not been reached yet is erased.                     *)
AheadErased ==
  /\ \A b \in Blocks : b > eb /\ b \notin bad => dev[b] = ErasedBlock
  /\ eb \in Blocks \ bad /\ ~Recovering /\ pc # "done" =>
       \A p \in Pages : p >= pg => dev[eb][p] = Erased

(***************************************************************************)
(* Reading the good blocks in device order yields the image pages in image *)
(* order: no rewind or skipped block ever repeats or swaps pages, and no   *)
(* garbage sits between them.                                              *)
(***************************************************************************)
PagesInOrder ==
  \A b, c \in Blocks, p, q \in Pages :
    /\ Stored(b, p) => dev[b][p] \in 1 .. PagesStored
    /\ Stored(b, p) /\ Stored(c, q) /\ Before(b, p, c, q)
         => dev[b][p] < dev[c][q]

(***************************************************************************)
(* No page of the image that was read and left the buffer is missing on    *)
(* the device: replaying the buffer after an EIO loses nothing.  With      *)
(* PagesInOrder: the good blocks hold exactly pages 1 .. PagesStored.      *)
(***************************************************************************)
NoPageLost ==
  \A i \in 1 .. PagesStored :
    \E b \in Blocks, p \in Pages : Stored(b, p) /\ dev[b][p] = i

(***************************************************************************)
(* The warning is honest: when the function returns after having opened    *)
(* the device, it has printed "Data was only partially written" exactly    *)
(* when a page of the image is missing, whichever of the many exits it     *)
(* took (an empty image may be warned about for nothing).                  *)
(***************************************************************************)
WarnedIffIncomplete ==
  pc = "done" /\ result = 0 /\ ofg_imglen > 0
    => (warned <=> PagesStored < ofg_imglen)

(***************************************************************************)
(* After a return without warning nothing is left on the good blocks       *)
(* behind the image: the file system or boot loader that reads on finds    *)
(* erased flash, and every block that failed has been marked bad.          *)
(***************************************************************************)
NothingBehindImage ==
  pc = "done" /\ result = 0 /\ ~warned =>
    \A b \in Blocks \ bad, p \in Pages : Stored(b, p) \/ dev[b][p] = Erased

(* A block that is marked bad is neither programmed nor erased again.      *)
BadBlocksLeftAlone ==
  [][\A b \in bad : b \in bad' /\ dev'[b] = dev[b]]_vars

(***************************************************************************)
(* Flash discipline: a page changes only from the erased state, unless it  *)
(* is erased, and then no page of a block that keeps image data goes: the  *)
(* erased block is the one whose buffered pages will be replayed.          *)
(***************************************************************************)
OnlyErasedPagesProgrammed ==
  [][\A b \in Blocks, p \in Pages :
       dev'[b][p] # dev[b][p] =>
         \/ dev[b][p] = Erased
         \/ b = eb /\ p <= pg /\ p < filebuf_len /\ writebuf = 0]_vars

(***************************************************************************)
(* The loops cannot turn for ever, however often a block fails, a buffer   *)
(* is rewound and replayed, or a block is skipped: every step either goes  *)
(* on to the next block, or takes up the block reached, or moves on within *)
(* it, or comes closer to one of these.  With the bounds of TypeOK and a   *)
(* thread that keeps running this is why the function returns.             *)
(***************************************************************************)
Stage == [open |-> 0, outer |-> 1, inner |-> 2, write |-> 3, erase |-> 4,
          mark |-> 5, done |-> 6]

MovesOn ==
  [][\/ eb' > eb
     \/ eb' = eb /\ blockstart' > blockstart
     \/ UNCHANGED <<eb, blockstart>> /\ pg' > pg
     \/ UNCHANGED posVars /\ Stage[pc'] > Stage[pc]]_vars
==============================================================================
