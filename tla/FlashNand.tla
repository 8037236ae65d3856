------------------------------ MODULE FlashNand ------------------------------
(***************************************************************************)
(* flash_ubi_jffs2_rootfs() and flash_ubi_jffs2_kernel()                   *)
(* (flash_ubi_jffs2.c), called in this order by main().  The type of the   *)
(* flash and of the running rootfs choose the tools: NAND is erased with   *)
(* flash_erase_main() and filled with nandwrite_main(), or formatted by    *)
(* ubiformat_main() (module UbiFormat) when the rootfs is UBIFS, NOR is    *)
(* written by flashcp_main().  The variables dev, bad, marker and mtype    *)
(* are the partition being flashed.  Both calls share the static variables *)
(* of flash_erase.c, because all of it is one process.                     *)
(***************************************************************************)
EXTENDS NandWriteImpl

VARIABLES
  mtype,        (* getFlashType(): "nand", "mlc", "nor" or another one     *)
  rootfs_type,  (* of the running rootfs: "JFFS2", "UBIFS" or "EXT3"       *)
  marker, jffs2, noskipbad, epc, eeb, eresult, complained,
  cpc, ceb, written, reboots, cresult,
  job,          (* "rootfs" or "kernel"                                    *)
  todo,         (* what else is to be flashed                              *)
  stage         (* "start", "erase", "write", "copy", "flashed", "failed", *)
                (* "rebooted"                                              *)

Erase == INSTANCE FlashErase WITH JffsTypes <- {"nand"}
Copy  == INSTANCE FlashCp

jobVars == <<job, todo, stage>>
typeVars == <<mtype, rootfs_type>>
eVars   == <<marker, jffs2, noskipbad, epc, eeb, eresult, complained>>
cVars   == <<cpc, ceb, written, reboots, cresult>>
allVars == <<vars, typeVars, eVars, cVars, jobVars>>
nandVars == <<pc, imgVars, posVars, bufVars, outVars>>

Jobs == {"rootfs", "kernel"}

Nand == mtype \in {"nand", "mlc"}
Nor  == mtype = "nor"

NandInit ==
  /\ bad \in IF Nand THEN SUBSET Blocks ELSE {{}}
  /\ dev = [b \in Blocks |-> GarbageBlock]
  /\ pc = "open"
  /\ ofg_imglen \in 1 .. MaxImgPages /\ tail \in {0, 1}
  /\ imglen = ofg_imglen
  /\ eb = 0 /\ pg = 0 /\ blockstart = -1
  /\ filebuf = EmptyBuf /\ filebuf_len = 0 /\ writebuf = -1
  /\ warned = FALSE /\ result = 0

FlashInit ==
  /\ mtype \in {"nand", "mlc", "nor", "other"}
  /\ rootfs_type \in {"JFFS2", "UBIFS", "EXT3"}
  /\ NandInit
  /\ cpc = "idle" /\ ceb = 0 /\ written = 0 /\ reboots = FALSE /\ cresult = 0
  /\ marker = {}
  /\ jffs2 = FALSE /\ noskipbad = FALSE
  /\ epc = "idle" /\ eeb = 0 /\ eresult = 0 /\ complained = FALSE
  /\ \/ job = "rootfs" /\ todo \in {{}, {"kernel"}}
     \/ job = "kernel" /\ todo = {}
  /\ stage = "start"

(* flash_erase_jffs2() gives -j, flash_erase() does not.                   *)
WantsCleanmarkers == job = "rootfs"

(* The branches on flash type and rootfs type.  A kernel goes to any NAND  *)
(* or NOR, a rootfs to where its type can live.                            *)
UsesErase == Nand /\ (job = "rootfs" => rootfs_type = "JFFS2")
UsesUbi   == Nand /\ job = "rootfs" /\ rootfs_type = "UBIFS"
UsesCopy  == Nor /\ (job = "rootfs" => rootfs_type = "JFFS2")

(* getFlashType() fails, or "Flash type is not supported".                 *)
Unsupported ==
  /\ stage = "start"
  /\ stage' = "failed"
  /\ UNCHANGED <<vars, typeVars, eVars, cVars, job, todo>>

StartErase ==
  /\ stage = "start"
  /\ UsesErase
  /\ Erase!EraseCall(WantsCleanmarkers)
  /\ stage' = "erase"
  /\ UNCHANGED <<nandVars, rootfs_type, cVars, job, todo>>

(* ubi_write(): none of the pages ubiformat leaves is a bare image page.   *)
UbiWrite ==
  /\ stage = "start"
  /\ UsesUbi
  /\ stage' \in {"flashed", "failed"}
  /\ UNCHANGED <<vars, typeVars, eVars, cVars, job, todo>>

(* flashcp(): the rootfs is written with "-r".                             *)
StartCopy ==
  /\ stage = "start"
  /\ UsesCopy
  /\ Copy!CopyCall(job = "rootfs")
  /\ stage' = "copy"
  /\ UNCHANGED <<bad, nandVars, typeVars, eVars, job, todo>>

Copying ==
  /\ stage = "copy"
  /\ Copy!CopyStep
  /\ UNCHANGED <<bad, pc, tail, posVars, bufVars, outVars, typeVars, eVars,
                 jobVars>>

CopyReturned ==
  /\ stage = "copy"
  /\ \/ cpc = "rebooted" /\ stage' = "rebooted"
     \/ cpc = "done" /\ stage' = IF cresult = 0 THEN "flashed" ELSE "failed"
  /\ UNCHANGED <<vars, typeVars, eVars, cVars, job, todo>>

Erasing ==
  /\ stage = "erase"
  /\ Erase!EraseStep
  /\ UNCHANGED <<nandVars, rootfs_type, cVars, jobVars>>

(* flash_erase_main() != 0 ends the job, everything else goes on writing.  *)
EraseReturned ==
  /\ stage = "erase"
  /\ epc = "done"
  /\ stage' = IF eresult = 0 THEN "write" ELSE "failed"
  /\ UNCHANGED <<vars, typeVars, eVars, cVars, job, todo>>

Writing ==
  /\ stage = "write"
  /\ pc # "done"
  /\ Next
  /\ UNCHANGED <<typeVars, eVars, cVars, jobVars>>

WriteReturned ==
  /\ stage = "write"
  /\ pc = "done"
  /\ stage' = IF result = 0 THEN "flashed" ELSE "failed"
  /\ UNCHANGED <<vars, typeVars, eVars, cVars, job, todo>>

(* "Successfully flashed rootfs!": on to the kernel and its partition.     *)
NextJob ==
  /\ stage = "flashed"
  /\ \E next \in todo : job' = next /\ todo' = todo \ {next}
  /\ stage' = "start"
  /\ bad' \in IF Nand THEN SUBSET Blocks ELSE {{}}
  /\ dev' = [b \in Blocks |-> GarbageBlock]
  /\ marker' = {}
  /\ pc' = "open"
  /\ ofg_imglen' \in 1 .. MaxImgPages /\ tail' \in {0, 1}
  /\ imglen' = ofg_imglen'
  /\ eb' = 0 /\ pg' = 0 /\ blockstart' = -1
  /\ filebuf' = EmptyBuf /\ filebuf_len' = 0 /\ writebuf' = -1
  /\ warned' = FALSE /\ result' = 0
  /\ epc' = "idle" /\ eeb' = 0 /\ eresult' = 0 /\ complained' = FALSE
  /\ cpc' = "idle" /\ ceb' = 0 /\ written' = 0 /\ reboots' = FALSE
  /\ cresult' = 0
  /\ UNCHANGED <<typeVars, jffs2, noskipbad>>

Ended == stage \in {"failed", "rebooted"} \/ (stage = "flashed" /\ todo = {})

Finished ==
  /\ Ended
  /\ UNCHANGED allVars

FlashNext ==
  \/ Unsupported \/ UbiWrite
  \/ StartErase \/ Erasing \/ EraseReturned \/ Writing \/ WriteReturned
  \/ StartCopy \/ Copying \/ CopyReturned
  \/ NextJob \/ Finished

FlashSpec == FlashInit /\ [][FlashNext]_allVars
FlashFairSpec == FlashSpec /\ WF_allVars(FlashNext)

------------------------------------------------------------------------------

(* A reader that skips the bad blocks (ReadBack of NandWriteImpl) finds    *)
(* the image.  flashcp erases only what it needs, so what is behind the    *)
(* image stays.                                                            *)
ImageReadable ==
  /\ 1 .. ofg_imglen \subseteq DOMAIN ReadBack
  /\ \A i \in DOMAIN ReadBack :
       IF i <= ofg_imglen THEN ReadBack[i] = i ELSE Nand => ReadBack[i] = Erased

(* If a job reports success (or flashcp reboots) and no tool printed an    *)
(* error message, the partition holds the image, on NAND nothing else: no  *)
(* page is programmed on top of old data unless flash_erase complained     *)
(* before, and flashcp erases as many blocks as it writes to.              *)
QuietSuccessMeansImage ==
  stage \in {"flashed", "rebooted"} /\ ~UsesUbi /\ ~complained /\ ~warned
    => ImageReadable

(* A block that was bad when the partition was opened is never erased or   *)
(* programmed, although noskipbad, once set, survives into later calls.    *)
BadBlocksUntouched ==
  [][stage = stage' => \A b \in bad : dev'[b] = dev[b]]_allVars

(* On NOR the eraseblocks behind the one the image ends in keep their      *)
(* content: the erase loop of flashcp counts exactly the blocks its write  *)
(* loop will reach, for every length, and a failing one ends it.           *)
BehindImageUntouched ==
  [][Nor /\ stage = stage' =>
       \A b \in Blocks : b * PagesPerEb >= ofg_imglen => dev'[b] = dev[b]]_allVars

(* flash_erase without -j, as for the kernel, leaves no JFFS2 cleanmarkers.*)
(* Violated: jffs2 is still set from the rootfs.                           *)
CleanmarkersOnlyWithJ == marker # {} => WantsCleanmarkers

(* Every job asked for is finished, or one of them fails and ends the rest,*)
(* or flashcp has rebooted the box.                                        *)
FlashTerminates == <>Ended
==============================================================================
