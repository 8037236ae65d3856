-------------------------- MODULE BlockFlashProofs ---------------------------
(***************************************************************************)
(* Proofs about flashing to block devices: for any loop devices, archives, *)
(* pipe and number of runs, a run that ends has released its devices, the  *)
(* old rootfs is replaced by the image just given and nothing else, and a  *)
(* damaged archive is never reported as unpacked.                          *)
(***************************************************************************)
EXTENDS BlockFlash, TLAPS

(***************************************************************************)
(* The chain of devices, also with what earlier runs left behind: block2mtd*)
(* only sits on loop devices of ours, UBI only on block2mtd, a mount only  *)
(* on UBI.                                                                 *)
(***************************************************************************)
Extracting == {"prepare", "header", "size", "page"}
Unbound    == Extracting \cup {"query", "set"}
Mounted    == {"delete", "copy", "umount"}

ChainInv ==
  /\ \A l \in b2m : loops[l] = "ours"
  /\ ubi # NoLoop => ubi \in b2m
  /\ mnt => ubi # NoLoop

(***************************************************************************)
(* How far this run's chain has come, or has been taken down: what is left *)
(* of it after a step of the teardown was left by a call that failed.      *)
(***************************************************************************)
RunInv ==
  /\ pc = "end" <=> result # "running"
  /\ pc \in Extracting \cup {"query"} => dev = NoLoop
  /\ pc = "set" => dev \in Loops /\ loops[dev] # "ours"
  /\ pc \notin Unbound \cup {"end"} => dev \in Loops /\ loops[dev] = "ours"
  /\ pc = "block2mtd" => dev \notin b2m
  /\ pc \in {"detect_vid", "detect_mtd", "attach"} => ubi # dev
  /\ pc \in {"attach", "mount"} \cup Mounted => dev \in b2m
  /\ pc \in {"mount"} \cup Mounted => ubi = dev
  /\ pc = "mount" => ~mnt
  /\ pc \in Mounted => mnt
  /\ pc = "detach" /\ mnt => unreleased
  /\ pc = "remove" /\ ubi = dev => unreleased
  /\ pc = "release" /\ dev \in b2m => unreleased
  /\ NothingLeftBehind

(* The rootfs partition of an NFI file has been copied out of it, whole but*)
(* for what is lost when the output file is closed.                        *)
ExtractInv ==
  /\ pc \in {"header", "size", "page"} => nfi # PlainImage
  /\ pc = "page" => partition = RootfsPartition /\ partition < Len(nfi.sizes)
  /\ pc \notin Extracting \cup {"end"} /\ nfi # PlainImage =>
       partition = RootfsPartition /\ Flushed(copied)

(* The directory while rm has had nothing to complain about.               *)
CopyInv ==
  /\ pc \in {"copy", "umount"} /\ ~warned =>
       \A e \in Entries :
         IF e \in ImageEntries THEN pc = "copy" => slot[e] \in {"absent", "new"}
                               ELSE slot[e] = "absent"
  /\ ret = 1 => pc \in {"umount", "detach", "remove", "release", "end"}
  /\ ret = 1 /\ ~warned =>
       \A e \in Entries :
         \/ slot[e] = (IF e \in ImageEntries THEN "new" ELSE "absent")
         \/ slot[e] = "absent" /\ unread
  /\ result = "ok" => ret = 1

LoopInv == TypeOK /\ ChainInv /\ RunInv /\ ExtractInv /\ CopyInv

(***************************************************************************)
(* Unpacking: what has been extracted, and how the decompressor ended.     *)
(***************************************************************************)
UnpackTypeOK ==
  /\ archive \in Archives /\ damage \in Damages(archive)
  /\ tree \in [Names -> {"old", "absent", "new", "merged", "part", "altered"}]
  /\ upc \in {"rm", "open", "read", "drain", "wait", "end"}
  /\ consumed \in 0 .. Total(archive) /\ produced \in 0 .. Total(archive)
  /\ compressed => produced - consumed \in 0 .. PipeSize
  /\ child \in {"none", "running", "fatal", "exit0", "exit1"}
  /\ uresult \in {"running", "ok", "failed", "exited", "rebooted"}

Unpacked(n) == \E i \in 1 .. Len(archive) : i <= consumed /\ archive[i].name = n

AlteredName(n) ==
  Altered /\ damage.at <= Len(archive) /\ archive[damage.at].name = n

ReadInv ==
  /\ upc = "rm" => ~printed
  /\ upc \in {"rm", "open"} => consumed = 0
  /\ upc = "read" => consumed <= Len(archive)
  /\ upc = "drain" => consumed > Len(archive)
  /\ upc = "wait" /\ ~printed => consumed > Len(archive)
  /\ upc = "end" <=> uresult # "running"
  /\ uresult = "ok" /\ ~printed => consumed > Len(archive)

Content ==
  \A n \in Names : \/ tree[n] = (IF Unpacked(n) THEN "new" ELSE "absent")
                   \/ AlteredName(n)

TreeInv ==
  ~printed /\ (upc \in {"open", "read", "drain", "wait"} \/ uresult = "ok") => Content

ChildInv ==
  /\ upc \in {"rm", "open"} => child = "none" /\ produced = 0
  /\ ~compressed => child = "none"
  /\ compressed => produced + 1 <= Cut
  /\ child = "exit0" => produced = Total(archive) /\ (Altered => ~verified)
  /\ uresult = "ok" /\ compressed => child = "exit0"

UnpackInv == UnpackTypeOK /\ ReadInv /\ TreeInv /\ ChildInv

KernelInv ==
  /\ kdev \in Nat /\ kread \in Nat /\ kbuf \in Nat
  /\ kdev + kbuf <= kread /\ kread <= KernelUnits /\ kbuf <= BufUnits
  /\ kresult \in {"idle", "running", "closing"} => kdev + kbuf = kread
  /\ kresult = "closing" => kread = KernelUnits
  /\ kresult = "ok" => kdev >= KernelUnits - BufUnits

BootInv ==
  /\ bootimg \in {"absent", "old", "part", "new"} /\ bwritten \in 0 .. Parts
  /\ bootimg = "part" => bpc = "write"
  /\ bpc \in {"load", "remove", "create", "write"} => stage = "boot"

BlockInv == LoopInv /\ UnpackInv /\ KernelInv /\ BootInv

(* A step of flash_ubi_loop_subdir(), of a later run or of another process.*)
LoopStep == Step \/ RunAgain \/ OtherProcess \/ UNCHANGED vars

(* The types of flash_ubi_loop_subdir()'s state, also over several runs.   *)
LEMMA LoopTypes == LoopInv /\ LoopStep => TypeOK'
<1> SUFFICES ASSUME LoopInv, LoopStep PROVE TypeOK'
  OBVIOUS
<1> USE UbiLoopAssumption, NfiFilesAssumption, NoLoopAssumption
<1> USE DEF LoopInv, TypeOK, ExtractInv, RunInv, ChainInv, Unbound,
            Extracting, Mounted, Goto, Return, chain, nfiVars, job, vars
<1>1. CASE Prepare
  BY <1>1 DEF Prepare
<1>2. CASE ReadNfiHeader
  BY <1>2 DEF ReadNfiHeader, ExtractSame, Readable, Size
<1>3. CASE SkipPartition
  <2>1. nfi \in NfiFiles /\ nfi.sizes \in Seq(Nat) /\ partition + 1 \in 1 .. Len(nfi.sizes)
    BY <1>3 DEF SkipPartition
  <2>2. Size \in Nat
    BY <2>1 DEF Size
  <2>3. fpos' \in Nat /\ partition' \in 0 .. RootfsPartition
    BY <1>3, <2>2 DEF SkipPartition, RootfsPartition
  <2> QED
    BY <1>3, <2>3 DEF SkipPartition, ExtractSame, RootfsPartition
<1>4. CASE FindRootfs
  BY <1>4 DEF FindRootfs, ExtractSame, Readable, Size
<1>5. CASE CopyPage
  BY <1>5 DEF CopyPage, ExtractSame, Readable, Size
<1>6. CASE ExtractFails
  BY <1>6 DEF ExtractFails, ExtractSame, Readable, Size
<1>7. CASE Extracted
  BY <1>7 DEF Extracted, ExtractSame, Readable, Size, Flushed
<1>8. CASE QueryLoop
  BY <1>8 DEF QueryLoop, Die
<1>9. CASE SetLoop
  BY <1>9 DEF SetLoop
<1>10. CASE SetLoopFails
  BY <1>10 DEF SetLoopFails, Die
<1>11. CASE SetupBlock2mtd
  BY <1>11 DEF SetupBlock2mtd
<1>12. CASE SetupBlock2mtdFails
  BY <1>12 DEF SetupBlock2mtdFails, FailFrom
<1>13. CASE DetectVid
  BY <1>13 DEF DetectVid
<1>14. CASE DetectVidFails
  BY <1>14 DEF DetectVidFails, FailFrom
<1>15. CASE DetectMtd
  BY <1>15 DEF DetectMtd
<1>16. CASE DetectMtdFails
  BY <1>16 DEF DetectMtdFails, FailFrom
<1>17. CASE Attach
  BY <1>17 DEF Attach
<1>18. CASE AttachFails
  BY <1>18 DEF AttachFails, FailFrom
<1>19. CASE Mount
  BY <1>19 DEF Mount
<1>20. CASE MountFails
  BY <1>20 DEF MountFails, FailFrom
<1>21. CASE DeleteRootfs
  BY <1>21 DEF DeleteRootfs
<1>22. CASE CopyEntry
  BY <1>22 DEF CopyEntry, Uncopied
<1>23. CASE CopyFails
  BY <1>23 DEF CopyFails, Uncopied
<1>24. CASE CopyDone
  BY <1>24 DEF CopyDone, Uncopied
<1>25. CASE Umount
  BY <1>25 DEF Umount, Released, Refused
<1>26. CASE Detach
  BY <1>26 DEF Detach, Released, Refused
<1>27. CASE RemoveBlock2mtd
  BY <1>27 DEF RemoveBlock2mtd, Released, Refused
<1>28. CASE ReleaseLoop
  <2>1. loops' \in [Loops -> {"free", "ours", "foreign"}]
    BY <1>28 DEF ReleaseLoop, Die
  <2>2. unreleased' \in BOOLEAN
    BY <1>28 DEF ReleaseLoop, Die
  <2>3. UNCHANGED <<b2m, ubi, mnt, slot, job>>
    BY <1>28 DEF ReleaseLoop, Die
  <2>4. pc' = "end" /\ result' \in {"ok", "failed", "died"}
    BY <1>28 DEF ReleaseLoop, Die, Outcome
  <2> QED
    BY <2>1, <2>2, <2>3, <2>4
<1>29. CASE RunAgain
  <2>1. run' \in 1 .. MaxRuns
    BY <1>29 DEF RunAgain
  <2>2. slot' \in [Entries -> {"old", "absent", "new", "merged", "part"}]
    BY <1>29 DEF RunAgain
  <2>3. partition' \in 0 .. RootfsPartition
    BY <1>29 DEF RunAgain, RootfsPartition
  <2>4. /\ vid_offset' = 0 /\ ret' = 0 /\ dev' = NoLoop /\ fpos' = 0 /\ copied' = 0
        /\ pc' = "prepare" /\ result' = "running"
        /\ image' \in Images /\ nfi' \in NfiFiles \cup {PlainImage}
    BY <1>29 DEF RunAgain
  <2>5. unreleased' \in BOOLEAN /\ warned' \in BOOLEAN /\ unread' \in BOOLEAN
    BY <1>29 DEF RunAgain
  <2>6. UNCHANGED chain
    BY <1>29 DEF RunAgain
  <2> QED
    BY <2>1, <2>2, <2>3, <2>4, <2>5, <2>6
<1>30. CASE OtherProcess
  BY <1>30 DEF OtherProcess
<1>31. CASE UNCHANGED vars
  BY <1>31
<1>32. CASE CopyTraps
  BY <1>32 DEF CopyTraps
<1>33. QED
  BY <1>1, <1>2, <1>3, <1>4, <1>5, <1>6, <1>7, <1>8, <1>9, <1>10, <1>11,
     <1>12, <1>13, <1>14, <1>15, <1>16, <1>17, <1>18, <1>19, <1>20, <1>21,
     <1>22, <1>23, <1>24, <1>25, <1>26, <1>27, <1>28, <1>29, <1>30, <1>31,
     <1>32
     DEF LoopStep, Step, SetUp, Replace, TearDown

(* No device of the chain is taken away under another: each teardown call  *)
(* is refused while the device above is there.                             *)
LEMMA ChainNext == LoopInv /\ LoopStep => ChainInv'
<1> SUFFICES ASSUME LoopInv, LoopStep PROVE ChainInv'
  OBVIOUS
<1> USE NoLoopAssumption
<1> USE DEF LoopInv, TypeOK, ChainInv, RunInv, Unbound, Extracting, Mounted,
            Goto, Return, chain, nfiVars, job, vars
<1>1. CASE Prepare
  BY <1>1 DEF Prepare
<1>2. CASE ReadNfiHeader
  BY <1>2 DEF ReadNfiHeader, ExtractSame, Readable, Size
<1>3. CASE SkipPartition
  BY <1>3 DEF SkipPartition, ExtractSame, Readable, Size
<1>4. CASE FindRootfs
  BY <1>4 DEF FindRootfs, ExtractSame, Readable, Size
<1>5. CASE CopyPage
  BY <1>5 DEF CopyPage, ExtractSame, Readable, Size
<1>6. CASE ExtractFails
  BY <1>6 DEF ExtractFails, ExtractSame, Readable, Size
<1>7. CASE Extracted
  BY <1>7 DEF Extracted, ExtractSame, Readable, Size, Flushed
<1>8. CASE QueryLoop
  BY <1>8 DEF QueryLoop, Die
<1>9. CASE SetLoop
  BY <1>9 DEF SetLoop
<1>10. CASE SetLoopFails
  BY <1>10 DEF SetLoopFails, Die
<1>11. CASE SetupBlock2mtd
  BY <1>11 DEF SetupBlock2mtd
<1>12. CASE SetupBlock2mtdFails
  BY <1>12 DEF SetupBlock2mtdFails, FailFrom
<1>13. CASE DetectVid
  BY <1>13 DEF DetectVid
<1>14. CASE DetectVidFails
  BY <1>14 DEF DetectVidFails, FailFrom
<1>15. CASE DetectMtd
  BY <1>15 DEF DetectMtd
<1>16. CASE DetectMtdFails
  BY <1>16 DEF DetectMtdFails, FailFrom
<1>17. CASE Attach
  BY <1>17 DEF Attach
<1>18. CASE AttachFails
  BY <1>18 DEF AttachFails, FailFrom
<1>19. CASE Mount
  BY <1>19 DEF Mount
<1>20. CASE MountFails
  BY <1>20 DEF MountFails, FailFrom
<1>21. CASE DeleteRootfs
  BY <1>21 DEF DeleteRootfs
<1>22. CASE CopyEntry
  BY <1>22 DEF CopyEntry, Uncopied
<1>23. CASE CopyFails
  BY <1>23 DEF CopyFails, Uncopied
<1>24. CASE CopyDone
  BY <1>24 DEF CopyDone, Uncopied
<1>25. CASE Umount
  BY <1>25 DEF Umount, Released, Refused
<1>26. CASE Detach
  BY <1>26 DEF Detach, Released, Refused
<1>27. CASE RemoveBlock2mtd
  BY <1>27 DEF RemoveBlock2mtd, Released, Refused
<1>28. CASE ReleaseLoop
  BY <1>28 DEF ReleaseLoop, Die, Outcome
<1>29. CASE RunAgain
  BY <1>29 DEF RunAgain
<1>30. CASE OtherProcess
  BY <1>30 DEF OtherProcess
<1>31. CASE UNCHANGED vars
  BY <1>31
<1>32. CASE CopyTraps
  BY <1>32 DEF CopyTraps
<1>33. QED
  BY <1>1, <1>2, <1>3, <1>4, <1>5, <1>6, <1>7, <1>8, <1>9, <1>10, <1>11,
     <1>12, <1>13, <1>14, <1>15, <1>16, <1>17, <1>18, <1>19, <1>20, <1>21,
     <1>22, <1>23, <1>24, <1>25, <1>26, <1>27, <1>28, <1>29, <1>30, <1>31,
     <1>32
     DEF LoopStep, Step, SetUp, Replace, TearDown

(* Every error path takes down what the path before it has set up, and     *)
(* what stays was left by a call that failed.                              *)
LEMMA RunNext == LoopInv /\ LoopStep => RunInv'
<1> SUFFICES ASSUME LoopInv, LoopStep PROVE RunInv'
  OBVIOUS
<1> USE NoLoopAssumption
<1> USE DEF LoopInv, TypeOK, ChainInv, RunInv, NothingLeftBehind, Unbound,
            Extracting, Mounted, Goto, Return, chain, nfiVars, job, vars
<1>1. CASE Prepare
  BY <1>1 DEF Prepare
<1>2. CASE ReadNfiHeader
  BY <1>2 DEF ReadNfiHeader, ExtractSame, Readable, Size
<1>3. CASE SkipPartition
  BY <1>3 DEF SkipPartition, ExtractSame, Readable, Size
<1>4. CASE FindRootfs
  BY <1>4 DEF FindRootfs, ExtractSame, Readable, Size
<1>5. CASE CopyPage
  BY <1>5 DEF CopyPage, ExtractSame, Readable, Size
<1>6. CASE ExtractFails
  BY <1>6 DEF ExtractFails, ExtractSame, Readable, Size
<1>7. CASE Extracted
  BY <1>7 DEF Extracted, ExtractSame, Readable, Size, Flushed
<1>8. CASE QueryLoop
  BY <1>8 DEF QueryLoop, Die
<1>9. CASE SetLoop
  BY <1>9 DEF SetLoop
<1>10. CASE SetLoopFails
  BY <1>10 DEF SetLoopFails, Die
<1>11. CASE SetupBlock2mtd
  BY <1>11 DEF SetupBlock2mtd
<1>12. CASE SetupBlock2mtdFails
  BY <1>12 DEF SetupBlock2mtdFails, FailFrom
<1>13. CASE DetectVid
  BY <1>13 DEF DetectVid
<1>14. CASE DetectVidFails
  BY <1>14 DEF DetectVidFails, FailFrom
<1>15. CASE DetectMtd
  BY <1>15 DEF DetectMtd
<1>16. CASE DetectMtdFails
  BY <1>16 DEF DetectMtdFails, FailFrom
<1>17. CASE Attach
  BY <1>17 DEF Attach
<1>18. CASE AttachFails
  BY <1>18 DEF AttachFails, FailFrom
<1>19. CASE Mount
  BY <1>19 DEF Mount
<1>20. CASE MountFails
  BY <1>20 DEF MountFails, FailFrom
<1>21. CASE DeleteRootfs
  BY <1>21 DEF DeleteRootfs
<1>22. CASE CopyEntry
  BY <1>22 DEF CopyEntry, Uncopied
<1>23. CASE CopyFails
  BY <1>23 DEF CopyFails, Uncopied
<1>24. CASE CopyDone
  BY <1>24 DEF CopyDone, Uncopied
<1>25. CASE Umount
  BY <1>25 DEF Umount, Released, Refused
<1>26. CASE Detach
  BY <1>26 DEF Detach, Released, Refused
<1>27. CASE RemoveBlock2mtd
  BY <1>27 DEF RemoveBlock2mtd, Released, Refused
<1>28. CASE ReleaseLoop
  BY <1>28 DEF ReleaseLoop, Die, Outcome
<1>29. CASE RunAgain
  BY <1>29 DEF RunAgain
<1>30. CASE OtherProcess
  BY <1>30 DEF OtherProcess
<1>31. CASE UNCHANGED vars
  BY <1>31
<1>32. CASE CopyTraps
  BY <1>32 DEF CopyTraps
<1>33. QED
  BY <1>1, <1>2, <1>3, <1>4, <1>5, <1>6, <1>7, <1>8, <1>9, <1>10, <1>11,
     <1>12, <1>13, <1>14, <1>15, <1>16, <1>17, <1>18, <1>19, <1>20, <1>21,
     <1>22, <1>23, <1>24, <1>25, <1>26, <1>27, <1>28, <1>29, <1>30, <1>31,
     <1>32
     DEF LoopStep, Step, SetUp, Replace, TearDown

(* extract_rootfs_from_nfi() goes on to losetup only when every page of the*)
(* fourth partition has been given to fwrite().                            *)
LEMMA ExtractNext == LoopInv /\ LoopStep => ExtractInv'
<1> SUFFICES ASSUME LoopInv, LoopStep PROVE ExtractInv'
  OBVIOUS
<1> USE DEF LoopInv, TypeOK, RunInv, ExtractInv, Flushed, Size, Extracting, Goto, Return,
            chain, nfiVars, job, vars
<1>1. CASE Prepare
  BY <1>1 DEF Prepare
<1>2. CASE ReadNfiHeader
  BY <1>2 DEF ReadNfiHeader, ExtractSame, Readable, Size
<1>3. CASE SkipPartition
  BY <1>3 DEF SkipPartition, ExtractSame, Readable, Size
<1>4. CASE FindRootfs
  BY <1>4 DEF FindRootfs, ExtractSame, Readable, Size
<1>5. CASE CopyPage
  BY <1>5 DEF CopyPage, ExtractSame, Readable, Size
<1>6. CASE ExtractFails
  BY <1>6 DEF ExtractFails, ExtractSame, Readable, Size
<1>7. CASE Extracted
  BY <1>7 DEF Extracted, ExtractSame, Readable, Size, Flushed
<1>8. CASE QueryLoop
  BY <1>8 DEF QueryLoop, Die
<1>9. CASE SetLoop
  BY <1>9 DEF SetLoop
<1>10. CASE SetLoopFails
  BY <1>10 DEF SetLoopFails, Die
<1>11. CASE SetupBlock2mtd
  BY <1>11 DEF SetupBlock2mtd
<1>12. CASE SetupBlock2mtdFails
  BY <1>12 DEF SetupBlock2mtdFails, FailFrom
<1>13. CASE DetectVid
  BY <1>13 DEF DetectVid
<1>14. CASE DetectVidFails
  BY <1>14 DEF DetectVidFails, FailFrom
<1>15. CASE DetectMtd
  BY <1>15 DEF DetectMtd
<1>16. CASE DetectMtdFails
  BY <1>16 DEF DetectMtdFails, FailFrom
<1>17. CASE Attach
  BY <1>17 DEF Attach
<1>18. CASE AttachFails
  BY <1>18 DEF AttachFails, FailFrom
<1>19. CASE Mount
  BY <1>19 DEF Mount
<1>20. CASE MountFails
  BY <1>20 DEF MountFails, FailFrom
<1>21. CASE DeleteRootfs
  BY <1>21 DEF DeleteRootfs
<1>22. CASE CopyEntry
  BY <1>22 DEF CopyEntry, Uncopied
<1>23. CASE CopyFails
  BY <1>23 DEF CopyFails, Uncopied
<1>24. CASE CopyDone
  BY <1>24 DEF CopyDone, Uncopied
<1>25. CASE Umount
  BY <1>25 DEF Umount, Released, Refused
<1>26. CASE Detach
  BY <1>26 DEF Detach, Released, Refused
<1>27. CASE RemoveBlock2mtd
  BY <1>27 DEF RemoveBlock2mtd, Released, Refused
<1>28. CASE ReleaseLoop
  BY <1>28 DEF ReleaseLoop, Die, Outcome
<1>29. CASE RunAgain
  BY <1>29 DEF RunAgain
<1>30. CASE OtherProcess
  BY <1>30 DEF OtherProcess
<1>31. CASE UNCHANGED vars
  BY <1>31
<1>32. CASE CopyTraps
  BY <1>32 DEF CopyTraps
<1>33. QED
  BY <1>1, <1>2, <1>3, <1>4, <1>5, <1>6, <1>7, <1>8, <1>9, <1>10, <1>11,
     <1>12, <1>13, <1>14, <1>15, <1>16, <1>17, <1>18, <1>19, <1>20, <1>21,
     <1>22, <1>23, <1>24, <1>25, <1>26, <1>27, <1>28, <1>29, <1>30, <1>31,
     <1>32
     DEF LoopStep, Step, SetUp, Replace, TearDown

(* cp_rootfs() returns 1 only when every entry is copied or readdir() gave *)
(* no more; what rm removed is created anew.                               *)
LEMMA CopyNext == LoopInv /\ LoopStep => CopyInv'
<1> SUFFICES ASSUME LoopInv, LoopStep PROVE CopyInv'
  OBVIOUS
<1> USE UbiLoopAssumption
<1> USE DEF LoopInv, TypeOK, CopyInv, RunInv, Goto, Return, chain, nfiVars,
            job, vars
<1>1. CASE Prepare
  BY <1>1 DEF Prepare
<1>2. CASE ReadNfiHeader
  BY <1>2 DEF ReadNfiHeader, ExtractSame, Readable, Size
<1>3. CASE SkipPartition
  BY <1>3 DEF SkipPartition, ExtractSame, Readable, Size
<1>4. CASE FindRootfs
  BY <1>4 DEF FindRootfs, ExtractSame, Readable, Size
<1>5. CASE CopyPage
  BY <1>5 DEF CopyPage, ExtractSame, Readable, Size
<1>6. CASE ExtractFails
  BY <1>6 DEF ExtractFails, ExtractSame, Readable, Size
<1>7. CASE Extracted
  BY <1>7 DEF Extracted, ExtractSame, Readable, Size, Flushed
<1>8. CASE QueryLoop
  BY <1>8 DEF QueryLoop, Die
<1>9. CASE SetLoop
  BY <1>9 DEF SetLoop
<1>10. CASE SetLoopFails
  BY <1>10 DEF SetLoopFails, Die
<1>11. CASE SetupBlock2mtd
  BY <1>11 DEF SetupBlock2mtd
<1>12. CASE SetupBlock2mtdFails
  BY <1>12 DEF SetupBlock2mtdFails, FailFrom
<1>13. CASE DetectVid
  BY <1>13 DEF DetectVid
<1>14. CASE DetectVidFails
  BY <1>14 DEF DetectVidFails, FailFrom
<1>15. CASE DetectMtd
  BY <1>15 DEF DetectMtd
<1>16. CASE DetectMtdFails
  BY <1>16 DEF DetectMtdFails, FailFrom
<1>17. CASE Attach
  BY <1>17 DEF Attach
<1>18. CASE AttachFails
  BY <1>18 DEF AttachFails, FailFrom
<1>19. CASE Mount
  BY <1>19 DEF Mount
<1>20. CASE MountFails
  BY <1>20 DEF MountFails, FailFrom
<1>21. CASE DeleteRootfs
  BY <1>21 DEF DeleteRootfs
<1>22. CASE CopyEntry
  BY <1>22 DEF CopyEntry, Uncopied
<1>23. CASE CopyFails
  BY <1>23 DEF CopyFails, Uncopied
<1>24. CASE CopyDone
  BY <1>24 DEF CopyDone, Uncopied
<1>25. CASE Umount
  BY <1>25 DEF Umount, Released, Refused
<1>26. CASE Detach
  BY <1>26 DEF Detach, Released, Refused
<1>27. CASE RemoveBlock2mtd
  BY <1>27 DEF RemoveBlock2mtd, Released, Refused
<1>28. CASE ReleaseLoop
  BY <1>28 DEF ReleaseLoop, Die, Outcome
<1>29. CASE RunAgain
  BY <1>29 DEF RunAgain
<1>30. CASE OtherProcess
  BY <1>30 DEF OtherProcess
<1>31. CASE UNCHANGED vars
  BY <1>31
<1>32. CASE CopyTraps
  BY <1>32 DEF CopyTraps
<1>33. QED
  BY <1>1, <1>2, <1>3, <1>4, <1>5, <1>6, <1>7, <1>8, <1>9, <1>10, <1>11,
     <1>12, <1>13, <1>14, <1>15, <1>16, <1>17, <1>18, <1>19, <1>20, <1>21,
     <1>22, <1>23, <1>24, <1>25, <1>26, <1>27, <1>28, <1>29, <1>30, <1>31,
     <1>32
     DEF LoopStep, Step, SetUp, Replace, TearDown

(* A step of tar or of its decompressor.                                   *)
UnpackStep == Tar \/ Decompressor \/ UNCHANGED unpackVars

(* What an archive's units are: entries with names, an end mark, padding.  *)
LEMMA ArchiveFacts ==
  ASSUME UnpackTypeOK
  PROVE  /\ archive \in Seq([name : Names, kind : {"file", "dir", "link"}])
         /\ Len(archive) \in Nat /\ Total(archive) \in Nat
         /\ Len(archive) < Total(archive)
         /\ \A i \in 1 .. Len(archive) : archive[i].name \in Names
         /\ \A i, j \in 1 .. Len(archive) :
              i < j /\ archive[j].kind = "dir" => archive[i].name # archive[j].name
         /\ consumed \in Nat /\ produced \in Nat
         /\ ReadingEntry => /\ consumed + 1 \in 1 .. Len(archive)
                            /\ Entry.name \in Names
<1>1. archive \in Seq([name : Names, kind : {"file", "dir", "link"}])
  BY ArchivesAssumption DEF UnpackTypeOK
<1>2. /\ Len(archive) \in Nat /\ Total(archive) \in Nat
      /\ Len(archive) < Total(archive)
      /\ consumed \in Nat /\ produced \in Nat
  BY <1>1, UnpackAssumption DEF UnpackTypeOK, Total
<1>3. \A i \in 1 .. Len(archive) : archive[i].name \in Names
  <2>1. \A i \in 1 .. Len(archive) :
          archive[i] \in [name : Names, kind : {"file", "dir", "link"}]
    <3> DEFINE E == [name : Names, kind : {"file", "dir", "link"}]
    <3>1. archive \in Seq(E)
      BY <1>1
    <3> HIDE DEF E
    <3>2. \A i \in 1 .. Len(archive) : archive[i] \in E
      BY <3>1
    <3> QED
      BY <3>2 DEF E
  <2> QED
    BY <2>1
<1>4. ReadingEntry => consumed + 1 \in 1 .. Len(archive)
  BY <1>2 DEF ReadingEntry
<1>5. \A i, j \in 1 .. Len(archive) :
        i < j /\ archive[j].kind = "dir" => archive[i].name # archive[j].name
  BY ArchivesAssumption DEF UnpackTypeOK
<1> QED
  BY <1>1, <1>2, <1>3, <1>4, <1>5 DEF Entry

(* The types of tar and of its decompressor; the pipe holds at most        *)
(* PipeSize units.                                                         *)
LEMMA UnpackTypes == UnpackInv /\ UnpackStep => UnpackTypeOK'
<1> SUFFICES ASSUME UnpackInv, UnpackStep PROVE UnpackTypeOK'
  OBVIOUS
<1> USE UnpackAssumption, ArchivesAssumption
<1> USE DEF UnpackInv, UnpackTypeOK, ReadInv, ChildInv, Total, Damages, Cut,
            input, unpackVars, UGoto, UReturn
<1>1. CASE RmRootfs
  BY <1>1 DEF RmRootfs
<1>2. CASE OpenArchive
  BY <1>2 DEF OpenArchive
<1>3. CASE OpenFails
  BY <1>3 DEF OpenFails, Fatal
<1>4. CASE ExtractEntry
  <2>1. /\ consumed \in Nat /\ Len(archive) \in Nat /\ consumed < Len(archive)
        /\ Entry.name \in Names /\ consumed' = consumed + 1
    BY <1>4, ArchiveFacts DEF ExtractEntry, ReadingEntry
  <2>2. tree' \in [Names -> {"old", "absent", "new", "merged", "part", "altered"}]
    BY <1>4, <2>1 DEF ExtractEntry
  <2>3. consumed' <= produced \/ ~compressed
    BY <1>4, <2>1 DEF ExtractEntry, ReadingEntry, Available
  <2> QED
    BY <1>4, <2>1, <2>2, <2>3 DEF ExtractEntry
<1>5. CASE ExtractError
  <2>1. /\ consumed \in Nat /\ Len(archive) \in Nat /\ consumed < Len(archive)
        /\ Entry.name \in Names /\ consumed' = consumed + 1
    BY <1>5, ArchiveFacts DEF ExtractError, ReadingEntry
  <2>2. tree' \in [Names -> {"old", "absent", "new", "merged", "part", "altered"}]
    BY <1>5, <2>1 DEF ExtractError
  <2>3. consumed' <= produced \/ ~compressed
    BY <1>5, <2>1 DEF ExtractError, ReadingEntry, Available
  <2> QED
    BY <1>5, <2>1, <2>2, <2>3 DEF ExtractError
<1>6. CASE ExtractFatal
  BY <1>6 DEF ExtractFatal, ReadingEntry, Available, Entry, Fatal
<1>7. CASE TornEntry
  BY <1>7 DEF TornEntry, Entry, Torn, AtEof, Exited, Fatal
<1>8. CASE BadHeader
  BY <1>8 DEF BadHeader, Available, Fatal
<1>9. CASE HeaderSkipped
  BY <1>9 DEF HeaderSkipped, ReadingEntry, Available, AlteredHere, Entry
<1>10. CASE ShortRead
  BY <1>10 DEF ShortRead
<1>11. CASE EndMark
  BY <1>11 DEF EndMark, Available
<1>12. CASE Drain
  BY <1>12 DEF Drain, Available, AtEof, Exited
<1>13. CASE WaitChild
  BY <1>13 DEF WaitChild, Exited, UReturn
<1>14. CASE Decompress
  BY <1>14 DEF Decompress, ChildSame
<1>15. CASE DecompressEnds
  BY <1>15 DEF DecompressEnds, ChildSame
<1>16. CASE DecompressFails
  BY <1>16 DEF DecompressFails, ChildSame
<1>17. CASE OutOfMemory
  BY <1>17 DEF OutOfMemory, ChildSame
<1>18. CASE ChildFatal
  BY <1>18 DEF ChildFatal
<1>19. CASE UNCHANGED unpackVars
  BY <1>19
<1>20. QED
  BY <1>1, <1>2, <1>3, <1>4, <1>5, <1>6, <1>7, <1>8, <1>9, <1>10, <1>11,
     <1>12, <1>13, <1>14, <1>15, <1>16, <1>17, <1>18, <1>19
     DEF UnpackStep, Tar, Decompressor

(* tar comes to the end of the archive by its end mark, or prints "short   *)
(* read".                                                                  *)
LEMMA ReadNext == UnpackInv /\ UnpackStep => ReadInv'
<1> SUFFICES ASSUME UnpackInv, UnpackStep PROVE ReadInv'
  OBVIOUS
<1> USE UnpackAssumption, ArchivesAssumption
<1> USE DEF UnpackInv, UnpackTypeOK, ReadInv, Total, input, unpackVars,
            UGoto, UReturn
<1>1. CASE RmRootfs
  BY <1>1 DEF RmRootfs
<1>2. CASE OpenArchive
  BY <1>2 DEF OpenArchive
<1>3. CASE OpenFails
  BY <1>3 DEF OpenFails, Fatal
<1>4. CASE ExtractEntry
  BY <1>4 DEF ExtractEntry, ReadingEntry, Available, Entry, AlteredHere
<1>5. CASE ExtractError
  BY <1>5 DEF ExtractError, ReadingEntry, Available, Entry
<1>6. CASE ExtractFatal
  BY <1>6 DEF ExtractFatal, ReadingEntry, Available, Entry, Fatal
<1>7. CASE TornEntry
  BY <1>7 DEF TornEntry, Entry, Torn, AtEof, Exited, Fatal
<1>8. CASE BadHeader
  BY <1>8 DEF BadHeader, Available, Fatal
<1>9. CASE HeaderSkipped
  BY <1>9 DEF HeaderSkipped, ReadingEntry, Available, AlteredHere, Entry
<1>10. CASE ShortRead
  BY <1>10 DEF ShortRead
<1>11. CASE EndMark
  BY <1>11 DEF EndMark, Available
<1>12. CASE Drain
  BY <1>12 DEF Drain, Available, AtEof, Exited
<1>13. CASE WaitChild
  BY <1>13 DEF WaitChild, Exited, UReturn
<1>14. CASE Decompress
  BY <1>14 DEF Decompress, ChildSame
<1>15. CASE DecompressEnds
  BY <1>15 DEF DecompressEnds, ChildSame
<1>16. CASE DecompressFails
  BY <1>16 DEF DecompressFails, ChildSame
<1>17. CASE OutOfMemory
  BY <1>17 DEF OutOfMemory, ChildSame
<1>18. CASE ChildFatal
  BY <1>18 DEF ChildFatal
<1>19. CASE UNCHANGED unpackVars
  BY <1>19
<1>20. QED
  BY <1>1, <1>2, <1>3, <1>4, <1>5, <1>6, <1>7, <1>8, <1>9, <1>10, <1>11,
     <1>12, <1>13, <1>14, <1>15, <1>16, <1>17, <1>18, <1>19
     DEF UnpackStep, Tar, Decompressor

(* Reading on behind the last entry changes nothing of what is unpacked.   *)
LEMMA SameContent ==
  ASSUME UNCHANGED <<archive, damage, tree>>, Content, UnpackTypeOK,
         \/ consumed' = consumed
         \/ consumed' \in Nat /\ Len(archive) <= consumed /\ consumed <= consumed'
  PROVE  Content'
<1>1. Len(archive) \in Nat /\ consumed \in Nat
  BY ArchivesAssumption DEF UnpackTypeOK
<1>2. ASSUME NEW n \in Names PROVE Unpacked(n)' <=> Unpacked(n)
  BY <1>1 DEF Unpacked
<1>3. ASSUME NEW n \in Names PROVE AlteredName(n)' <=> AlteredName(n)
  BY DEF AlteredName, Altered
<1> QED
  BY <1>2, <1>3 DEF Content

(* An entry that is unpacked new, or altered in the archive, keeps the     *)
(* tree what the archive says up to it.                                    *)
LEMMA NextContent ==
  ASSUME UNCHANGED <<archive, damage>>, Content, UnpackTypeOK,
         ReadingEntry, consumed' = consumed + 1,
         tree' \in [Names -> {"old", "absent", "new", "merged", "part", "altered"}],
         \A n \in Names : n # Entry.name => tree'[n] = tree[n],
         AlteredName(Entry.name) \/ tree'[Entry.name] = "new"
  PROVE  Content'
<1>1. /\ Len(archive) \in Nat /\ consumed \in Nat /\ consumed + 1 \in 1 .. Len(archive)
      /\ Entry.name \in Names
  BY ArchiveFacts
<1>2. ASSUME NEW n \in Names PROVE Unpacked(n)' <=> Unpacked(n) \/ n = Entry.name
  BY <1>1 DEF Unpacked, Entry
<1>3. ASSUME NEW n \in Names PROVE AlteredName(n)' <=> AlteredName(n)
  BY DEF AlteredName, Altered
<1> QED
  BY <1>1, <1>2, <1>3 DEF Content

(* The tree is what the archive says up to the entry tar has come to: a    *)
(* directory is merged into an old one only if rm left it, which printed.  *)
LEMMA TreeNext == UnpackInv /\ UnpackStep => TreeInv'
<1> SUFFICES ASSUME UnpackInv, UnpackStep PROVE TreeInv'
  OBVIOUS
<1> USE DEF UnpackInv, TreeInv, input, unpackVars, UGoto, UReturn
<1>a. /\ consumed \in Nat /\ Len(archive) \in Nat
      /\ upc \in {"drain", "wait"} /\ ~printed => Len(archive) <= consumed
      /\ upc = "end" <=> uresult # "running"
  BY ArchivesAssumption DEF UnpackTypeOK, ReadInv
<1>1. CASE RmRootfs
  <2>1. CASE ~printed'
    <3>1. \A n \in Names : tree'[n] = "absent"
      BY <1>1, <2>1 DEF RmRootfs
    <3>2. \A n \in Names : ~Unpacked(n)'
      BY <1>1 DEF RmRootfs, ReadInv, Unpacked
    <3> QED
      BY <3>1, <3>2 DEF Content
  <2>2. CASE printed'
    BY <2>2
  <2> QED
    BY <2>1, <2>2
<1>2. CASE OpenArchive
  <2>1. UNCHANGED <<archive, damage, tree, consumed>>
    BY <1>2 DEF OpenArchive
  <2>2. ASSUME Content PROVE Content'
    BY <2>1, <2>2 DEF Content, Unpacked, AlteredName, Altered
  <2> QED
    BY <1>2, <2>2, <1>a DEF OpenArchive
<1>3. CASE OpenFails
  BY <1>3, SameContent, <1>a DEF OpenFails, Fatal
<1>4. CASE ExtractEntry
  <2> SUFFICES ASSUME ~printed' PROVE Content'
    OBVIOUS
  <2>1. Content /\ ReadingEntry /\ UNCHANGED <<archive, damage>> /\ consumed' = consumed + 1
    BY <1>4 DEF ExtractEntry, ReadingEntry
  <2>2. /\ archive \in Seq([name : Names, kind : {"file", "dir", "link"}])
        /\ \A i, j \in 1 .. Len(archive) :
             i < j /\ archive[j].kind = "dir" => archive[i].name # archive[j].name
        /\ consumed \in Nat /\ Len(archive) \in Nat /\ consumed + 1 \in 1 .. Len(archive)
    BY <2>1, ArchiveFacts
  <2>3. Entry.name \in Names
    BY <2>1, ArchiveFacts
  <2>4. PICK c \in {"new", "merged", "altered"} :
          /\ c = "merged" <=> Entry.kind = "dir" /\ tree[Entry.name] # "absent"
          /\ c = "altered" <=> AlteredHere
          /\ tree' = [tree EXCEPT ![Entry.name] = c]
    BY <1>4 DEF ExtractEntry
  <2>5. ASSUME c = "altered" PROVE AlteredName(Entry.name)
    BY <2>2, <2>4, <2>5 DEF AlteredHere, AlteredName, Entry
  <2>6. ASSUME c = "merged" PROVE AlteredName(Entry.name)
    <3>1. ~Unpacked(Entry.name)
      BY <2>2, <2>4, <2>6 DEF Unpacked, Entry
    <3> QED
      BY <2>1, <2>3, <2>4, <2>6, <3>1 DEF Content
  <2>7. AlteredName(Entry.name) \/ tree'[Entry.name] = "new"
    BY <2>3, <2>4, <2>5, <2>6 DEF UnpackTypeOK
  <2>8. tree' \in [Names -> {"old", "absent", "new", "merged", "part", "altered"}]
    BY <2>3, <2>4 DEF UnpackTypeOK
  <2>9. \A n \in Names : n # Entry.name => tree'[n] = tree[n]
    BY <2>3, <2>4 DEF UnpackTypeOK
  <2> QED
    BY <2>1, <2>7, <2>8, <2>9, NextContent
<1>5. CASE ExtractError
  BY <1>5, SameContent, <1>a DEF ExtractError, ReadingEntry, Available, Entry
<1>6. CASE ExtractFatal
  BY <1>6, SameContent, <1>a DEF ExtractFatal, ReadingEntry, Available, Entry, Fatal
<1>7. CASE TornEntry
  BY <1>7, SameContent, <1>a DEF TornEntry, Entry, Torn, AtEof, Exited, Fatal
<1>8. CASE BadHeader
  BY <1>8, SameContent, <1>a DEF BadHeader, Available, Fatal
<1>9. CASE HeaderSkipped
  <2> SUFFICES ASSUME ~printed' PROVE Content'
    OBVIOUS
  <2>1. /\ Content /\ ReadingEntry /\ consumed' = consumed + 1
        /\ UNCHANGED <<archive, damage, tree>>
    BY <1>9 DEF HeaderSkipped, ReadingEntry
  <2>2. consumed \in Nat /\ Len(archive) \in Nat /\ consumed + 1 <= Len(archive)
    BY <2>1, ArchivesAssumption DEF UnpackTypeOK, ReadingEntry
  <2>3. AlteredName(Entry.name)
    BY <1>9, <2>2 DEF HeaderSkipped, AlteredHere, AlteredName, Entry
  <2> QED
    BY <2>1, <2>3, NextContent DEF UnpackTypeOK
<1>10. CASE ShortRead
  BY <1>10, SameContent, <1>a DEF ShortRead
<1>11. CASE EndMark
  BY <1>11, SameContent, <1>a DEF EndMark, Available
<1>12. CASE Drain
  BY <1>12, SameContent, <1>a DEF Drain, Available, AtEof, Exited
<1>13. CASE WaitChild
  BY <1>13, SameContent, <1>a DEF WaitChild, Exited, UReturn
<1>14. CASE Decompress
  <2>1. UNCHANGED <<archive, damage, tree, consumed>>
    BY <1>14 DEF Decompress, ChildSame
  <2>2. ASSUME Content PROVE Content'
    BY <2>1, <2>2 DEF Content, Unpacked, AlteredName, Altered
  <2> QED
    BY <1>14, <2>2, <1>a DEF Decompress, ChildSame
<1>15. CASE DecompressEnds
  <2>1. UNCHANGED <<archive, damage, tree, consumed>>
    BY <1>15 DEF DecompressEnds, ChildSame
  <2>2. ASSUME Content PROVE Content'
    BY <2>1, <2>2 DEF Content, Unpacked, AlteredName, Altered
  <2> QED
    BY <1>15, <2>2, <1>a DEF DecompressEnds, ChildSame
<1>16. CASE DecompressFails
  <2>1. UNCHANGED <<archive, damage, tree, consumed>>
    BY <1>16 DEF DecompressFails, ChildSame
  <2>2. ASSUME Content PROVE Content'
    BY <2>1, <2>2 DEF Content, Unpacked, AlteredName, Altered
  <2> QED
    BY <1>16, <2>2, <1>a DEF DecompressFails, ChildSame
<1>17. CASE OutOfMemory
  <2>1. UNCHANGED <<archive, damage, tree, consumed>>
    BY <1>17 DEF OutOfMemory, ChildSame
  <2>2. ASSUME Content PROVE Content'
    BY <2>1, <2>2 DEF Content, Unpacked, AlteredName, Altered
  <2> QED
    BY <1>17, <2>2, <1>a DEF OutOfMemory, ChildSame
<1>18. CASE ChildFatal
  <2>1. UNCHANGED <<archive, damage, tree, consumed>>
    BY <1>18 DEF ChildFatal
  <2>2. ASSUME Content PROVE Content'
    BY <2>1, <2>2 DEF Content, Unpacked, AlteredName, Altered
  <2> QED
    BY <1>18, <2>2, <1>a DEF ChildFatal
<1>19. CASE UNCHANGED unpackVars
  <2>1. UNCHANGED <<archive, damage, tree, consumed>>
    BY <1>19 DEF TreeInv
  <2>2. ASSUME Content PROVE Content'
    BY <2>1, <2>2 DEF Content, Unpacked, AlteredName, Altered
  <2> QED
    BY <1>19, <2>2, <1>a DEF TreeInv
<1>20. QED
  BY <1>1, <1>2, <1>3, <1>4, <1>5, <1>6, <1>7, <1>8, <1>9, <1>10, <1>11,
     <1>12, <1>13, <1>14, <1>15, <1>16, <1>17, <1>18, <1>19
     DEF UnpackStep, Tar, Decompressor

(* The decompressor exits with 0 only at the end of an undamaged stream,   *)
(* or of one whose alteration it cannot know.                              *)
LEMMA ChildNext == UnpackInv /\ UnpackStep => ChildInv'
<1> SUFFICES ASSUME UnpackInv, UnpackStep PROVE ChildInv'
  OBVIOUS
<1> USE UnpackAssumption, ArchivesAssumption
<1> USE DEF UnpackInv, UnpackTypeOK, ReadInv, ChildInv, Total, Damages, Cut,
            Undamaged, Altered, input, unpackVars, UGoto, UReturn
<1>1. CASE RmRootfs
  BY <1>1 DEF RmRootfs
<1>2. CASE OpenArchive
  BY <1>2 DEF OpenArchive
<1>3. CASE OpenFails
  BY <1>3 DEF OpenFails, Fatal
<1>4. CASE ExtractEntry
  BY <1>4 DEF ExtractEntry, ReadingEntry, Available, Entry, AlteredHere
<1>5. CASE ExtractError
  BY <1>5 DEF ExtractError, ReadingEntry, Available, Entry
<1>6. CASE ExtractFatal
  BY <1>6 DEF ExtractFatal, ReadingEntry, Available, Entry, Fatal
<1>7. CASE TornEntry
  BY <1>7 DEF TornEntry, Entry, Torn, AtEof, Exited, Fatal
<1>8. CASE BadHeader
  BY <1>8 DEF BadHeader, Available, Fatal
<1>9. CASE HeaderSkipped
  BY <1>9 DEF HeaderSkipped, ReadingEntry, Available, AlteredHere, Entry
<1>10. CASE ShortRead
  BY <1>10 DEF ShortRead
<1>11. CASE EndMark
  BY <1>11 DEF EndMark, Available
<1>12. CASE Drain
  BY <1>12 DEF Drain, Available, AtEof, Exited
<1>13. CASE WaitChild
  BY <1>13 DEF WaitChild, Exited, UReturn
<1>14. CASE Decompress
  BY <1>14 DEF Decompress, ChildSame
<1>15. CASE DecompressEnds
  BY <1>15 DEF DecompressEnds, ChildSame
<1>16. CASE DecompressFails
  BY <1>16 DEF DecompressFails, ChildSame
<1>17. CASE OutOfMemory
  BY <1>17 DEF OutOfMemory, ChildSame
<1>18. CASE ChildFatal
  BY <1>18 DEF ChildFatal
<1>19. CASE UNCHANGED unpackVars
  BY <1>19
<1>20. QED
  BY <1>1, <1>2, <1>3, <1>4, <1>5, <1>6, <1>7, <1>8, <1>9, <1>10, <1>11,
     <1>12, <1>13, <1>14, <1>15, <1>16, <1>17, <1>18, <1>19
     DEF UnpackStep, Tar, Decompressor

(* LoopInv is kept by every step of every run and of other processes.      *)
LEMMA LoopNext == LoopInv /\ LoopStep => LoopInv'
BY LoopTypes, ChainNext, RunNext, ExtractNext, CopyNext DEF LoopInv

(* UnpackInv is kept by tar and its decompressor.                          *)
LEMMA UnpackNext == UnpackInv /\ UnpackStep => UnpackInv'
BY UnpackTypes, ReadNext, TreeNext, ChildNext DEF UnpackInv

(* The device holds what was read but for what is in the buffer.           *)
LEMMA KernelNext ==
  KernelInv /\ (KernelStep \/ StartKernel \/ UNCHANGED kernelVars) => KernelInv'
<1> SUFFICES ASSUME KernelInv, KernelStep \/ StartKernel \/ UNCHANGED kernelVars
             PROVE  KernelInv'
  OBVIOUS
<1> USE Ext4KernelAssumption DEF KernelInv, kernelVars
<1>1. CASE StartKernel
  BY <1>1 DEF StartKernel
<1>2. CASE KernelOpenFails
  BY <1>2 DEF KernelOpenFails
<1>3. CASE CopyPiece
  BY <1>3 DEF CopyPiece
<1>4. CASE FlushFails
  <2>1. PICK d \in kdev .. kdev + kbuf - 1 : kdev' = d
    BY <1>4 DEF FlushFails, LosesBuffer
  <2> QED
    BY <1>4, <2>1 DEF FlushFails, LosesBuffer
<1>5. CASE KernelReadFails
  <2>1. PICK d \in kdev .. kdev + kbuf : kdev' = d
    BY <1>5 DEF KernelReadFails
  <2> QED
    BY <1>5, <2>1 DEF KernelReadFails
<1>6. CASE KernelEof
  BY <1>6 DEF KernelEof
<1>7. CASE CloseKernel
  <2>1. PICK d \in kdev .. kdev + kbuf : kdev' = d
    BY <1>7 DEF CloseKernel
  <2> QED
    BY <1>7, <2>1 DEF CloseKernel
<1>8. CASE UNCHANGED kernelVars
  BY <1>8
<1>9. QED
  BY <1>1, <1>2, <1>3, <1>4, <1>5, <1>6, <1>7, <1>8 DEF KernelStep

(* The boot image is in part only while it is written.                     *)
LEMMA BootNext == BootInv /\ [BlockNext]_blockVars => BootInv'
<1> SUFFICES ASSUME BootInv, [BlockNext]_blockVars PROVE BootInv'
  OBVIOUS
<1> USE DEF BootInv, bootVars, BGoto, BReturn, Parts
<1>1. CASE BootImageStep
  <2> USE <1>1 DEF BootImageStep
  <2>1. CASE LoadFiles
    BY <2>1 DEF LoadFiles
  <2>2. CASE LoadFails
    BY <2>2 DEF LoadFails
  <2>3. CASE RemoveFails
    BY <2>3 DEF RemoveFails
  <2>4. CASE RemoveOld
    BY <2>4 DEF RemoveOld
  <2>5. CASE CreateNew
    BY <2>5 DEF CreateNew
  <2>6. CASE WritePart
    BY <2>6 DEF WritePart
  <2>7. CASE WriteFailsUnlinks
    BY <2>7 DEF WriteFailsUnlinks
  <2>8. CASE WriteDone
    BY <2>8 DEF WriteDone
  <2> QED
    BY <2>1, <2>2, <2>3, <2>4, <2>5, <2>6, <2>7, <2>8 DEF BootStep
<1>2. CASE RootfsFlashed
  BY <1>2 DEF RootfsFlashed, BootImageNext, StartBootImage, End
<1>3. CASE KernelFlashed
  BY <1>3 DEF KernelFlashed, BootImageNext, StartBootImage, End
<1>4. CASE BootImageDone
  BY <1>4 DEF BootImageDone, End
<1>5. CASE UNCHANGED bootVars /\ (stage = "boot" => UNCHANGED stage)
  BY <1>5
<1>6. QED
  BY <1>1, <1>2, <1>3, <1>4, <1>5
     DEF BlockNext, Main, RootfsStep, TarStep, KernelWrites, RootfsFailed,
         RootfsDied, KernelFailed, DecompressorStep, OtherProcessStep,
         FlashAgain, Abort, End, blockVars

(* The program starts in BlockInv.                                         *)
LEMMA InitInv == BlockInit => BlockInv
<1> SUFFICES ASSUME BlockInit PROVE BlockInv
  OBVIOUS
<1>1. LoopInv
  <2> USE UbiLoopAssumption DEF BlockInit, Init
  <2>1. loops \in [Loops -> {"free", "ours", "foreign"}]
    OBVIOUS
  <2>2. slot \in [Entries -> {"old", "absent", "new", "merged", "part"}]
    OBVIOUS
  <2>3. run \in 1 .. MaxRuns
    OBVIOUS
  <2>a. /\ partition \in 0 .. RootfsPartition /\ dev \in Loops \cup {NoLoop}
        /\ ubi \in Loops \cup {NoLoop} /\ b2m \subseteq Loops
    BY DEF RootfsPartition
  <2>b. mnt \in BOOLEAN /\ unreleased \in BOOLEAN /\ warned \in BOOLEAN /\ unread \in BOOLEAN
    OBVIOUS
  <2>4. TypeOK
    BY <2>1, <2>2, <2>3, <2>a, <2>b DEF TypeOK
  <2>5. ChainInv
    BY DEF ChainInv
  <2>6. RunInv
    BY DEF RunInv, NothingLeftBehind, Unbound, Extracting, Mounted
  <2>7. ExtractInv
    BY DEF ExtractInv, Extracting
  <2>8. CopyInv
    BY DEF CopyInv
  <2> QED
    BY <2>4, <2>5, <2>6, <2>7, <2>8 DEF LoopInv
<1>2. UnpackInv
  <2> USE UnpackAssumption, ArchivesAssumption DEF BlockInit, UnpackInit
  <2>1. archive \in Archives /\ Total(archive) \in Nat
    BY DEF Total
  <2>2. UnpackTypeOK
    BY <2>1 DEF UnpackTypeOK
  <2>3. ReadInv
    BY DEF ReadInv
  <2>4. TreeInv
    BY DEF TreeInv
  <2>5. ChildInv
    BY <2>1 DEF ChildInv, Cut, Damages
  <2> QED
    BY <2>2, <2>3, <2>4, <2>5 DEF UnpackInv
<1>3. KernelInv
  BY Ext4KernelAssumption DEF BlockInit, KernelInit, KernelInv
<1>4. BootInv
  BY DEF BlockInit, BootInit, BootInv, Parts
<1> QED
  BY <1>1, <1>2, <1>3, <1>4 DEF BlockInv

(* Every step of main() is one of its components, or leaves it alone.      *)
LEMMA BlockStep == BlockInv /\ [BlockNext]_blockVars => BlockInv'
<1> SUFFICES ASSUME BlockInv, [BlockNext]_blockVars PROVE BlockInv'
  OBVIOUS
<1>1. LoopInv'
  <2>1. LoopStep
    BY DEF LoopStep, BlockNext, Main, RootfsStep, TarStep, KernelWrites,
           BootImageStep, RootfsFlashed, RootfsFailed, RootfsDied, KernelFlashed,
           KernelFailed, BootImageDone, DecompressorStep, OtherProcessStep,
           FlashAgain, blockVars
  <2> QED
    BY <2>1, LoopNext DEF BlockInv
<1>2. UnpackInv'
  <2>1. UnpackStep
    BY DEF UnpackStep, BlockNext, Main, RootfsStep, TarStep, KernelWrites,
           BootImageStep, RootfsFlashed, RootfsFailed, RootfsDied, KernelFlashed,
           KernelFailed, BootImageDone, DecompressorStep, OtherProcessStep,
           FlashAgain, blockVars
  <2> QED
    BY <2>1, UnpackNext DEF BlockInv
<1>3. KernelInv'
  <2>1. CASE FlashAgain
    BY <2>1, Ext4KernelAssumption DEF FlashAgain, KernelInv
  <2>2. CASE ~FlashAgain
    <3>1. KernelStep \/ StartKernel \/ UNCHANGED kernelVars
      BY <2>2 DEF BlockNext, Main, RootfsStep, TarStep, KernelWrites, BootImageStep,
         RootfsFlashed, RootfsFailed, RootfsDied, KernelFlashed, KernelFailed,
         BootImageDone, DecompressorStep, OtherProcessStep, blockVars
    <3> QED
      BY <3>1, KernelNext DEF BlockInv
  <2> QED
    BY <2>1, <2>2
<1>4. BootInv'
  BY BootNext DEF BlockInv
<1> QED
  BY <1>1, <1>2, <1>3, <1>4 DEF BlockInv

(* BlockInv is an inductive invariant of flashing to block devices.        *)
THEOREM Inductive == BlockSpec => []BlockInv
BY InitInv, BlockStep, PTL DEF BlockSpec

(* BlockTypeOK: units read, produced and buffered stay in the bounds of the*)
(* archive, the pipe and the stream's buffer, in every interleaving.       *)
THEOREM TypeCorrect == BlockSpec => []BlockTypeOK
<1>1. BlockInv => BlockTypeOK
  BY DEF BlockInv, LoopInv, UnpackInv, UnpackTypeOK, KernelInv, BootInv, BlockTypeOK
<1> QED
  BY <1>1, Inductive, PTL

(* Whichever step of the chain failed, in whichever run, it is taken down, *)
(* unless a teardown call itself failed or the program crashed.            *)
THEOREM ChainReleased == BlockSpec => []NothingLeftBehind
<1>1. BlockInv => NothingLeftBehind
  BY DEF BlockInv, LoopInv, RunInv
<1> QED
  BY <1>1, Inductive, PTL

(* Where rm and cp had nothing to complain about, the directory is the UBI *)
(* image, less the entries an error of readdir() kept from being copied.   *)
THEOREM QuietCopy == BlockSpec => []QuietSuccessIsImage
<1>1. BlockInv => QuietSuccessIsImage
  BY DEF BlockInv, LoopInv, CopyInv, QuietSuccessIsImage
<1> QED
  BY <1>1, Inductive, PTL

(* A compressed archive that is cut or altered under a known checksum is   *)
(* never reported as unpacked.                                             *)
THEOREM DamageReported == BlockSpec => []DamagedNeverUnpacked
<1>1. BlockInv => DamagedNeverUnpacked
  <2> SUFFICES ASSUME BlockInv, compressed, ~Undamaged, ~Unchecked, uresult = "ok"
               PROVE  FALSE
    BY DEF DamagedNeverUnpacked
  <2>1. /\ produced = Total(archive) /\ (Altered => ~verified) /\ produced + 1 <= Cut
        /\ UnpackTypeOK
    BY DEF BlockInv, UnpackInv, ChildInv
  <2>2. ~Altered
    BY <2>1 DEF Unchecked
  <2>3. damage.at <= Total(archive) /\ damage.at \in Nat /\ Total(archive) \in Nat
    BY <2>1, ArchiveFacts DEF Undamaged, UnpackTypeOK, Damages
  <2> QED
    BY <2>1, <2>2, <2>3 DEF Cut
<1> QED
  BY <1>1, Inductive, PTL

(* Where rm and tar printed nothing, the directory is the archive, except  *)
(* for one entry altered in an archive that nothing verifies.              *)
THEOREM QuietUnpack == BlockSpec => []QuietUnpackIsImage
<1>1. BlockInv => QuietUnpackIsImage
  <2> SUFFICES ASSUME BlockInv, uresult = "ok", ~printed, NEW n \in Names
               PROVE  \/ tree[n] = (IF InArchive(n) THEN "new" ELSE "absent")
                      \/ AlteredUnchecked(n)
    BY DEF QuietUnpackIsImage
  <2>1. UnpackTypeOK /\ Content /\ consumed > Len(archive)
    BY DEF BlockInv, UnpackInv, ReadInv, TreeInv
  <2>2. Unpacked(n) <=> InArchive(n)
    BY <2>1, ArchiveFacts DEF Unpacked, InArchive
  <2>3. ASSUME AlteredName(n) PROVE AlteredUnchecked(n)
    <3>1. compressed => (Altered => ~verified)
      BY DEF BlockInv, UnpackInv, ChildInv
    <3> QED
      BY <2>3, <3>1 DEF AlteredName, AlteredUnchecked, Unchecked
  <2> QED
    BY <2>1, <2>2, <2>3 DEF Content
<1> QED
  BY <1>1, Inductive, PTL

(* A kernel reported as written lacks at most the stream's last buffer, and*)
(* half a boot image is not left behind.                                   *)
THEOREM WrittenOrReported == BlockSpec => []NothingHalfWritten
<1>1. BlockInv => NothingHalfWritten
  BY DEF BlockInv, KernelInv, BootInv, NothingHalfWritten
<1> QED
  BY <1>1, Inductive, PTL

(* The old rootfs is touched only with this run's image mounted, and out of*)
(* an NFI file only when the rootfs partition was extracted, whole but for *)
(* at most what the stream's last buffer held.                             *)
THEOREM TouchedUnderThisImage == BlockSpec => OnlyFromThisImage
<1> DEFINE Under == /\ mnt /\ ubi = dev /\ dev \in b2m /\ loops[dev] = "ours"
                    /\ nfi # PlainImage => partition = RootfsPartition /\ Flushed(copied)
<1>1. BlockInv /\ [BlockNext]_blockVars => [pc # "end" /\ slot' # slot => Under]_vars
  <2> SUFFICES ASSUME BlockInv, [BlockNext]_blockVars, pc # "end", slot' # slot
               PROVE  Under
    OBVIOUS
  <2>1. pc \in {"delete", "copy"}
    BY DEF BlockNext, Main, RootfsStep, TarStep, KernelWrites, BootImageStep,
           RootfsFlashed, RootfsFailed, RootfsDied, KernelFlashed,
           KernelFailed, BootImageDone, DecompressorStep, OtherProcessStep,
           FlashAgain, blockVars, vars, chain, nfiVars, job, Step, SetUp, Replace,
           TearDown, Prepare, ReadNfiHeader, SkipPartition, FindRootfs, CopyPage,
           ExtractFails, Extracted, QueryLoop, SetLoop, SetLoopFails,
           SetupBlock2mtd, SetupBlock2mtdFails, DetectVid, DetectVidFails,
           DetectMtd, DetectMtdFails, Attach, AttachFails, Mount, MountFails,
           DeleteRootfs, CopyEntry, CopyFails, CopyDone, CopyTraps, Umount, Detach,
           RemoveBlock2mtd, ReleaseLoop, RunAgain, OtherProcess, FailFrom, ExtractSame
  <2> QED
    BY <2>1 DEF BlockInv, LoopInv, RunInv, ExtractInv, Mounted, Unbound, Extracting
<1> QED
  BY <1>1, Inductive, PTL DEF BlockSpec, OnlyFromThisImage

(* A loop device of another process is unbound by nobody else.             *)
THEOREM ForeignKept == BlockSpec => ForeignLoopsKept
<1> DEFINE Kept == \A l \in Loops : loops[l] = "foreign" /\ loops'[l] # "foreign" =>
                     OtherProcess
<1>1. BlockInv /\ [BlockNext]_blockVars => [Kept]_vars
  <2> SUFFICES ASSUME BlockInv, [BlockNext]_blockVars, ~OtherProcess,
                      NEW l \in Loops, loops[l] = "foreign"
               PROVE  loops'[l] = "foreign"
    OBVIOUS
  <2>1. CASE SetLoop
    BY <2>1 DEF SetLoop, BlockInv, LoopInv, TypeOK
  <2>2. CASE ReleaseLoop
    BY <2>2 DEF ReleaseLoop, chain, BlockInv, LoopInv, TypeOK, RunInv, Unbound,
                Extracting
  <2>3. CASE UNCHANGED loops
    BY <2>3
  <2> QED
    BY <2>1, <2>2, <2>3
       DEF BlockNext, Main, RootfsStep, TarStep, KernelWrites, BootImageStep,
           RootfsFlashed, RootfsFailed, RootfsDied, KernelFlashed,
           KernelFailed, BootImageDone, DecompressorStep, OtherProcessStep,
           FlashAgain, blockVars, vars, chain, nfiVars, job, Step, SetUp, Replace,
           TearDown, Prepare, ReadNfiHeader, SkipPartition, FindRootfs, CopyPage,
           ExtractFails, Extracted, QueryLoop, SetLoopFails,
           SetupBlock2mtd, SetupBlock2mtdFails, DetectVid, DetectVidFails,
           DetectMtd, DetectMtdFails, Attach, AttachFails, Mount, MountFails,
           DeleteRootfs, CopyEntry, CopyFails, CopyDone, CopyTraps, Umount, Detach,
           RemoveBlock2mtd, RunAgain, FailFrom, ExtractSame, Released, Refused
<1> QED
  BY <1>1, Inductive, PTL DEF BlockSpec, ForeignLoopsKept
==============================================================================
