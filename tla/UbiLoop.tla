------------------------------- MODULE UbiLoop -------------------------------
(***************************************************************************)
(* flash_ubi_loop_subdir(): copies a UBI image into a directory of a block *)
(* device.  The image is reached through a chain of kernel devices,        *)
(*                                                                         *)
(*   file -> /dev/loopN -> "block2mtd: /dev/loopN" -> ubi10 -> /ubi_mount, *)
(*                                                                         *)
(* set up by mount_ubi_image() and torn down by umount_ubi_image() or by   *)
(* the error path of the step that failed.  Only then is the old rootfs    *)
(* deleted and the image copied over it, entry by entry.  The kernel's     *)
(* devices outlive the process, so a second run meets what the first one   *)
(* left behind, and other processes use loop devices at the same time.     *)
(***************************************************************************)
EXTENDS Integers, Sequences, FiniteSets

CONSTANTS
  Loops,       (* the loop devices                                         *)
  Entries,     (* top-level names of the target directory                  *)
  ImageEntries,(* the ones the image holds                                 *)
  Images,      (* images, as sequences of the bytes of their first block   *)
  NfiFiles,    (* NFI files that may hold the image                        *)
  BufPages,    (* pages the buffer of an output stream holds at most       *)
  MaxRuns      (* bound: calls of ofgwrite without a reboot in between     *)

ASSUME UbiLoopAssumption == ImageEntries \subseteq Entries /\ MaxRuns \in Nat \ {0}
ASSUME NfiFilesAssumption ==
  /\ \A f \in NfiFiles : f.sizes \in Seq(Nat) /\ f.cut \in Nat
  /\ BufPages \in Nat

VARIABLES
  loops,    (* what each loop device is bound to: "free", "ours", "foreign"*)
  b2m,      (* loop devices block2mtd made an MTD device of                *)
  ubi,      (* the loop device under ubi10, or NoLoop                      *)
  mnt,      (* ubi10_0 is mounted on /ubi_mount                            *)
  slot,     (* content of the target directory                             *)
  pc, image,
  nfi,      (* the NFI file that holds the image, or PlainImage            *)
  partition, fpos, copied, (* of extract_rootfs_from_nfi(), see below      *)
  dev,      (* the loop device losetup -f found, then ubi_loop_device      *)
  vid_offset,
  ret,      (* what flash_ubi_loop_subdir() will return                    *)
  result,   (* "running", what it returned, "died" in xfunc_die(), or      *)
            (* "crashed"                                                   *)
  unreleased, (* a release of this run failed                              *)
  warned,   (* rm printed that it could not remove something               *)
  unread,   (* readdir() failed before it gave the last entry              *)
  run

chain == <<loops, b2m, ubi, mnt>>
nfiVars == <<nfi, partition, fpos, copied>>
job   == <<image, nfiVars, dev, vid_offset, ret, warned, unread, run>>
vars  == <<chain, slot, pc, job, result, unreleased>>

NoLoop   == "none"
NotFound == -1

ASSUME NoLoopAssumption == NoLoop \notin Loops

(***************************************************************************)
(* An NFI file: a header, the size of the whole, then partitions, each its *)
(* size and its pages with their error correction data.  All of these are  *)
(* units of the file, of which the first cut are there.                    *)
(***************************************************************************)
PlainImage == [sizes |-> <<>>, cut |-> 0]
RootfsPartition == 3

-----------------------------------------------------------------------------
(***************************************************************************)
(* detect_vid_offset(): one pass of the loop per fgetc(), but a 'U' takes  *)
(* three more bytes out of the stream; the answer is the number of passes  *)
(* plus three, for the "UBI#" of the EC header that precedes.  Passes      *)
(* counts from byte p on.                                                  *)
(***************************************************************************)
Marker == <<"U", "B", "I", "!">>

MarkerAt(img, p) == p + 3 <= Len(img) /\ SubSeq(img, p, p + 3) = Marker

DetectVidOffset(img) ==
  LET Passes[p \in 1 .. Len(img) + 4] ==
        IF p > Len(img) THEN NotFound
        ELSE IF MarkerAt(img, p) THEN 3
        ELSE LET rest == Passes[IF img[p] = "U" THEN p + 4 ELSE p + 1]
             IN  IF rest = NotFound THEN NotFound ELSE rest + 1
  IN  Passes[1]

(* Where the VID header is: the offset ubiattach needs.                    *)
VidOffset(img) ==
  LET at == {p \in 1 .. Len(img) : MarkerAt(img, p)}
  IN  IF at = {} THEN NotFound ELSE (CHOOSE p \in at : \A q \in at : p <= q) - 1

-----------------------------------------------------------------------------
Init ==
  /\ loops \in [Loops -> {"free", "foreign"}]
  /\ b2m = {} /\ ubi = NoLoop /\ mnt = FALSE
  /\ slot = [e \in Entries |-> "old"]
  /\ pc = "prepare" /\ image \in Images
  /\ nfi \in NfiFiles \cup {PlainImage}
  /\ partition = 0 /\ fpos = 0 /\ copied = 0
  /\ dev = NoLoop /\ vid_offset = 0 /\ ret = 0 /\ result = "running"
  /\ unreleased = FALSE /\ warned = FALSE /\ unread = FALSE /\ run = 1

Goto(l) == pc' = l /\ UNCHANGED result
Return(r) == pc' = "end" /\ result' = r

(* An error path: tear down from step l on and return 0.                   *)
FailFrom(l) ==
  /\ Goto(l) /\ ret' = 0
  /\ UNCHANGED <<chain, slot, image, nfiVars, dev, vid_offset, unreleased, warned, unread, run>>

(* xfunc_die() without a die_func: exit(), no reboot.                      *)
Die == Return("died")

-----------------------------------------------------------------------------
(* mount_ubi_image(): the erase and write sizes of mtd0.                   *)
Prepare ==
  /\ pc = "prepare"
  /\ \/ Goto(IF nfi = PlainImage THEN "query" ELSE "header")
     \/ Return("failed")
  /\ UNCHANGED <<chain, slot, job, unreleased>>

-----------------------------------------------------------------------------
(***************************************************************************)
(* extract_rootfs_from_nfi(): partition counts the partitions met, fpos is *)
(* the position in the file, copied the pages written.  That the size of   *)
(* the whole cannot be read is not noticed ("&&" for "||"), and skipping   *)
(* goes beyond the end of a file; the next fread() tells.                  *)
(***************************************************************************)
Readable == fpos < nfi.cut
Size == nfi.sizes[partition + 1]

ExtractSame ==
  UNCHANGED <<chain, slot, image, nfi, dev, vid_offset, ret, warned, unread, run, unreleased>>

ReadNfiHeader ==
  /\ pc = "header" /\ Readable
  /\ fpos' = 2
  /\ Goto("size")
  /\ ExtractSame /\ UNCHANGED <<partition, copied>>

SkipPartition ==
  /\ pc = "size" /\ Readable
  /\ partition < RootfsPartition /\ partition < Len(nfi.sizes)
  /\ fpos' = fpos + 1 + Size /\ partition' = partition + 1
  /\ Goto("size")
  /\ ExtractSame /\ UNCHANGED copied

FindRootfs ==
  /\ pc = "size" /\ Readable
  /\ partition = RootfsPartition /\ partition < Len(nfi.sizes)
  /\ fpos' = fpos + 1
  /\ Goto("page")
  /\ ExtractSame /\ UNCHANGED <<partition, copied>>

CopyPage ==
  /\ pc = "page" /\ copied < Size /\ Readable
  /\ fpos' = fpos + 1 /\ copied' = copied + 1
  /\ Goto("page")
  /\ ExtractSame /\ UNCHANGED partition

(* A read or write error, no NFI file, or no fourth partition in it.       *)
ExtractFails ==
  /\ pc \in {"header", "size", "page"}
  /\ pc = "page" => copied < Size
  /\ Return("failed")
  /\ ExtractSame /\ UNCHANGED <<partition, fpos, copied>>

(* The stream flushes its last buffer in fclose(), whose result is ignored.*)
Flushed(c) == c <= Size /\ Size <= c + BufPages

Extracted ==
  /\ pc = "page" /\ copied = Size
  /\ copied' \in {c \in 0 .. Size : Flushed(c)}
  /\ Goto("query")
  /\ ExtractSame /\ UNCHANGED <<partition, fpos>>

-----------------------------------------------------------------------------

(* losetup -r -f: the first device query_loop() finds free, ...            *)
QueryLoop ==
  /\ pc = "query"
  /\ \/ /\ \E l \in Loops : loops[l] = "free" /\ dev' = l
        /\ Goto("set")
     \/ /\ \A l \in Loops : loops[l] # "free"
        /\ Die /\ UNCHANGED dev
  /\ UNCHANGED <<chain, slot, image, nfiVars, vid_offset, ret, warned, unread, run, unreleased>>

(* ... which set_loop() asks again before it binds it: it may be taken.    *)
SetLoop ==
  /\ pc = "set" /\ loops[dev] = "free"
  /\ Goto("block2mtd") /\ loops' = [loops EXCEPT ![dev] = "ours"]
  /\ UNCHANGED <<b2m, ubi, mnt, slot, job, unreleased>>

(* Mutant: an error path releases the device that was not bound.           *)
SetLoopFailsReleasing == pc = "set" /\ FailFrom("release")

(* The device was taken, or LOOP_SET_FD or LOOP_SET_STATUS failed.         *)
SetLoopFails ==
  /\ pc = "set"
  /\ Die
  /\ UNCHANGED <<chain, slot, job, unreleased>>

(* The line is only flushed by fclose(): a refusal goes unnoticed.         *)
SetupBlock2mtd ==
  /\ pc = "block2mtd"
  /\ b2m' \in {b2m, b2m \cup {dev}}
  /\ Goto("detect_vid")
  /\ UNCHANGED <<loops, ubi, mnt, slot, job, unreleased>>

SetupBlock2mtdFails == pc = "block2mtd" /\ FailFrom("release")

DetectVid ==
  /\ pc = "detect_vid" /\ DetectVidOffset(image) # NotFound
  /\ vid_offset' = DetectVidOffset(image)
  /\ Goto("detect_mtd")
  /\ UNCHANGED <<chain, slot, image, nfiVars, dev, ret, warned, unread, run, unreleased>>

(* "UBI!" is not found, or the loop device cannot be read.                 *)
DetectVidFails == pc = "detect_vid" /\ FailFrom("remove")

DetectMtd ==
  /\ pc = "detect_mtd" /\ dev \in b2m
  /\ Goto("attach")
  /\ UNCHANGED <<chain, slot, job, unreleased>>

(* Mutant: block2mtd is not told to remove the device.                     *)
DetectMtdFailsLeaking == pc = "detect_mtd" /\ FailFrom("release")

DetectMtdFails == pc = "detect_mtd" /\ FailFrom("remove")

(***************************************************************************)
(* ubi_attach_ofgwrite() asks for UBI device 10: it must be free, and the  *)
(* VID headers must be where the offset says.                              *)
(***************************************************************************)
Attach ==
  /\ pc = "attach"
  /\ ubi = NoLoop /\ vid_offset = VidOffset(image)
  /\ ubi' = dev
  /\ Goto("mount")
  /\ UNCHANGED <<loops, b2m, mnt, slot, job, unreleased>>

(* Mutant: a UBI device 10 that is there already will do.                  *)
AttachErrorIgnored ==
  /\ pc = "attach"
  /\ Goto("mount")
  /\ UNCHANGED <<chain, slot, job, unreleased>>

AttachFails == pc = "attach" /\ FailFrom("remove")

(* mount() of /dev/ubi10_0, whatever image that device belongs to.         *)
Mount ==
  /\ pc = "mount" /\ ubi # NoLoop
  /\ mnt' = TRUE
  /\ Goto("delete")
  /\ UNCHANGED <<loops, b2m, ubi, slot, job, unreleased>>

MountFails == pc = "mount" /\ FailFrom("detach")

-----------------------------------------------------------------------------
(* rm_rootfs(), whose result is ignored: rm prints what it cannot remove   *)
(* and goes on.  Then mkdir().                                             *)
DeleteRootfs ==
  /\ pc = "delete"
  /\ \E kept \in SUBSET {e \in Entries : slot[e] # "absent"} :
       /\ slot' = [e \in Entries |-> IF e \in kept THEN slot[e] ELSE "absent"]
       /\ warned' = (kept # {})
  /\ Goto("copy")
  /\ UNCHANGED <<chain, image, nfiVars, dev, vid_offset, ret, unread, run, unreleased>>

(* Entries still to be copied by cp_rootfs().                              *)
Uncopied == {e \in ImageEntries : slot[e] \notin {"new", "merged"}}

(* A directory that rm left is not replaced but copied into.               *)
CopyEntry ==
  /\ pc = "copy"
  /\ \E e \in Uncopied, c \in {"new", "merged"} :
       /\ c = "merged" => slot[e] # "absent"
       /\ slot' = [slot EXCEPT ![e] = c]
  /\ Goto("copy")
  /\ UNCHANGED <<chain, job, unreleased>>

(* Mutant: the loop is left, but with 1.                                   *)
CopyErrorIgnored ==
  /\ pc = "copy"
  /\ \E e \in Uncopied : slot' \in {slot, [slot EXCEPT ![e] = "part"]}
  /\ Goto("umount") /\ ret' = 1
  /\ UNCHANGED <<chain, image, nfiVars, dev, vid_offset, warned, unread, run, unreleased>>

(* cp_rootfs() returns at the first entry that cannot be copied.           *)
CopyFails ==
  /\ pc = "copy"
  /\ \E e \in Uncopied : slot' \in {slot, [slot EXCEPT ![e] = "part"]}
  /\ Goto("umount") /\ ret' = 0
  /\ UNCHANGED <<chain, image, nfiVars, dev, vid_offset, warned, unread, run, unreleased>>

(* The end of the directory, or an error of readdir(): NULL as well.       *)
CopyDone ==
  /\ pc = "copy"
  /\ unread' = (Uncopied # {})
  /\ Goto("umount") /\ ret' = 1
  /\ UNCHANGED <<chain, slot, image, nfiVars, dev, vid_offset, warned, run, unreleased>>

(* The same error in the loop that counts: if no entry was counted, the    *)
(* first one that is copied divides by zero, where the processor traps.    *)
CopyTraps ==
  /\ pc = "copy"
  /\ \A e \in ImageEntries : slot[e] \notin {"new", "merged"}
  /\ \E e \in ImageEntries, c \in {"new", "merged"} :
       /\ c = "merged" => slot[e] # "absent"
       /\ slot' = [slot EXCEPT ![e] = c]
  /\ Return("crashed")
  /\ UNCHANGED <<chain, job, unreleased>>

-----------------------------------------------------------------------------
(***************************************************************************)
(* Every result of the teardown is ignored, except that losetup dies.  A   *)
(* call is refused while the device above is still there (it depends on    *)
(* the one that failed), or fails by itself.                               *)
(***************************************************************************)
Released(l) == Goto(l) /\ UNCHANGED unreleased

Refused(l, busy) ==
  /\ Goto(l) /\ unreleased' = (unreleased \/ ~busy)
  /\ UNCHANGED chain

Umount ==
  /\ pc = "umount"
  /\ \/ mnt' = FALSE /\ Released("detach") /\ UNCHANGED <<loops, b2m, ubi>>
     \/ Refused("detach", FALSE)
  /\ UNCHANGED <<slot, job>>

Detach ==
  /\ pc = "detach"
  /\ \/ /\ ~mnt
        /\ ubi' = NoLoop /\ Released("remove")
        /\ UNCHANGED <<loops, b2m, mnt>>
     \/ Refused("remove", mnt)
  /\ UNCHANGED <<slot, job>>

RemoveBlock2mtd ==
  /\ pc = "remove"
  /\ \/ /\ ubi # dev
        /\ b2m' = b2m \ {dev} /\ Released("release")
        /\ UNCHANGED <<loops, ubi, mnt>>
     \/ dev \in b2m /\ Refused("release", ubi = dev)
  /\ UNCHANGED <<slot, job>>

Outcome == IF ret = 1 THEN "ok" ELSE "failed"

(***************************************************************************)
(* LOOP_CLR_FD of a device in use is refused, which is fatal, or deferred  *)
(* by the kernel to the last close.                                        *)
(***************************************************************************)
ReleaseLoop ==
  /\ pc = "release"
  /\ \/ /\ dev \notin b2m
        /\ loops' = [loops EXCEPT ![dev] = "free"]
        /\ Return(Outcome)
        /\ UNCHANGED <<b2m, ubi, mnt, unreleased>>
     \/ /\ dev \in b2m
        /\ Return(Outcome)
        /\ UNCHANGED <<chain, unreleased>>
     \/ /\ Die /\ unreleased' = (unreleased \/ dev \notin b2m)
        /\ UNCHANGED chain
  /\ UNCHANGED <<slot, job>>

-----------------------------------------------------------------------------
(* The user runs ofgwrite again, perhaps with another image.               *)
RunAgain ==
  /\ pc = "end" /\ run < MaxRuns
  /\ run' = run + 1
  /\ pc' = "prepare" /\ result' = "running"
  /\ image' \in Images /\ nfi' \in NfiFiles \cup {PlainImage}
  /\ partition' = 0 /\ fpos' = 0 /\ copied' = 0
  /\ slot' = [e \in Entries |-> "old"]
  /\ dev' = NoLoop /\ vid_offset' = 0 /\ ret' = 0
  /\ unreleased' = FALSE /\ warned' = FALSE /\ unread' = FALSE
  /\ UNCHANGED chain

(* Another process binds or frees a loop device.                           *)
OtherProcess ==
  /\ \E l \in Loops :
       \/ loops[l] = "free"    /\ loops' = [loops EXCEPT ![l] = "foreign"]
       \/ loops[l] = "foreign" /\ loops' = [loops EXCEPT ![l] = "free"]
  /\ UNCHANGED <<b2m, ubi, mnt, slot, pc, job, result, unreleased>>

SetUp ==
  \/ Prepare \/ ReadNfiHeader \/ SkipPartition \/ FindRootfs \/ CopyPage
  \/ ExtractFails \/ Extracted
  \/ QueryLoop \/ SetLoop \/ SetLoopFails
  \/ SetupBlock2mtd \/ SetupBlock2mtdFails
  \/ DetectVid \/ DetectVidFails \/ DetectMtd \/ DetectMtdFails
  \/ Attach \/ AttachFails \/ Mount \/ MountFails

Replace  == DeleteRootfs \/ CopyEntry \/ CopyFails \/ CopyDone \/ CopyTraps
TearDown == Umount \/ Detach \/ RemoveBlock2mtd \/ ReleaseLoop
Step     == SetUp \/ Replace \/ TearDown

-----------------------------------------------------------------------------
TypeOK ==
  /\ loops \in [Loops -> {"free", "ours", "foreign"}]
  /\ b2m \subseteq Loops /\ ubi \in Loops \cup {NoLoop} /\ mnt \in BOOLEAN
  /\ slot \in [Entries -> {"old", "absent", "new", "merged", "part"}]
  /\ pc \in {"prepare", "header", "size", "page", "query", "set", "block2mtd", "detect_vid", "detect_mtd",
             "attach", "mount", "delete", "copy", "umount", "detach", "remove",
             "release", "end"}
  /\ nfi \in NfiFiles \cup {PlainImage} /\ partition \in 0 .. RootfsPartition
  /\ fpos \in Nat /\ copied \in Nat
  /\ image \in Images /\ dev \in Loops \cup {NoLoop}
  /\ vid_offset \in {0} \cup ({DetectVidOffset(i) : i \in Images} \ {NotFound})
  /\ ret \in {0, 1}
  /\ result \in {"running", "ok", "failed", "died", "crashed"}
  /\ unreleased \in BOOLEAN /\ warned \in BOOLEAN /\ unread \in BOOLEAN
  /\ run \in 1 .. MaxRuns

(***************************************************************************)
(* A run that ends has taken down every device of its own chain, whichever *)
(* step failed, unless one of the teardown calls itself failed             *)
(* (mount_ubi_image()'s error paths, flash_ubi_jffs2.c:651-685) or the     *)
(* program crashed (CopyTraps), which tears down nothing.                  *)
(***************************************************************************)
NothingLeftBehind ==
  result \notin {"running", "crashed"} /\ ~unreleased /\ dev # NoLoop =>
    loops[dev] # "ours" /\ dev \notin b2m /\ ubi # dev

(***************************************************************************)
(* The old rootfs is touched only while the image just given is mounted:   *)
(* the UBI device is the one over this run's own loop device, not a        *)
(* leftover of an earlier run with the same number; and out of an NFI file *)
(* that is cut nothing is mounted but the rootfs partition, whole but for  *)
(* what the last fclose() may have lost                                    *)
(* (flash_ubi_jffs2.c:552-622, 671-687, 797-815).                          *)
(***************************************************************************)
OnlyFromThisImage ==
  [][pc # "end" /\ slot' # slot =>
       /\ mnt /\ ubi = dev /\ dev \in b2m /\ loops[dev] = "ours"
       /\ nfi # PlainImage => partition = RootfsPartition /\ Flushed(copied)]_vars

(***************************************************************************)
(* If rm had nothing to complain about and 1 is returned, the directory is *)
(* the image: every entry copied whole and none left of the old system,    *)
(* although cp_rootfs() does not look at what it copies onto.  Entries can *)
(* be missing, and then whole, only after an error of readdir(), which it  *)
(* takes for the end (flash_ubi_jffs2.c:805, 759-775).                     *)
(***************************************************************************)
QuietSuccessIsImage ==
  result = "ok" /\ ~warned =>
    \A e \in Entries :
      \/ slot[e] = (IF e \in ImageEntries THEN "new" ELSE "absent")
      \/ slot[e] = "absent" /\ unread

(***************************************************************************)
(* A loop device another process has bound, also one that was free when    *)
(* losetup -f chose it, is unbound by nobody but that process              *)
(* (losetup.c:95-101 against loop.c:143-159).                              *)
(***************************************************************************)
ForeignLoopsKept ==
  [][\A l \in Loops : loops[l] = "foreign" /\ loops'[l] # "foreign" =>
       OtherProcess]_vars

(***************************************************************************)
(* The comment 'find "UBI!"' and the message "Found offset" of             *)
(* detect_vid_offset() (flash_ubi_jffs2.c:449, 459): the offset is where   *)
(* the VID header's magic stands in the image.                             *)
(***************************************************************************)
OffsetIsVidHeader ==
  pc \in {"detect_mtd", "attach"} => vid_offset = VidOffset(image)
==============================================================================
