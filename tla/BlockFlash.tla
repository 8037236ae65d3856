----------------------------- MODULE BlockFlash -----------------------------
(***************************************************************************)
(* Flashing a box whose slots are on block devices, as main() does it:     *)
(* rootfs_flash() unpacks an archive (Unpack) or copies a UBI image        *)
(* (UbiLoop), kernel_flash() copies the kernel (Ext4Kernel), an Android    *)
(* box gets a boot image (BootImage), and the box reboots if E2 was        *)
(* stopped.  Without a reboot the user may start ofgwrite again.           *)
(***************************************************************************)
EXTENDS UbiLoop, Unpack, Ext4Kernel, BootImage

VARIABLES
  rootfs_flash_mode,  (* "TARBZ2" (all unpacking modes), "UBI_LOOP_SUBDIR" *)
  flash_kernel, android,
  stage,              (* "rootfs", "kernel", "boot", "done"                *)
  verdict             (* "none", "success", "failure", "exited" (by        *)
                      (* xfunc_die() or a crash), "rebooted" (after a      *)
                      (* failure)                                          *)

mainVars  == <<rootfs_flash_mode, flash_kernel, android>>
blockVars == <<vars, unpackVars, kernelVars, bootVars, mainVars, stage, verdict>>

Unpacking == rootfs_flash_mode = "TARBZ2"

(* What is not used in a mode is fixed.                                    *)
BlockInit ==
  /\ rootfs_flash_mode \in {"TARBZ2", "UBI_LOOP_SUBDIR"}
  /\ flash_kernel \in BOOLEAN /\ android \in BOOLEAN
  /\ Init /\ UnpackInit /\ KernelInit /\ BootInit
  /\ Unpacking =>
       /\ loops = [l \in Loops |-> "free"]
       /\ image = CHOOSE i \in Images : TRUE
       /\ nfi = PlainImage
  /\ ~Unpacking =>
       /\ archive = CHOOSE a \in Archives : TRUE
       /\ ~compressed /\ Undamaged /\ ~android
  /\ ~android => bootimg = "old"
  /\ stage = "rootfs" /\ verdict = "none"

RootfsStep ==
  /\ stage = "rootfs" /\ ~Unpacking /\ Step
  /\ UNCHANGED <<unpackVars, kernelVars, bootVars, mainVars, stage, verdict>>

TarStep ==
  /\ stage = "rootfs" /\ Unpacking /\ Tar
  /\ UNCHANGED <<vars, kernelVars, bootVars, mainVars, stage, verdict>>

DecompressorStep ==
  /\ stage = "rootfs" /\ Decompressor
  /\ UNCHANGED <<vars, kernelVars, bootVars, mainVars, stage, verdict>>

OtherProcessStep ==
  /\ ~Unpacking /\ verdict # "rebooted" /\ OtherProcess
  /\ UNCHANGED <<unpackVars, kernelVars, bootVars, mainVars, stage, verdict>>

KernelWrites ==
  /\ stage = "kernel" /\ KernelStep
  /\ UNCHANGED <<vars, unpackVars, bootVars, mainVars, stage, verdict>>

(* load_file() finds what tar has unpacked.                                *)
BootImageStep ==
  /\ stage = "boot" /\ BootStep
  /\ UNCHANGED <<vars, unpackVars, kernelVars, mainVars, stage, verdict>>

-----------------------------------------------------------------------------
RootfsResult == IF Unpacking THEN uresult ELSE result

End(v) == stage' = "done" /\ verdict' = v

(* After an error main() reboots if E2 was stopped.                        *)
Abort == End(IF stop_e2_needed THEN "rebooted" ELSE "failure")

(* The boot image, if any, and the message of success.                     *)
BootImageNext ==
  IF android THEN stage' = "boot" /\ StartBootImage /\ UNCHANGED verdict
             ELSE End("success") /\ UNCHANGED bootVars

RootfsFlashed ==
  /\ stage = "rootfs" /\ RootfsResult = "ok"
  /\ IF flash_kernel
     THEN stage' = "kernel" /\ StartKernel /\ UNCHANGED <<bootVars, verdict>>
     ELSE BootImageNext /\ UNCHANGED kernelVars
  /\ UNCHANGED <<vars, unpackVars, mainVars>>

RootfsFailed ==
  /\ stage = "rootfs" /\ RootfsResult = "failed"
  /\ Abort
  /\ UNCHANGED <<vars, unpackVars, kernelVars, bootVars, mainVars>>

(* tar's die_func ends the program; losetup's xfunc_die() has none, and a  *)
(* crash goes through neither.                                             *)
RootfsDied ==
  /\ stage = "rootfs" /\ RootfsResult \in {"died", "crashed", "exited", "rebooted"}
  /\ End(IF RootfsResult = "rebooted" THEN "rebooted" ELSE "exited")
  /\ UNCHANGED <<vars, unpackVars, kernelVars, bootVars, mainVars>>

KernelFlashed ==
  /\ stage = "kernel" /\ kresult = "ok"
  /\ BootImageNext
  /\ UNCHANGED <<vars, unpackVars, kernelVars, mainVars>>

KernelFailed ==
  /\ stage = "kernel" /\ kresult = "failed"
  /\ Abort
  /\ UNCHANGED <<vars, unpackVars, kernelVars, bootVars, mainVars>>

(* main() does not look at the result of generate_boot_image().            *)
BootImageDone ==
  /\ stage = "boot" /\ bpc = "end"
  /\ End("success")
  /\ UNCHANGED <<vars, unpackVars, kernelVars, bootVars, mainVars>>

(* With E2 running there was no reboot, and after xfunc_die() neither.     *)
FlashAgain ==
  /\ stage = "done" /\ ~Unpacking
  /\ verdict = "exited" \/ ~stop_e2_needed
  /\ RunAgain
  /\ stage' = "rootfs" /\ verdict' = "none"
  /\ kdev' = 0 /\ kread' = 0 /\ kbuf' = 0 /\ kresult' = "idle"
  /\ UNCHANGED <<unpackVars, bootVars, mainVars>>

Main ==
  \/ RootfsStep \/ TarStep \/ KernelWrites \/ BootImageStep
  \/ RootfsFlashed \/ RootfsFailed \/ RootfsDied
  \/ KernelFlashed \/ KernelFailed \/ BootImageDone

BlockNext == Main \/ DecompressorStep \/ OtherProcessStep \/ FlashAgain

(* Two processes that the scheduler keeps running.                         *)
BlockSpec ==
  /\ BlockInit /\ [][BlockNext]_blockVars
  /\ WF_blockVars(Main) /\ WF_blockVars(DecompressorStep)

-----------------------------------------------------------------------------
BlockTypeOK ==
  /\ TypeOK
  /\ archive \in Archives /\ damage \in Damages(archive)
  /\ tree \in [Names -> {"old", "absent", "new", "merged", "part", "altered"}]
  /\ upc \in {"rm", "open", "read", "drain", "wait", "end"}
  /\ consumed \in 0 .. Total(archive) /\ produced \in 0 .. Total(archive)
  /\ compressed => produced - consumed \in 0 .. PipeSize
  /\ child \in {"none", "running", "fatal", "exit0", "exit1"}
  /\ uresult \in {"running", "ok", "failed", "exited", "rebooted"}
  /\ kdev + kbuf <= kread /\ kread <= KernelUnits /\ kbuf <= BufUnits
  /\ bootimg \in {"absent", "old", "part", "new"} /\ bwritten \in 0 .. Parts

(* Nothing verifies the data of the archive.                               *)
Unchecked == Altered /\ (compressed => ~verified)

InArchive(n) == \E i \in 1 .. Len(archive) : archive[i].name = n

AlteredUnchecked(n) ==
  /\ Unchecked /\ damage.at <= Len(archive)
  /\ archive[damage.at].name = n

(***************************************************************************)
(* If tar returns success and neither rm nor tar printed anything, the     *)
(* directory is the archive's content and nothing else, although rm's      *)
(* result is ignored and tar goes on after most errors                     *)
(* (flash_ext4.c:131, data_extract_all.c:94-165).  The exception is one    *)
(* entry that was altered in an archive whose data nothing verifies.       *)
(***************************************************************************)
QuietUnpackIsImage ==
  uresult = "ok" /\ ~printed =>
    \A n \in Names :
      \/ tree[n] = (IF InArchive(n) THEN "new" ELSE "absent")
      \/ AlteredUnchecked(n)

(***************************************************************************)
(* A compressed archive (of one compressed stream) that is cut, be it      *)
(* between two entries where tar sees nothing but an end, or altered under *)
(* a checksum that the decompressor knows, is never reported as unpacked:  *)
(* the child's exit status says so (tar.c:1213-1218), also when the        *)
(* checksum comes behind data that tar has unpacked.                       *)
(***************************************************************************)
DamagedNeverUnpacked == compressed /\ ~Undamaged /\ ~Unchecked => uresult # "ok"

(***************************************************************************)
(* What is written only in part when the program ends is removed or        *)
(* reported: of a kernel reported as written all but the stream's last     *)
(* buffer is on the device (flash_ext4.c:55-62), and half a boot image is  *)
(* never left behind (ofgwrite.c:324-345).                                 *)
(***************************************************************************)
NothingHalfWritten ==
  /\ kresult = "ok" => kdev >= KernelUnits - BufUnits
  /\ stage = "done" => bootimg # "part"

==============================================================================
