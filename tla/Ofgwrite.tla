------------------------------ MODULE Ofgwrite ------------------------------
(***************************************************************************)
(* main() of ofgwrite.c from the point where the devices have been found:  *)
(* stop Enigma2 (E2) and leave the running root file system, or mount the  *)
(* slot that is not running; flash the rootfs, then the kernel; create the *)
(* Android boot image; reboot.  Enigma2 is an actor of its own, which      *)
(* takes its time to stop.  What rootfs_flash() and kernel_flash() do is   *)
(* abstracted to the content they leave; modules FlashNand, UbiFormat and  *)
(* BlockFlash look into them.  A user may run the program again after a    *)
(* failure, as its error messages ask for.                                 *)
(***************************************************************************)
EXTENDS Integers, MountTable

CONSTANTS
  MaxPolls,    (* max_time / 2 of check_e2_stopped()                       *)
  MaxRuns,     (* bound on the number of times the user starts ofgwrite    *)
  Layouts      (* [table, image]: what is mounted, and the image directory *)

ASSUME MaxPollsAssumption == MaxPolls \in Nat \ {0}
ASSUME MaxRunsAssumption == MaxRuns \in Nat \ {0}

(* There is a root; the start script has just mounted the tmpfs /newroot,  *)
(* so that nothing is below it, nor the image in it; and "oldroot" is a    *)
(* directory that umount_rootfs() creates in there: no mount has the name. *)
Mounts == [dir : Seq(STRING), dev : STRING, movable : BOOLEAN]

ASSUME LayoutsAssumption ==
  \A l \in Layouts :
    /\ l.table \in Seq(Mounts) /\ l.image \in Seq(STRING)
    /\ \E i \in DOMAIN l.table : l.table[i].dir = Root
    /\ ~Inside(l.image, Newroot)
    /\ \A i \in DOMAIN l.table :
         ~Below(l.table[i].dir, Newroot) /\ ~Inside(l.table[i].dir, OldRoot)

UnpackModes == {"TARBZ2", "TARBZ2_MTD", "UBI_LOOP_SUBDIR", "TARXZ_UBI"}
Modes == UnpackModes \union {"MTD"}

VARIABLES
  flash_kernel, flash_rootfs, stop_e2_needed, no_write, android,
  rootfs_flash_mode, kernel_flash_mode,
  nor,        (* the MTD partitions are NOR flash, JFFS2 (flashcp)         *)
  rootfs_device,  (* its kind                                              *)
  e2,         (* the enigma2 process: "running" or "stopped"               *)
  runlevel,   (* what init was told last: 3 or 2                           *)
  oldroot,    (* the root file system of the box: "root", "pivoted",       *)
              (* "umounted" or "ro" (remounted read only)                  *)
  remount,    (* /oldroot_remount is mounted                               *)
  newroot,    (* the start script has mounted /newroot                     *)
  layout,     (* the mounts that readProcMounts() has seen                 *)
  placed,     (* where they are now                                        *)
  rootfs,     (* content of the rootfs partition or slot                   *)
  kernel,     (* content of the kernel partition                           *)
  complained, (* in this run a tool printed an error and returned success  *)
  rebooted,
  pc, result, runs,
  polls       (* of check_e2_stopped(), 0 outside of it                    *)

argVars == <<flash_kernel, flash_rootfs, stop_e2_needed, no_write, android,
             rootfs_flash_mode, kernel_flash_mode, nor, rootfs_device>>
mountVars == <<layout, placed>>
boxVars == <<e2, runlevel, oldroot, remount, newroot, mountVars>>
dataVars == <<rootfs, kernel, complained>>
vars == <<argVars, boxVars, dataVars, rebooted, pc, polls, result, runs>>

(* Which device it is matters with the option -a, otherwise one stands for *)
(* all: "mmcblk1p" is on the dreamcard, "sda" and "mtd" have no letter p.  *)
RootfsDevices(mode) ==
  IF mode \in {"MTD", "TARBZ2_MTD"} THEN {"mtd"}
  ELSE IF android THEN {"mmcblk0p", "mmcblk1p", "sda"} ELSE {"sda"}

(* A NOR box boots its only rootfs, and has no other flash.                *)
Init ==
  /\ flash_kernel \in BOOLEAN /\ flash_rootfs \in BOOLEAN
  /\ flash_kernel \/ flash_rootfs
  /\ stop_e2_needed \in BOOLEAN /\ no_write \in BOOLEAN /\ android \in BOOLEAN
  /\ rootfs_flash_mode \in Modes /\ kernel_flash_mode \in {"TARBZ2", "MTD"}
  /\ ~flash_kernel => kernel_flash_mode = "TARBZ2"
  /\ nor \in BOOLEAN
  /\ nor => rootfs_flash_mode = "MTD" /\ (flash_kernel => kernel_flash_mode = "MTD")
            /\ stop_e2_needed
  /\ rootfs_device \in RootfsDevices(rootfs_flash_mode)
  /\ e2 \in {"running", "stopped"} /\ runlevel = 3
  /\ oldroot = "root" /\ remount = FALSE /\ newroot \in BOOLEAN
  /\ layout \in Layouts /\ placed = AsMounted(layout.table)
  /\ rootfs = "old" /\ kernel = "old" /\ complained = FALSE
  /\ rebooted = FALSE
  /\ pc = "start" /\ polls = 0 /\ result = "none" /\ runs = 1

Unpack == rootfs_flash_mode \in UnpackModes
Stopping == stop_e2_needed /\ ~no_write

Goto(l) == pc' = l /\ UNCHANGED result
Exit(r) == pc' = "exited" /\ result' = r

(* reboot() does not come back.                                            *)
Reboot == rebooted' = TRUE /\ pc' = "rebooted"

Step(l) == pc = l /\ UNCHANGED <<argVars, runs>>

(***************************************************************************)
(* Kernel only: the box keeps running.                                     *)
(***************************************************************************)
Start ==
  /\ Step("start")
  /\ IF ~flash_rootfs THEN Goto("kernel_only")
     ELSE IF ~newroot THEN Exit("failure")
     ELSE Goto(IF Stopping THEN "daemonize" ELSE "mount")
  /\ UNCHANGED <<boxVars, dataVars, rebooted, polls>>

ImageMount == MountOf(layout.table, layout.image)
ImageDev   == layout.table[ImageMount].dev

(* The files are read by the path they had in the old root.  What cannot   *)
(* be moved, like a network share, autofs may have mounted again.          *)
ImageInPlace ==
  ImageMount \in DOMAIN placed /\ placed[ImageMount] = layout.table[ImageMount].dir
ImageReadable == ImageInPlace \/ ~layout.table[ImageMount].movable

(* Nothing is written with no_write, but the checks may fail.              *)
Failed(before) == IF no_write THEN {before} ELSE {before, "broken"}

(* A success return is no proof of the new content.  In raw flash nandwrite*)
(* returns 0 even if it cannot open the image, and ubiformat if blocks turn*)
(* bad till none is left; but then each has printed an error (theorem      *)
(* QuietSuccess of FlashNandProofs; every block that turns bad is told).   *)
(* On block devices a loss may be silent: the last buffer of the kernel, a *)
(* directory not read to its end, an archive without a checksum.           *)
Succeeded(before, after, mode) ==
  \/ no_write /\ after = before /\ UNCHANGED complained
  \/ /\ ~no_write /\ ImageReadable
     /\ after = "new" /\ complained' \in {complained, TRUE}
  \/ /\ ~no_write /\ (ImageReadable \/ mode = "MTD")
     /\ after = "doubtful" /\ complained' \in {complained \/ mode = "MTD", TRUE}

KernelOnly ==
  /\ Step("kernel_only")
  /\ \/ Succeeded(kernel, kernel', kernel_flash_mode) /\ Exit("success")
     \/ kernel' \in Failed(kernel) /\ UNCHANGED complained /\ Exit("failure")
  /\ UNCHANGED <<boxVars, rootfs, rebooted, polls>>

(***************************************************************************)
(* daemonize() and umount_rootfs().                                        *)
(***************************************************************************)
Daemonize ==
  /\ Step("daemonize")
  /\ Goto("prepare") \/ Exit("failure")
  /\ UNCHANGED <<boxVars, dataVars, rebooted, polls>>

(* The directories, binaries and libraries for the new root.               *)
PrepareNewroot ==
  /\ Step("prepare")
  /\ Goto("init2") \/ Exit("failure")
  /\ UNCHANGED <<boxVars, dataVars, rebooted, polls>>

Init2 ==
  /\ Step("init2")
  /\ \/ runlevel' = 2 /\ Goto("poll")
     \/ runlevel' = runlevel /\ Exit("failure")
  /\ polls' = 0
  /\ UNCHANGED <<e2, oldroot, remount, newroot, mountVars, dataVars, rebooted>>

E2Stops ==
  /\ runlevel = 2
  /\ e2 = "running"
  /\ e2' = "stopped"
  /\ UNCHANGED <<argVars, runlevel, oldroot, remount, newroot, mountVars, dataVars,
                 rebooted, pc, polls, result, runs>>

E2Starts ==
  /\ runlevel = 3 /\ oldroot = "root" /\ ~rebooted
  /\ e2 = "stopped"
  /\ e2' = "running"
  /\ UNCHANGED <<argVars, runlevel, oldroot, remount, newroot, mountVars, dataVars,
                 rebooted, pc, polls, result, runs>>

(* Mutant: the limit of the waiting time is not looked at.                 *)
PollForever ==
  /\ Step("poll")
  /\ IF e2 = "stopped" THEN Goto("pivot") /\ polls' = 0
                       ELSE Goto("poll") /\ polls' = polls + 1
  /\ UNCHANGED <<boxVars, dataVars, rebooted>>

(* exec_ps(), and sleep(2) while E2 is found.                              *)
PollE2 ==
  /\ Step("poll")
  /\ polls < MaxPolls
  /\ IF e2 = "stopped" THEN Goto("pivot") /\ polls' = 0
                       ELSE Goto("poll") /\ polls' = polls + 1
  /\ UNCHANGED <<boxVars, dataVars, rebooted>>

(* Mutant: E2 is not started again.                                        *)
E2LeftStopping ==
  /\ Step("poll")
  /\ polls = MaxPolls
  /\ Exit("failure") /\ polls' = 0
  /\ UNCHANGED <<boxVars, dataVars, rebooted>>

(* "Error E2 can't be stopped! Abort flashing.", and init 3.               *)
E2NotStopped ==
  /\ Step("poll")
  /\ polls = MaxPolls
  /\ runlevel' = 3
  /\ Exit("failure") /\ polls' = 0
  /\ UNCHANGED <<e2, oldroot, remount, newroot, mountVars, dataVars, rebooted>>

PivotRoot ==
  /\ Step("pivot")
  /\ \/ oldroot' = "pivoted" /\ placed' = Pivoted(layout.table)
        /\ Goto("move_mounts") /\ UNCHANGED runlevel
     \/ runlevel' = 3 /\ Exit("failure") /\ UNCHANGED <<oldroot, placed>>
  /\ UNCHANGED <<e2, remount, newroot, layout, dataVars, rebooted, polls>>

SystemDirsMove == \A d \in SystemDirs : CanMove(layout.table, placed, d)


(* Without /dev, /proc, /sys or /var/volatile, or the link /tmp, the box   *)
(* reboots.                                                                *)
MoveMounts ==
  /\ Step("move_mounts")
  /\ \/ /\ SystemDirsMove
        /\ placed' = MovedToNew(layout.table, placed, SystemDirs)
        /\ Goto("move_media")
        /\ UNCHANGED rebooted
     \/ Reboot /\ UNCHANGED <<result, placed>>
  /\ UNCHANGED <<e2, runlevel, oldroot, remount, newroot, layout, dataVars, polls>>

Replaced(l, p) ==
  /\ placed' = p
  /\ Goto(l)
  /\ UNCHANGED <<e2, runlevel, oldroot, remount, newroot, layout, dataVars, rebooted,
                 polls>>

(* The result, whether /media was a mount, matters to MoveImage.           *)
MoveMedia ==
  /\ Step("move_media")
  /\ Replaced("move_image", MovedToNew(layout.table, placed, {<<"media">>}))

ImageMountPoint == RootfsMountPoint(layout.table, ImageDev)
MediaMoved == \E i \in DOMAIN placed : placed[i] = <<"media">>

(* Mutant: what is below /media is taken to have moved with /media.        *)
MoveImageNotOfMedia ==
  /\ Step("move_image")
  /\ Replaced("detach",
       IF \/ ImageMountPoint = Root
          \/ Below(ImageMountPoint, <<"media">>)
          \/ Below(ImageMountPoint, <<"var", "volatile">>)
         THEN placed
         ELSE MovedToNew(layout.table, placed, {ImageMountPoint}))

(* "move mount which includes the image files"; the result is ignored.     *)
MoveImage ==
  /\ Step("move_image")
  /\ Replaced("detach",
       IF ImageMountPoint # Root
            /\ \/ Below(ImageMountPoint, <<"media">>) /\ ~MediaMoved
               \/ ~Below(ImageMountPoint, <<"var", "volatile">>)
         THEN MovedToNew(layout.table, placed, {ImageMountPoint})
         ELSE placed)

(* The mounts that are not needed go, init re-executes itself in the new   *)
(* root, and fuser kills what still uses the old one; their results are    *)
(* ignored.                                                                *)
DetachUnneeded ==
  /\ Step("detach")
  /\ Replaced("umount", Detached(placed, Unneeded(layout.table, ImageDev)))

UmountOldroot ==
  /\ Step("umount")
  /\ oldroot' \in IF OldRootFree(placed) THEN {"umounted", oldroot} ELSE {oldroot}
  /\ Goto("remount")
  /\ UNCHANGED <<e2, runlevel, remount, newroot, mountVars, dataVars, rebooted, polls>>

(* An unpacked rootfs is mounted at /oldroot_remount, whether the umount   *)
(* succeeded or not.                                                       *)
RemountForUnpack ==
  /\ Step("remount")
  /\ Unpack
  /\ \/ remount' = TRUE /\ Goto("rootfs") /\ UNCHANGED rebooted
     \/ Reboot /\ UNCHANGED <<remount, result>>
  /\ UNCHANGED <<e2, runlevel, oldroot, newroot, mountVars, dataVars, polls>>

(* Mutant: flash although the old root can neither be umounted nor made    *)
(* read only.                                                              *)
RemountUnchecked ==
  /\ Step("remount")
  /\ ~Unpack
  /\ oldroot' \in IF oldroot = "umounted" THEN {oldroot} ELSE {oldroot, "ro"}
  /\ Goto("rootfs")
  /\ UNCHANGED <<e2, runlevel, remount, newroot, mountVars, dataVars, rebooted, polls>>

RemountReadOnly ==
  /\ Step("remount")
  /\ ~Unpack
  /\ IF oldroot = "umounted" THEN Goto("rootfs") /\ UNCHANGED <<oldroot, rebooted>>
     ELSE \/ oldroot' = "ro" /\ Goto("rootfs") /\ UNCHANGED rebooted
          \/ Reboot /\ UNCHANGED <<oldroot, result>>
  /\ UNCHANGED <<e2, runlevel, remount, newroot, mountVars, dataVars, polls>>

(***************************************************************************)
(* The rootfs is not the running one (or nothing is to be written).        *)
(***************************************************************************)
MountNotNeeded ==
  /\ Step("mount")
  /\ no_write \/ ~Unpack
  /\ Goto("rootfs")
  /\ UNCHANGED <<boxVars, dataVars, rebooted, polls>>

(* Mutant: the result of mount() is not looked at.                         *)
MountUnchecked ==
  /\ Step("mount")
  /\ ~no_write /\ Unpack
  /\ remount' \in {remount, TRUE}
  /\ Goto("rootfs")
  /\ UNCHANGED <<e2, runlevel, oldroot, newroot, mountVars, dataVars, rebooted, polls>>

(* The kernel refuses (EBUSY) to mount a file system twice at one place.   *)
MountRootfs ==
  /\ Step("mount")
  /\ ~no_write /\ Unpack
  /\ \/ ~remount /\ remount' = TRUE /\ Goto("rootfs")
     \/ remount' = remount /\ Exit("failure")
  /\ UNCHANGED <<e2, runlevel, oldroot, newroot, mountVars, dataVars, rebooted, polls>>

(* EINVAL: "most likely partition is not formatted -> format it".          *)
FormatRootfs ==
  /\ Step("mount")
  /\ ~no_write /\ rootfs_flash_mode = "TARBZ2" /\ ~remount
  /\ \/ /\ rootfs' = "broken"
        /\ remount' = TRUE
        /\ Goto("rootfs")
     \/ /\ rootfs' \in {rootfs, "broken"}
        /\ UNCHANGED remount
        /\ Exit("failure")
  /\ UNCHANGED <<e2, runlevel, oldroot, newroot, mountVars, kernel, complained, rebooted,
                 polls>>

(***************************************************************************)
(* rootfs_flash() and kernel_flash().                                      *)
(***************************************************************************)
FlashRootfsOk ==
  /\ Step("rootfs")
  /\ ~(nor /\ ~no_write)
  /\ Succeeded(rootfs, rootfs', rootfs_flash_mode)
  /\ Goto(IF flash_kernel THEN "kernel" ELSE "boot_image")
  /\ UNCHANGED <<boxVars, kernel, rebooted, polls>>

(* flashcp -r reboots as soon as the rootfs is written.                    *)
FlashRootfsNor ==
  /\ Step("rootfs")
  /\ ImageReadable
  /\ nor /\ ~no_write
  /\ rootfs' = "new"
  /\ Reboot
  /\ UNCHANGED <<boxVars, kernel, complained, polls, result>>

(* After an error the box reboots when its E2 was to be stopped.           *)
FailAfterFlashing ==
  IF stop_e2_needed THEN Reboot /\ UNCHANGED result
                    ELSE Exit("failure") /\ UNCHANGED rebooted

(* An error return of rootfs_flash(), or handle_busybox_fatal_error() in   *)
(* the middle of tar.  Unpacking does nothing with no_write.               *)
FlashRootfsFails ==
  /\ Step("rootfs")
  /\ no_write => ~Unpack
  /\ rootfs' \in Failed(rootfs)
  /\ FailAfterFlashing
  /\ UNCHANGED <<boxVars, kernel, complained, polls>>

(* losetup and cp die on their own: only tar_main() sets die_func, so that *)
(* nothing reboots the box.  losetup is called before the old rootfs is    *)
(* deleted and again when the new one is complete.  A division by zero in  *)
(* cp_rootfs() (CopyTraps of UbiLoop) ends the same way.                   *)
FlashRootfsDies ==
  /\ Step("rootfs")
  /\ rootfs_flash_mode = "UBI_LOOP_SUBDIR" /\ ~no_write
  /\ rootfs' \in Failed(rootfs) \cup (IF ImageReadable THEN {"new"} ELSE {})
  /\ Exit("died")
  /\ UNCHANGED <<boxVars, kernel, complained, rebooted, polls>>

(* JFFS2 on NAND, which nandwrite writes, is not told apart.               *)
Ubiformat == rootfs_flash_mode = "MTD" /\ ~nor /\ ~no_write

(* An image without a block divides the progress of flash_image() by zero, *)
(* before anything is erased.                                              *)
FlashRootfsCrashes ==
  /\ Step("rootfs")
  /\ Ubiformat /\ ImageReadable
  /\ Exit("crashed")
  /\ UNCHANGED <<boxVars, dataVars, rebooted, polls>>

(* ubiformat has a question, before or between its writes, and stdin is at *)
(* its end: prompt() asks again and again ...                              *)
UbiformatAsks ==
  /\ Step("rootfs")
  /\ Ubiformat
  /\ rootfs' \in Failed(rootfs)
  /\ Goto("asking")
  /\ UNCHANGED <<boxVars, kernel, complained, rebooted, polls>>

(* ... unless it happens to find an answer.                                *)
UbiformatAnswered ==
  /\ Step("asking")
  /\ Goto("rootfs")
  /\ UNCHANGED <<boxVars, dataVars, rebooted, polls>>

FlashKernelOk ==
  /\ Step("kernel")
  /\ Succeeded(kernel, kernel', kernel_flash_mode)
  /\ Goto("boot_image")
  /\ UNCHANGED <<boxVars, rootfs, rebooted, polls>>

(* Mutant: a failing kernel flash goes unnoticed.                          *)
FlashKernelIgnored ==
  /\ Step("kernel")
  /\ kernel' \in Failed(kernel)
  /\ Goto("boot_image")
  /\ UNCHANGED <<boxVars, rootfs, complained, rebooted, polls>>

FlashKernelFails ==
  /\ Step("kernel")
  /\ kernel' \in Failed(kernel)
  /\ FailAfterFlashing
  /\ UNCHANGED <<boxVars, rootfs, complained, polls>>

(***************************************************************************)
(* The Android boot image: it is created or not, main() does not look at   *)
(* the results of generate_boot_image().                                   *)
(***************************************************************************)
NoLetterP == rootfs_device \in {"sda", "mtd"}

BootImage ==
  /\ Step("boot_image")
  /\ ~(android /\ NoLetterP)
  /\ Goto("finish")
  /\ UNCHANGED <<boxVars, dataVars, rebooted, polls>>

(* strchr(rootfs_device, 'p') is NULL: strncpy() with a length that is the *)
(* difference of two unrelated addresses fills more than there is.         *)
BootImageCrashes ==
  /\ Step("boot_image")
  /\ android /\ NoLetterP
  /\ Exit("crashed")
  /\ UNCHANGED <<boxVars, dataVars, rebooted, polls>>

(* "dreamcard device not mounted", "Invalid kernel number": return.        *)
DreamcardFails ==
  /\ Step("boot_image")
  /\ android /\ rootfs_device = "mmcblk1p"
  /\ Exit("no_dreamcard")
  /\ UNCHANGED <<boxVars, dataVars, rebooted, polls>>

Finish ==
  /\ Step("finish")
  /\ remount' = FALSE
  /\ newroot' = (newroot /\ stop_e2_needed)
  /\ result' = "success"
  /\ IF Stopping THEN Reboot ELSE pc' = "exited" /\ UNCHANGED rebooted
  /\ UNCHANGED <<e2, runlevel, oldroot, mountVars, dataVars, polls>>

(* "Please flash backup!": the user starts the program again; its start    *)
(* script mounts /newroot.                                                 *)
RunAgain ==
  /\ pc = "exited" /\ result # "success"
  /\ oldroot = "root"
  /\ runs < MaxRuns
  /\ runs' = runs + 1
  /\ pc' = "start" /\ result' = "none"
  /\ newroot' = TRUE
  /\ complained' = FALSE
  /\ UNCHANGED <<argVars, e2, runlevel, oldroot, remount, mountVars, rootfs, kernel,
                 rebooted, polls>>

Ended ==
  /\ pc \in {"exited", "rebooted"}
  /\ UNCHANGED vars

Program ==
  \/ Start \/ KernelOnly
  \/ Daemonize \/ PrepareNewroot \/ Init2 \/ PollE2 \/ E2NotStopped
  \/ PivotRoot \/ MoveMounts \/ MoveMedia \/ MoveImage \/ DetachUnneeded
  \/ UmountOldroot
  \/ RemountForUnpack \/ RemountReadOnly
  \/ MountNotNeeded \/ MountRootfs \/ FormatRootfs
  \/ FlashRootfsOk \/ FlashRootfsNor \/ FlashRootfsFails \/ FlashRootfsDies
  \/ FlashRootfsCrashes \/ UbiformatAsks
  \/ FlashKernelOk \/ FlashKernelFails
  \/ BootImage \/ BootImageCrashes \/ DreamcardFails \/ Finish

Next == Program \/ UbiformatAnswered \/ E2Stops \/ E2Starts \/ RunAgain \/ Ended

Spec == Init /\ [][Next]_vars

(* The program keeps running.  Neither E2 nor the user need ever act, nor  *)
(* need a question ever find an answer.                                    *)
FairSpec == Spec /\ WF_vars(Program)

------------------------------------------------------------------------------

TypeOK ==
  /\ rootfs_flash_mode \in Modes /\ complained \in BOOLEAN
  /\ e2 \in {"running", "stopped"} /\ runlevel \in {2, 3}
  /\ oldroot \in {"root", "pivoted", "umounted", "ro"}
  /\ remount \in BOOLEAN /\ newroot \in BOOLEAN
  /\ {rootfs, kernel} \subseteq {"old", "broken", "doubtful", "new"}
  /\ rebooted \in BOOLEAN
  /\ pc \in {"start", "kernel_only", "daemonize", "prepare", "init2", "poll",
             "pivot", "move_mounts", "move_media", "move_image", "detach", "umount",
             "remount", "mount", "rootfs", "asking", "kernel", "boot_image", "finish",
             "exited", "rebooted"}
  /\ polls \in 0 .. MaxPolls
  /\ layout \in Layouts /\ DOMAIN placed \subseteq DOMAIN layout.table
  /\ result \in {"none", "success", "failure", "died", "crashed", "no_dreamcard"}
  /\ runs \in 1 .. MaxRuns

(***************************************************************************)
(* The rootfs of the running system is written only after E2 has stopped   *)
(* and the old root has been left, for raw flash even not before it is     *)
(* umounted or read only: E2 or a daemon would write to it meanwhile.      *)
(***************************************************************************)
RunningRootReleased ==
  [][rootfs' # rootfs /\ stop_e2_needed =>
       /\ e2 = "stopped"
       /\ oldroot # "root"
       /\ rootfs_flash_mode = "MTD" => oldroot \in {"umounted", "ro"}]_vars

(***************************************************************************)
(* Deleting and unpacking a rootfs goes to the mounted partition, never to *)
(* the directory below the mount point.                                    *)
(***************************************************************************)
UnpackedOnPartition ==
  [][Unpack /\ rootfs' # rootfs /\ pc = "rootfs" => remount]_vars

(***************************************************************************)
(* When the old root has been left, the image files are where they were,   *)
(* and no other mount keeps the old root from being unmounted, whatever is *)
(* mounted below what (ofgwrite.c:980-1003, 1343-1368).  The image has to  *)
(* be on a file system that can be moved, is not the root, and is mounted  *)
(* once: of two places the last one is taken.  A mount on top of another   *)
(* moves alone, and the covered one stays.                                 *)
(***************************************************************************)
OnMountOfItsOwn ==
  /\ layout.table[ImageMount].dir # Root /\ layout.table[ImageMount].movable
  /\ NothingHidden(layout.table)
  /\ \A i \in DOMAIN layout.table : layout.table[i].dev = ImageDev => i = ImageMount

ImageTakenAlong ==
  pc = "umount" /\ OnMountOfItsOwn => ImageInPlace /\ OldRootFree(placed)

(* A success is reported only when in this run every flash function that   *)
(* was asked for has been called and has returned success: what an error   *)
(* return or an earlier run left is not passed off as flashed.  In raw     *)
(* flash, if no tool has printed an error either, the content is new.      *)
Flashed(content, mode) ==
  /\ content \in {"new", "doubtful"}
  /\ mode = "MTD" /\ ~complained => content = "new"

SuccessIsComplete ==
  result = "success" /\ ~no_write =>
    /\ flash_rootfs => Flashed(rootfs, rootfs_flash_mode)
    /\ flash_kernel => Flashed(kernel, kernel_flash_mode)

(* An error return before anything is written leaves a box that runs:      *)
(* either E2 was never told to stop, or init is told to start it, or it    *)
(* reboots.  Only a process that dies or crashes does not see to that.     *)
AbortKeepsBoxAlive ==
  pc = "exited" /\ result \notin {"died", "crashed"} /\ rootfs = "old" /\ kernel = "old"
    => runlevel = 3 /\ oldroot = "root"

(* The four ways to leave a box with E2 stopped and nobody to start it:    *)
(* losetup or cp dies, ubiformat or the boot image crashes, the dreamcard  *)
(* cannot be mounted, a question is asked for ever.                        *)
Stranded ==
  \/ pc = "exited" /\ result \in {"died", "crashed", "no_dreamcard"}
  \/ pc = "asking"

==============================================================================
