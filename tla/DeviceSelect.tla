---------------------------- MODULE DeviceSelect ----------------------------
(***************************************************************************)
(* The devices to flash: main() of ofgwrite.c from the options to the last *)
(* check.  They come from /proc/mtd, from the kernel command line and its  *)
(* partition table, from the GPTs that the built-in fdisk lists, or from   *)
(* the user; each source may overwrite what an earlier one has found.  The *)
(* same steps find out whether the running image is the one that is going  *)
(* to be flashed, that is, whether Enigma2 has to be stopped.              *)
(*                                                                         *)
(* A device is a pair of a disk and a number, a partition name a pair of a *)
(* word and a number (0: none), a slot directory likewise.                 *)
(***************************************************************************)
EXTENDS Integers, FiniteSets, Sequences, FiniteSetsExt

CONSTANTS
  Boxes,        (* the hardware, its partitions and the running image      *)
  ArgsOf(_)     (* the command lines, and the files found, for a box       *)

NoDev == <<"", 0>>

(* Disks have names, none of them that of the devices of /proc/mtd, and a  *)
(* box whose kernel is a file has been started with a root on one of them. *)
Names == STRING \X Nat
Tables == [disk : STRING \ {"", "mtd"}, names : Seq(Names)]

ASSUME BoxesAssumption ==
  \A b \in Boxes :
    /\ b.mtd \in Seq(Names) /\ b.blkdevparts \in Seq(Tables) /\ b.disks \in Seq(Tables)
    /\ b.cmdline \in [kernel : Names, root : Names, sub : Names]
    /\ b.kexec => b.cmdline.root # NoDev

NoSub == <<"", 0>>
NoName == <<"", 0>>

(* Names that cmdline_parser.c looks for in pairs: boxes with one image.   *)
NamePairs == <<
  <<<<"kernel", 0>>, <<"dreambox-rootfs", 0>>>>, <<<<"kernel", 0>>, <<"rootfs", 0>>>>,
  <<<<"ekernel", 0>>, <<"rootfs", 0>>>>, <<<<"exkernel", 0>>, <<"exrootfs", 0>>>>,
  <<<<"boot", 0>>, <<"root", 0>>>>, <<<<"linuxkernel", 0>>, <<"linuxrootfs", 0>>>> >>
MtdRootNames == {<<"rootfs", 0>>, <<"rootfs", 2>>, <<"dreambox-rootfs", 0>>, <<"root", 0>>}

Numbers(table, name) == {i \in DOMAIN table.names : table.names[i] = name}
Has(table, name) == Numbers(table, name) # {}

(* The command line tells the root of the running image, unless that is in *)
(* raw flash, and its slot directory, which has the number of the slot.    *)
(* It tells it by the name of its device: one given as PARTUUID= or as a   *)
(* link has no name that ever equals one found in the tables.              *)
ASSUME RunningAssumption ==
  \A b \in Boxes : \A i \in b.images :
    i.slot = b.running =>
      /\ i.sub = NoSub \/ i.sub[2] = i.slot
      /\ IF b.cmdline.sub = NoSub THEN i.root = b.cmdline.root \/ i.root[1] = "mtd"
                                  ELSE i.sub = b.cmdline.sub

(* In raw flash only an image in a slot directory is on "userdata", and    *)
(* none of them is on a partition with the name of an only rootfs.         *)
ASSUME MtdAssumption ==
  \A b \in Boxes : \A i \in b.images : \A k \in DOMAIN b.mtd :
    i.slot = b.running /\ i.root = <<"mtd", k - 1>> =>
      IF b.cmdline.sub = NoSub THEN b.mtd[k] # <<"userdata", 0>>
                               ELSE b.mtd[k] \notin MtdRootNames

(* A box with slot directories has no other partitions for a rootfs; one   *)
(* with kexec has its slots on another than "userdata".                    *)
ASSUME SlotBoxesAssumption ==
  \A b \in Boxes : b.cmdline.sub # NoSub =>
    /\ \A t \in DOMAIN b.blkdevparts :
         /\ \A p \in DOMAIN NamePairs : \/ ~Has(b.blkdevparts[t], NamePairs[p][1])
                                        \/ ~Has(b.blkdevparts[t], NamePairs[p][2])
         /\ b.kexec => \A k \in DOMAIN b.blkdevparts[t].names :
                        b.blkdevparts[t].names[k][1] # "userdata"
    /\ ~b.kexec => \A d \in DOMAIN b.disks : ~Has(b.disks[d], <<"rootfs", 0>>)

(* A slot directory has a name, and who gives the current slot knows it.   *)
ASSUME ArgsAssumption ==
  \A b \in Boxes : \A a \in ArgsOf(b) :
    a.slotname # "" /\ a.currentslot \in {0, b.running}

VARIABLES
  box, args,
  image_type,
  multiboot_partition,
  cur,          (* current_kernel_device, _rootfs_device, _rootfs_sub_dir  *)
  kernel,       (* found_kernel_device, kernel_flash_mode, kernel_device   *)
  rootfs,       (* the same of the rootfs, and rootfs_sub_dir              *)
  wrong_user_mtd,   (* the devices /proc/mtd has shown to be unfit         *)
  mtd_kernel_found,
  chkroot_mode, force_e2_stop, stop_e2_needed,
  n,            (* line of /proc/mtd, or disk, that is read next           *)
  pc

boxVars == <<box, args, image_type>>
found == <<kernel, rootfs>>
mtdVars == <<wrong_user_mtd, mtd_kernel_found>>
modeVars == <<chkroot_mode, force_e2_stop, stop_e2_needed>>
vars == <<boxVars, multiboot_partition, cur, found, mtdVars, modeVars, n, pc>>

NotFound == [found |-> FALSE, mode |-> "unknown", dev |-> NoDev]

(***************************************************************************)
(* read_args() and find_image_files(): args.files are the rootfs and NFI   *)
(* files in the order in which readdir() gives them, and args.small says   *)
(* which of the files are too big for which devices.  The last file of all *)
(* decides on the type of the image and leaves its size in                 *)
(* rootfs_file_stat, also an NFI file, which has a file name of its own.   *)
(***************************************************************************)
Nfi == "image.nfi"

Latest(a, numbers) == IF numbers = {} THEN "none" ELSE a.files[Max(numbers)]
Measured(a) == Latest(a, DOMAIN a.files)
RootfsFile(a) == Latest(a, {i \in DOMAIN a.files : a.files[i] # Nfi})
KernelFile(a) == IF a.kernel_file THEN "kernel.bin" ELSE "none"

TypeOfFile(f) ==
  CASE f = "rootfs.tar.bz2" -> "TAR_BASED"
    [] f = "rootfs.tar.xz" -> "TAR_UBI"
    [] f = "none" -> "none"
    [] OTHER -> "UBI"

Init ==
  /\ box \in Boxes
  /\ args \in ArgsOf(box)
  /\ image_type = TypeOfFile(Measured(args))
  /\ multiboot_partition = args.multi
  /\ cur = [kernel |-> NoDev, root |-> NoDev, sub |-> NoSub]
  /\ kernel = NotFound
  /\ rootfs = [found |-> FALSE, mode |-> "unknown", dev |-> NoDev, sub |-> NoSub]
  /\ wrong_user_mtd = {} /\ mtd_kernel_found = FALSE
  /\ chkroot_mode = FALSE /\ force_e2_stop = args.force /\ stop_e2_needed = TRUE
  /\ n = 1
  /\ pc = "mtd"

user_kernel == args.user_kernel # NoDev
user_rootfs == args.user_rootfs # NoDev
rootfs_filename == RootfsFile(args) # "none"
Slot(i) == <<args.slotname, i>>
Fits(file, dev) == <<file, dev>> \notin args.small
KernelFits(dev) == Fits(KernelFile(args), dev)
RootfsFits(dev) == Fits(Measured(args), dev)

(***************************************************************************)
(* read_mtd_file(), a line at a time.                                      *)
(***************************************************************************)
Reading == pc = "mtd" /\ n <= Len(box.mtd)
Name == box.mtd[n]
Dev == <<"mtd", n - 1>>

NextLine ==
  /\ n' = n + 1
  /\ UNCHANGED <<boxVars, multiboot_partition, cur, mtd_kernel_found, modeVars, pc>>

UserKernelLine == user_kernel /\ args.user_kernel = Dev
UserRootfsLine == ~UserKernelLine /\ user_rootfs /\ args.user_rootfs = Dev

KernelLine ==
  /\ ~UserKernelLine /\ ~UserRootfsLine /\ ~user_kernel
  /\ \/ Name \in {<<"kernel", 0>>, <<"nkernel", 0>>}
     \/ Name = <<"boot", 0>> /\ multiboot_partition = -1
     \/ multiboot_partition \in {1, 2} /\ Name = <<"linuxkernel", multiboot_partition>>

RootfsLine ==
  /\ ~UserKernelLine /\ ~UserRootfsLine /\ ~KernelLine /\ ~user_rootfs
  /\ \/ Name \in {<<"rootfs", 0>>, <<"dreambox-rootfs", 0>>, <<"root", 0>>}
     \/ Name = <<"userdata", 0>> /\ multiboot_partition # -1

MtdUserKernel ==
  /\ Reading
  /\ UserKernelLine
  /\ IF KernelFits(Dev) /\ Name \in {<<"kernel", 0>>, <<"nkernel", 0>>, <<"kernel", 2>>, <<"boot", 0>>}
       THEN /\ kernel' = [found |-> TRUE, mode |-> "MTD", dev |-> Dev]
            /\ UNCHANGED wrong_user_mtd
       ELSE /\ kernel' = [kernel EXCEPT !.dev = Dev]
            /\ wrong_user_mtd' = wrong_user_mtd \union {Dev}
  /\ NextLine /\ UNCHANGED rootfs

MtdUserRootfs ==
  /\ Reading
  /\ UserRootfsLine
  /\ IF RootfsFits(Dev) /\ Name \in {<<"rootfs", 0>>, <<"rootfs", 2>>, <<"dreambox-rootfs", 0>>}
       THEN /\ rootfs' = [rootfs EXCEPT !.found = TRUE, !.mode = "MTD", !.dev = Dev]
            /\ UNCHANGED wrong_user_mtd
       ELSE /\ rootfs' = [rootfs EXCEPT !.dev = Dev]
            /\ wrong_user_mtd' = wrong_user_mtd \union {Dev}
  /\ NextLine /\ UNCHANGED kernel

MtdKernel ==
  /\ Reading
  /\ KernelLine
  /\ kernel' = IF kernel.found THEN kernel
               ELSE IF KernelFits(Dev) THEN [found |-> TRUE, mode |-> "MTD", dev |-> Dev]
               ELSE [kernel EXCEPT !.dev = Dev]
  /\ NextLine /\ UNCHANGED <<rootfs, wrong_user_mtd>>

(* Slots in directories: the partition is unpacked to, not overwritten.    *)
MtdUse(dev) ==
  IF Name = <<"userdata", 0>>
    THEN [found |-> TRUE, mode |-> "TARBZ2_MTD", dev |-> dev,
          sub |-> Slot(multiboot_partition)]
    ELSE [rootfs EXCEPT !.found = TRUE, !.mode = "MTD", !.dev = dev]

(* Mutant: the size of the partition is not looked at.                     *)
MtdRootfsUnmeasured ==
  /\ Reading
  /\ RootfsLine
  /\ rootfs' = IF rootfs.found THEN rootfs ELSE MtdUse(Dev)
  /\ NextLine /\ UNCHANGED <<kernel, wrong_user_mtd>>

MtdRootfs ==
  /\ Reading
  /\ RootfsLine
  /\ rootfs' = IF rootfs.found THEN rootfs
               ELSE IF RootfsFits(Dev) THEN MtdUse(Dev)
               ELSE [rootfs EXCEPT !.dev = Dev]
  /\ NextLine /\ UNCHANGED <<kernel, wrong_user_mtd>>

MtdOther ==
  /\ Reading
  /\ ~UserKernelLine /\ ~UserRootfsLine /\ ~KernelLine /\ ~RootfsLine
  /\ NextLine /\ UNCHANGED <<found, wrong_user_mtd>>

(* The result, also that a device of the user is wrong, is not looked at.  *)
MtdEnd ==
  /\ pc = "mtd" /\ n > Len(box.mtd)
  /\ mtd_kernel_found' = kernel.found
  /\ pc' = "cmdline"
  /\ UNCHANGED <<boxVars, multiboot_partition, cur, found, wrong_user_mtd, modeVars, n>>

(***************************************************************************)
(* readProcCmdline(): what is running.  With -m, boxes that change their   *)
(* root directory at boot do not tell the slot: the user gives it with -c, *)
(* or Enigma2 is stopped in any case.                                      *)
(***************************************************************************)
Chkroot == (box.chkroot \/ args.currentslot # 0) /\ multiboot_partition # -1
CurrentSlot == IF args.currentslot # 0 THEN args.currentslot ELSE 1

(* Mutant: Enigma2 is stopped only if the slots are the same.              *)
ReadProcCmdlineUnforced ==
  /\ pc = "cmdline"
  /\ cur' = [box.cmdline EXCEPT !.sub = IF Chkroot THEN Slot(CurrentSlot) ELSE @]
  /\ chkroot_mode' = Chkroot
  /\ force_e2_stop' = IF Chkroot THEN CurrentSlot = multiboot_partition
                      ELSE force_e2_stop
  /\ n' = 1 /\ pc' = "tables"
  /\ UNCHANGED <<boxVars, multiboot_partition, found, mtdVars, stop_e2_needed>>

ReadProcCmdline ==
  /\ pc = "cmdline"
  /\ cur' = [box.cmdline EXCEPT !.sub = IF Chkroot THEN Slot(CurrentSlot) ELSE @]
  /\ chkroot_mode' = Chkroot
  /\ force_e2_stop' = IF Chkroot
                        THEN args.currentslot \in {0, multiboot_partition}
                        ELSE force_e2_stop
  /\ n' = 1 /\ pc' = "tables"
  /\ UNCHANGED <<boxVars, multiboot_partition, found, mtdVars, stop_e2_needed>>

(***************************************************************************)
(* Partition tables: the numbers of the partitions with a name.            *)
(***************************************************************************)
Use(part, table, numbers) ==
  IF numbers = {} THEN part
  ELSE [part EXCEPT !.found = TRUE, !.mode = "TARBZ2",
                    !.dev = <<table.disk, Max(numbers)>>]

(***************************************************************************)
(* parse_cmdline_partition_table(): blkdevparts=, one table per device.    *)
(***************************************************************************)
Table == box.blkdevparts[n]
UseCurrent == cur.sub # NoSub /\ multiboot_partition = -1

Matching == {i \in DOMAIN NamePairs :
               Has(Table, NamePairs[i][1]) /\ Has(Table, NamePairs[i][2])}

(* The names and, for slots in directories, the directory.                 *)
SlotNames ==
  [kernel |-> <<"linuxkernel", multiboot_partition>>,
   rootfs |-> IF box.flag THEN <<"rootfs", 0>> ELSE <<"userdata", 0>>,
   sub |-> <<"linuxrootfs", multiboot_partition>>]

WantedNames ==
  IF Matching # {} THEN LET p == NamePairs[Min(Matching)]
                        IN [kernel |-> p[1], rootfs |-> p[2], sub |-> rootfs.sub]
                   ELSE SlotNames

AtTable == pc = "tables" /\ n <= Len(box.blkdevparts)

StopReading ==
  /\ n' = Len(box.blkdevparts) + 1
  /\ UNCHANGED <<boxVars, multiboot_partition, cur, mtdVars, modeVars, pc>>

SearchViaPartNames ==
  /\ AtTable
  /\ ~UseCurrent
  /\ Matching # {} \/ cur.sub # NoSub
  /\ kernel' = Use(kernel, Table, Numbers(Table, WantedNames.kernel))
  /\ rootfs' = [Use(rootfs, Table, Numbers(Table, WantedNames.rootfs))
                  EXCEPT !.sub = WantedNames.sub]
  /\ StopReading

NoPartNames ==
  /\ AtTable
  /\ ~UseCurrent
  /\ Matching = {} /\ cur.sub = NoSub
  /\ n' = n + 1
  /\ UNCHANGED <<boxVars, multiboot_partition, cur, found, mtdVars, modeVars, pc>>

(* strstr(): a partition 12 is taken for 1 as well, but what is used are   *)
(* the current devices.                                                    *)
Like(dev, word) ==
  \E i \in DOMAIN Table.names :
    /\ Table.names[i][1] = word
    /\ dev[2] \in {i, i \div 10}

SearchCurrentUsed ==
  /\ AtTable
  /\ UseCurrent
  /\ IF cur.root[1] = Table.disk /\ cur.kernel[1] = Table.disk
       THEN LET k == IF Like(cur.kernel, "linuxkernel")
                       THEN [found |-> TRUE, mode |-> "TARBZ2", dev |-> cur.kernel]
                       ELSE kernel
                r == IF Like(cur.root, "userdata")
                       THEN [rootfs EXCEPT !.found = TRUE, !.mode = "TARBZ2",
                                           !.dev = cur.root]
                       ELSE rootfs
            IN /\ kernel' = k
               /\ rootfs' = IF k.found /\ r.found THEN [r EXCEPT !.sub = cur.sub] ELSE r
       ELSE UNCHANGED found
  /\ StopReading

TablesEnd ==
  /\ pc = "tables" /\ n > Len(box.blkdevparts)
  /\ n' = 1
  /\ pc' = "fdisk?"
  /\ UNCHANGED <<boxVars, multiboot_partition, cur, found, mtdVars, modeVars>>

(***************************************************************************)
(* find_kernel_rootfs_device(): unless both have been found, search the    *)
(* GPTs for them.                                                          *)
(***************************************************************************)
BothFound == kernel.found /\ rootfs.found

StartFdisk ==
  /\ pc = "fdisk?"
  /\ IF BothFound \/ box.kexec
       THEN pc' = "restore" /\ UNCHANGED found
       ELSE /\ kernel' = [kernel EXCEPT !.found = FALSE]
            /\ rootfs' = [rootfs EXCEPT !.found = FALSE]
            /\ pc' = "fdisk"
  /\ UNCHANGED <<boxVars, multiboot_partition, cur, mtdVars, modeVars, n>>

Disk == box.disks[n]
AtDisk == pc = "fdisk" /\ n <= Len(box.disks)

(* gpt_list_table(): hd51 keeps slot 1 in partitions of its own.           *)
GptKernels ==
  IF multiboot_partition = -1 THEN {<<"kernel", 0>>}
  ELSE IF cur.sub = NoSub THEN {<<"kernel", multiboot_partition>>}
  ELSE {<<"linuxkernel", multiboot_partition>>}
         \union (IF multiboot_partition = 1 THEN {<<"linuxkernel", 0>>} ELSE {})

GptRootfs ==
  IF multiboot_partition = -1 THEN {<<"rootfs", 0>>}
  ELSE IF cur.sub = NoSub THEN {<<"rootfs", multiboot_partition>>}
  ELSE {<<"userdata", 0>>}
         \union (IF multiboot_partition = 1 THEN {<<"linuxrootfs", 0>>} ELSE {})

GptSub == IF multiboot_partition # -1 /\ cur.sub # NoSub
            THEN <<"linuxrootfs", multiboot_partition>> ELSE rootfs.sub

Named(names) == UNION {Numbers(Disk, name) : name \in names}

(* The search ends at the first place where both have been met.            *)
FirstBoth(ks, rs) ==
  LET both == {i \in DOMAIN Disk.names :
                 (\E k \in ks : k <= i) /\ (\E r \in rs : r <= i)}
  IN IF both = {} THEN Len(Disk.names) ELSE Min(both)

UpTo(last, numbers) == {i \in numbers : i <= last}

(* "bp30/bp31 partition. These partitions shouldn't be used. Never!"       *)
Forbidden(last) ==
  \E i \in UpTo(last, Named({<<"bp", 30>>, <<"bp", 31>>})) :
    <<Disk.disk, i>> \in {args.user_kernel, args.user_rootfs}

GptSearch ==
  LET ks == Named(GptKernels)
      rs == Named(GptRootfs)
      last == FirstBoth(ks, rs)
  IN [kernels |-> UpTo(last, ks), roots |-> UpTo(last, rs), last |-> last]

NextDisk ==
  /\ n' = n + 1
  /\ UNCHANGED <<boxVars, cur, mtdVars, modeVars, pc>>

(* Disks are read one after the other, whatever was found on the first.    *)
GptFound ==
  /\ AtDisk
  /\ ~Forbidden(GptSearch.last)
  /\ GptSearch.kernels \union GptSearch.roots # {} \/ multiboot_partition # -1
  /\ kernel' = Use(kernel, Disk, GptSearch.kernels)
  /\ rootfs' = [Use(rootfs, Disk, GptSearch.roots) EXCEPT !.sub = GptSub]
  /\ NextDisk /\ UNCHANGED multiboot_partition

GptForbidden ==
  /\ AtDisk
  /\ Forbidden(GptSearch.last)
  /\ pc' = "abort"
  /\ UNCHANGED <<boxVars, multiboot_partition, cur, found, mtdVars, modeVars, n>>

(***************************************************************************)
(* "No matching partition names are found. Use current kernel and rootfs   *)
(* devices": the name of the partition that has the number of the current  *)
(* root, on whatever disk, gives the slot.  The kernel name of a box with  *)
(* slot directories is compared with a device name, which no partition     *)
(* has, unless the command line gave none.                                 *)
(***************************************************************************)
CurrentName ==
  IF cur.root[2] \in DOMAIN Disk.names THEN Disk.names[cur.root[2]] ELSE NoName

CurrentMultiboot ==
  IF cur.sub = NoSub
    THEN IF CurrentName[2] # 0 THEN CurrentName[2] ELSE -1
    ELSE IF CurrentName = <<"linuxrootfs", 0>> THEN 1 ELSE -1

(* Unlike in the search before, names that were not set are compared too:  *)
(* a partition without a name matches, and is flashed if it comes last.    *)
FallbackHd51(word) ==
  IF cur.sub # NoSub /\ CurrentMultiboot = 1 THEN <<word, 0>> ELSE NoName

FallbackKernels ==
  {FallbackHd51("linuxkernel")}
    \union (IF cur.sub = NoSub THEN {<<"kernel", CurrentMultiboot>>}
            ELSE IF cur.kernel = NoDev THEN {NoName} ELSE {})

FallbackRootfs ==
  {FallbackHd51("linuxrootfs"),
   IF cur.sub = NoSub THEN <<"rootfs", CurrentMultiboot>> ELSE <<"userdata", 0>>}

GptFallback ==
  /\ AtDisk
  /\ ~Forbidden(GptSearch.last)
  /\ GptSearch.kernels \union GptSearch.roots = {} /\ multiboot_partition = -1
  /\ IF cur.root[2] = 0 \/ (cur.sub = NoSub /\ CurrentMultiboot = -1)
       THEN UNCHANGED <<multiboot_partition, found>>
       ELSE /\ multiboot_partition' = CurrentMultiboot
            /\ kernel' = Use(kernel, Disk, Named(FallbackKernels))
            /\ rootfs' = [Use(rootfs, Disk, Named(FallbackRootfs))
                            EXCEPT !.sub = IF cur.sub = NoSub THEN @ ELSE cur.sub]
  /\ NextDisk

FdiskEnd ==
  /\ pc = "fdisk" /\ n > Len(box.disks)
  /\ pc' = "restore"
  /\ UNCHANGED <<boxVars, multiboot_partition, cur, found, mtdVars, modeVars, n>>

(* Mutant: a kernel is taken for found whenever the rootfs was.            *)
RestoreMtdKernelAlways ==
  /\ pc = "restore"
  /\ kernel' = [kernel EXCEPT !.found = kernel.found \/ mtd_kernel_found \/ rootfs.found]
  /\ pc' = "user_rootfs"
  /\ UNCHANGED <<boxVars, multiboot_partition, cur, rootfs, mtdVars, modeVars, n>>

RestoreMtdKernel ==
  /\ pc = "restore"
  /\ kernel' = [kernel EXCEPT !.found = kernel.found \/ mtd_kernel_found]
  /\ pc' = "user_rootfs"
  /\ UNCHANGED <<boxVars, multiboot_partition, cur, rootfs, mtdVars, modeVars, n>>

(***************************************************************************)
(* The devices of the user, and the modes of chkroot and kexec boxes.      *)
(***************************************************************************)
SlotDirs == cur.sub # NoSub /\ ~args.rootsubdir_check

UserRootfs ==
  /\ pc = "user_rootfs"
  /\ IF ~user_rootfs \/ rootfs.mode \in {"TARBZ2_MTD", "MTD"}
       THEN UNCHANGED rootfs /\ pc' = "user_kernel"
     ELSE IF SlotDirs /\ multiboot_partition = -1
       THEN rootfs' = [rootfs EXCEPT !.found = FALSE] /\ pc' = "check"
     ELSE /\ rootfs' = [found |-> TRUE, mode |-> "TARBZ2", dev |-> args.user_rootfs,
                        sub |-> IF SlotDirs THEN Slot(multiboot_partition) ELSE rootfs.sub]
          /\ pc' = "user_kernel"
  /\ UNCHANGED <<boxVars, multiboot_partition, cur, kernel, mtdVars, modeVars, n>>

(* With kexec the kernel is a file in the slot.                            *)
SlotKernel == <<"zImage", multiboot_partition>>

UserKernel ==
  /\ pc = "user_kernel"
  /\ kernel' = IF user_kernel /\ kernel.mode # "MTD"
                 THEN [found |-> TRUE, mode |-> "TARBZ2",
                       dev |-> IF box.kexec THEN SlotKernel ELSE args.user_kernel]
                 ELSE kernel
  /\ pc' = "chkroot"
  /\ UNCHANGED <<boxVars, multiboot_partition, cur, rootfs, mtdVars, modeVars, n>>

ModeOf ==
  CASE image_type = "TAR_BASED" -> "TARBZ2"
    [] image_type = "TAR_UBI" -> "TARXZ_UBI"
    [] OTHER -> "UBI_LOOP_SUBDIR"

UseChkroot ==
  /\ pc = "chkroot"
  /\ rootfs' = IF chkroot_mode
                 THEN [rootfs EXCEPT !.mode = ModeOf, !.sub = Slot(multiboot_partition)]
                 ELSE rootfs
  /\ pc' = "kexec"
  /\ UNCHANGED <<boxVars, multiboot_partition, cur, kernel, mtdVars, modeVars, n>>

(* Mutant: the slot directory is not set.                                  *)
UseKexecNoSlot ==
  /\ pc = "kexec"
  /\ IF ~box.kexec THEN UNCHANGED found
     ELSE /\ kernel' = IF kernel.found THEN kernel
                       ELSE [found |-> TRUE, mode |-> "TARBZ2", dev |-> SlotKernel]
          /\ rootfs' = IF rootfs.found THEN rootfs
                       ELSE [found |-> TRUE, mode |-> "TARBZ2", dev |-> cur.root,
                             sub |-> rootfs.sub]
  /\ pc' = "stop?"
  /\ UNCHANGED <<boxVars, multiboot_partition, cur, mtdVars, modeVars, n>>

UseKexec ==
  /\ pc = "kexec"
  /\ IF ~box.kexec THEN UNCHANGED found
     ELSE /\ kernel' = IF kernel.found THEN kernel
                       ELSE [found |-> TRUE, mode |-> "TARBZ2", dev |-> SlotKernel]
          /\ rootfs' = IF rootfs.found THEN rootfs
                       ELSE [found |-> TRUE, mode |-> "TARBZ2", dev |-> cur.root,
                             sub |-> IF SlotDirs THEN Slot(multiboot_partition)
                                     ELSE rootfs.sub]
  /\ pc' = "stop?"
  /\ UNCHANGED <<boxVars, multiboot_partition, cur, mtdVars, modeVars, n>>

(* "Flashing currently not running image".  The code compares path names:  *)
(* devices here are those that RunningAssumption gives the same name on    *)
(* the command line and in the tables.                                     *)
NotRunning ==
  IF cur.sub = NoSub THEN rootfs.dev # cur.root /\ rootfs.mode # "MTD"
                     ELSE rootfs.sub # cur.sub

DecideStop ==
  /\ pc = "stop?"
  /\ stop_e2_needed' = (stop_e2_needed /\ ~(NotRunning /\ ~force_e2_stop))
  /\ pc' = "check"
  /\ UNCHANGED <<boxVars, multiboot_partition, cur, found, mtdVars,
                 chkroot_mode, force_e2_stop, n>>

(***************************************************************************)
(* The checks of main(), and check_device_size(), which asks block devices *)
(* only: BLKGETSIZE64 fails for MTD.                                       *)
(***************************************************************************)
Device(dev) ==
  \/ \E d \in DOMAIN box.disks : dev[1] = box.disks[d].disk
                                 /\ dev[2] \in DOMAIN box.disks[d].names
  \/ \E d \in DOMAIN box.blkdevparts : dev[1] = box.blkdevparts[d].disk
                                       /\ dev[2] \in DOMAIN box.blkdevparts[d].names

Asks(part, file) == part.found /\ part.mode = "TARBZ2" /\ file

(* Mutant: a device whose size cannot be read is taken.                    *)
SizesOkUnread ==
  /\ Asks(kernel, args.kernel_file) /\ ~box.kexec => KernelFits(kernel.dev)
  /\ Asks(rootfs, rootfs_filename) => RootfsFits(rootfs.dev)

SizesOk ==
  /\ Asks(kernel, args.kernel_file) /\ ~box.kexec =>
       Device(kernel.dev) /\ KernelFits(kernel.dev)
  /\ Asks(rootfs, rootfs_filename) => Device(rootfs.dev) /\ RootfsFits(rootfs.dev)

Check ==
  /\ pc = "check"
  /\ pc' = IF /\ args.flash_kernel => kernel.found /\ args.kernel_file
              /\ args.flash_rootfs => rootfs.found /\ args.files # <<>>
              /\ SizesOk
             THEN "flash" ELSE "abort"
  /\ UNCHANGED <<boxVars, multiboot_partition, cur, found, mtdVars, modeVars, n>>

Next ==
  \/ MtdUserKernel \/ MtdUserRootfs \/ MtdKernel \/ MtdRootfs \/ MtdOther \/ MtdEnd
  \/ ReadProcCmdline
  \/ SearchViaPartNames \/ NoPartNames \/ SearchCurrentUsed \/ TablesEnd
  \/ StartFdisk \/ GptFound \/ GptForbidden \/ GptFallback \/ FdiskEnd
  \/ RestoreMtdKernel
  \/ UserRootfs \/ UserKernel \/ UseChkroot \/ UseKexec
  \/ DecideStop \/ Check

Spec == Init /\ [][Next]_vars

------------------------------------------------------------------------------

Flashing == pc = "flash"
Modes == {"TARBZ2", "TARBZ2_MTD", "TARXZ_UBI", "UBI_LOOP_SUBDIR"}

(* What is found has a device and a mode; a list has been read to its end  *)
(* before the next step; what passes the checks was asked for and found.   *)
TypeOK ==
  /\ kernel.found => kernel.dev # NoDev /\ kernel.mode \in {"MTD", "TARBZ2"}
  /\ rootfs.found => rootfs.dev # NoDev /\ rootfs.mode \in Modes \union {"MTD"}
  /\ n \in 1 .. Max({Len(box.mtd), Len(box.blkdevparts), Len(box.disks)}) + 1
  /\ Flashing => /\ args.flash_kernel => kernel.found
                 /\ args.flash_rootfs => rootfs.found

(* What the flash job deletes: umount_rootfs() and flash_unpack_rootfs()   *)
(* take a slot directory, or all of the device.  What is to be unpacked is *)
(* mounted first, which fails for the character device of an MTD partition.*)
Whole == rootfs.mode = "MTD" \/ rootfs.sub = NoSub
           \/ (rootfs.mode # "UBI_LOOP_SUBDIR" /\ ~SlotDirs)

Mountable == rootfs.mode \in {"MTD", "TARBZ2_MTD"} \/ rootfs.dev[1] # "mtd"

Erased ==
  IF ~args.flash_rootfs \/ ~Mountable THEN {}
  ELSE {i \in box.images : i.root = rootfs.dev /\ (Whole \/ i.sub = rootfs.sub)}

Running == {i \in box.images : i.slot = box.running}

(* The images the command line speaks of.  A slot of a box with only one   *)
(* image means nothing, and a partition of the user may be a slot itself.  *)
Asked ==
  {i \in box.images :
     /\ user_rootfs => i.root = args.user_rootfs
     /\ args.multi # -1 => \/ i.slot = args.multi
                           \/ box.images = {i}
                           \/ user_rootfs /\ i.sub = NoSub
     /\ args.multi = -1 /\ ~user_rootfs => i \in Running}

(* Two disks with partitions of the same names, as a copied memory card.   *)
Ambiguous == \E c, d \in DOMAIN box.disks :
               c # d /\ box.disks[c].names = box.disks[d].names

(* A partition without a name on some disk, and nothing that keeps the     *)
(* search for current devices from it.                                     *)
UnnamedSearched ==
  /\ args.multi = -1 /\ ~user_rootfs
  /\ \E d \in DOMAIN box.disks : Has(box.disks[d], NoName)

(***************************************************************************)
(* Whatever the sources say, no image is erased but the one asked for, and *)
(* the kernel goes to the same image: a shared partition keeps its other   *)
(* slots.  The user may give that up with -m 0 or by naming a device.      *)
(* Not so where fdisk looks for the current devices and meets a partition  *)
(* without a name: OnlyNamedPartitions.                                    *)
(***************************************************************************)
OnlyAskedImage ==
  Flashing /\ ~args.rootsubdir_check /\ ~Ambiguous /\ ~UnnamedSearched =>
    /\ Erased \subseteq Asked
    /\ args.flash_kernel /\ ~user_kernel /\ ~user_rootfs /\ args.multi # -1 =>
         \A i \in Asked : kernel.dev = i.kernel

(***************************************************************************)
(* The image that is running is erased only after Enigma2 has been stopped *)
(* and the old root left, however the running image was recognised.        *)
(***************************************************************************)
RunningImageStopped ==
  Flashing /\ ~args.rootsubdir_check /\ Running \intersect Erased # {}
    => stop_e2_needed

(***************************************************************************)
(* A device of the user that /proc/mtd has shown to be too small or of     *)
(* another kind is not flashed, though read_mtd_file() is not listened to: *)
(* the later checks refuse it.  (They do not look at nfi images.)          *)
(***************************************************************************)
WrongMtdRefused ==
  Flashing /\ rootfs_filename =>
    /\ args.flash_kernel => kernel.dev \notin wrong_user_mtd
    /\ args.flash_rootfs => rootfs.dev \notin wrong_user_mtd
                            \/ rootfs.mode \in {"TARXZ_UBI", "UBI_LOOP_SUBDIR"}

(***************************************************************************)
(* The files fit on the devices, whichever source has given them and       *)
(* whichever was found first, if the size that was compared is that of the *)
(* rootfs file and not of an NFI file that readdir() gave after it.  The   *)
(* kernel file of a kexec box, and images unpacked from UBI, have no such  *)
(* check.                                                                  *)
(***************************************************************************)
RootfsMeasured ==
  args.flash_rootfs /\ rootfs_filename /\ rootfs.mode \in {"MTD", "TARBZ2", "TARBZ2_MTD"}

FilesFit ==
  Flashing =>
    /\ args.flash_kernel /\ ~box.kexec => KernelFits(kernel.dev)
    /\ RootfsMeasured /\ Measured(args) = RootfsFile(args) =>
         Fits(RootfsFile(args), rootfs.dev)

(***************************************************************************)
(* "Rootfs file (%lld) is bigger than rootfs device(%llu). Aborting"       *)
(* (ofgwrite.c:1699).  Violated: the size is that of an NFI file in the    *)
(* same directory if readdir() gives that last.                            *)
(***************************************************************************)
RootfsFileFits ==
  Flashing /\ RootfsMeasured => Fits(RootfsFile(args), rootfs.dev)

(***************************************************************************)
(* "search also for special rootfs and kernel names", or "Use current      *)
(* kernel and rootfs devices" (fdisk_gpt.c:184, 218): what fdisk finds has *)
(* a name that was looked for.  Violated: the second search compares with  *)
(* names that were not set, and takes a partition that has none.           *)
(***************************************************************************)
OnlyNamedPartitions ==
  Flashing /\ args.flash_rootfs /\ ~user_rootfs =>
    \A d \in DOMAIN box.disks : \A i \in Numbers(box.disks[d], NoName) :
      rootfs.dev # <<box.disks[d].disk, i>>

==============================================================================
