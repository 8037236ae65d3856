--------------------------- MODULE MCDeviceSelect ---------------------------
(* Boxes of the kinds that comments and names in the sources speak of.     *)
EXTENDS DeviceSelect

P(i) == <<"mmcblk0", i>>
Linux(i) == <<"linuxrootfs", i>>
Word(w) == <<w, 0>>

Base ==
  [mtd |-> <<>>, blkdevparts |-> <<>>, disks |-> <<>>, flag |-> FALSE,
   kexec |-> FALSE, chkroot |-> FALSE, running |-> 1, images |-> {},
   cmdline |-> [kernel |-> NoDev, root |-> NoDev, sub |-> NoSub]]

Image(slot, k, r, sub) == [slot |-> slot, kernel |-> k, root |-> r, sub |-> sub]
ImageIn(images, slot) == CHOOSE i \in images : i.slot = slot

(* A box whose command line names the image it runs.                       *)
Box(images, run) ==
  LET i == ImageIn(images, run)
  IN [Base EXCEPT !.running = run, !.images = images,
        !.cmdline = [kernel |-> i.kernel, root |-> i.root, sub |-> i.sub]]

(* One image in raw flash, UBI.                                            *)
MtdBox == [Base EXCEPT
  !.mtd = <<Word("boot-loader"), Word("kernel"), Word("rootfs")>>,
  !.images = {Image(1, <<"mtd", 1>>, <<"mtd", 2>>, NoSub)},
  !.cmdline = [kernel |-> NoDev, root |-> <<"ubi", 0>>, sub |-> NoSub]]

(* sfx6008: slots in directories of a UBI partition.                       *)
SfxBox(run) == [Base EXCEPT
  !.mtd = <<<<"linuxkernel", 1>>, <<"linuxkernel", 2>>, Word("userdata")>>,
  !.running = run,
  !.images = {Image(s, <<"mtd", s - 1>>, <<"mtd", 2>>, Linux(s)) : s \in {1, 2}},
  !.cmdline = [kernel |-> NoDev, root |-> <<"ubi", 0>>, sub |-> Linux(run)]]

(* hd51, h7: slot 1 has a partition, the others share userdata.            *)
Hd51Names == <<Word("boot"), Word("linuxkernel"), Word("linuxrootfs"),
               <<"linuxkernel", 2>>, Word("userdata")>>
Hd51Images == {Image(1, P(2), P(3), Linux(1)), Image(2, P(4), P(5), Linux(2))}
Hd51Box(run) == [Box(Hd51Images, run) EXCEPT
  !.disks = <<[disk |-> "mmcblk0", names |-> Hd51Names]>>]

(* h17, hd60: all slots share userdata.                                    *)
SharedNames == <<Word("boot"), <<"linuxkernel", 1>>, <<"linuxkernel", 2>>, Word("userdata")>>
SharedImages == {Image(s, P(s + 1), P(4), Linux(s)) : s \in {1, 2}}
H17Box(run) == [Box(SharedImages, run) EXCEPT
  !.disks = <<[disk |-> "mmcblk0", names |-> SharedNames]>>]
Hd60Box(run) == [Box(SharedImages, run) EXCEPT
  !.blkdevparts = <<[disk |-> "mmcblk1", names |-> <<Word("data")>>],
                    [disk |-> "mmcblk0", names |-> SharedNames]>>]
FlagBox(run) == [Box(SharedImages, run) EXCEPT
  !.flag = TRUE,
  !.blkdevparts = <<[disk |-> "mmcblk0", names |-> [SharedNames EXCEPT ![4] = Word("rootfs")]]>>]

(* A kernel and a rootfs partition for each slot.                          *)
PairNames == <<<<"kernel", 1>>, <<"rootfs", 1>>, <<"kernel", 2>>, <<"rootfs", 2>>>>
PairImages == {Image(s, P(2 * s - 1), P(2 * s), NoSub) : s \in {1, 2}}
PairBox(run, second) == [Box(PairImages, run) EXCEPT
  !.disks = <<[disk |-> "mmcblk0", names |-> PairNames],
              [disk |-> "mmcblk1", names |-> second]>>,
  !.images = @ \union (IF second = PairNames
     THEN {Image(3, <<"mmcblk1", 1>>, <<"mmcblk1", 2>>, NoSub)} ELSE {})]

(* solo4k: one image, and partitions never to be touched.                  *)
SoloBox == [Box({Image(1, P(2), P(3), NoSub)}, 1) EXCEPT
  !.disks = <<[disk |-> "mmcblk0",
               names |-> <<<<"bp", 30>>, Word("kernel"), Word("rootfs")>>]>>]

(* With the partition table on the command line; it lists two devices.     *)
SoloParts == [Box({Image(1, P(2), P(3), NoSub)}, 1) EXCEPT
  !.blkdevparts = <<[disk |-> "mmcblk1", names |-> <<Word("data")>>],
                    [disk |-> "mmcblk0", names |-> <<Word("boot"), Word("kernel"), Word("rootfs")>>]>>]

(* Kernels are files in the slots and started by kexec.                    *)
KexecImages == {Image(s, <<"zImage", s>>, P(1), Linux(s)) : s \in {1, 2}}
KexecBox(run) == [Box(KexecImages, run) EXCEPT
  !.kexec = TRUE, !.disks = <<[disk |-> "mmcblk0", names |-> <<Word("rootfs")>>]>>]

(* dm900: the root directory is changed at boot, the command line does not *)
(* tell the slot.                                                          *)
DmBox(run) == [Base EXCEPT
  !.chkroot = TRUE, !.running = run,
  !.disks = <<[disk |-> "mmcblk0", names |-> <<Word("kernel"), Word("dreambox-rootfs")>>]>>,
  !.images = {Image(s, P(1), P(2), Linux(s)) : s \in {1, 2}},
  !.cmdline = [kernel |-> P(1), root |-> P(2), sub |-> NoSub]]

(* A memory card with an image in a partition without a name, in a box     *)
(* whose slots share userdata, and such a partition behind the slots.      *)
NoNameImage(disk, i) == Image(3, <<disk, i>>, <<disk, i>>, NoSub)
CardBox(run) == [H17Box(run) EXCEPT
  !.disks = @ \o <<[disk |-> "mmcblk1", names |-> <<NoName>>]>>,
  !.images = @ \union {NoNameImage("mmcblk1", 1)}]
TailBox(run) == [Box(PairImages \union {NoNameImage("mmcblk0", 5)}, run) EXCEPT
  !.disks = <<[disk |-> "mmcblk0", names |-> Append(PairNames, NoName)]>>]

MCUnnamedBoxes == UNION {{CardBox(run), TailBox(run)} : run \in {1, 2}}

MCOneImage == {MtdBox, SoloBox, SoloParts}

MCBoxes ==
  MCOneImage \union MCUnnamedBoxes
    \union UNION {{SfxBox(run), Hd51Box(run), H17Box(run), Hd60Box(run),
                   FlagBox(run), PairBox(run, <<Word("data")>>),
                   PairBox(run, PairNames), KexecBox(run), DmBox(run)} : run \in {1, 2}}

Devices(b) ==
  {<<"mtd", i - 1>> : i \in DOMAIN b.mtd}
    \union UNION {{<<t.disk, i>> : i \in DOMAIN t.names} :
                  t \in {b.disks[d] : d \in DOMAIN b.disks}
                        \union {b.blkdevparts[d] : d \in DOMAIN b.blkdevparts}}

(* A user who gives the current slot knows it; the other options are free. *)
(* A file that does not fit is tried with the default options.             *)
MCFiles == {<<>>, <<"rootfs.tar.bz2">>, <<Nfi>>, <<"rootfs.tar.xz">>,
            <<"rootfs.tar.bz2", Nfi>>, <<Nfi, "rootfs.tar.bz2">>}
MCSmall(b) == {{}} \union {{<<f, d>>} : f \in {"kernel.bin", "rootfs.tar.bz2", Nfi},
                                      d \in Devices(b)}

MCArgsOf(b) ==
  {a \in [multi : {-1, 1, 2}, rootsubdir_check : BOOLEAN, force : BOOLEAN,
          currentslot : {0, b.running}, slotname : {"linuxrootfs", "slot"},
          user_kernel : {NoDev} \union Devices(b),
          user_rootfs : {NoDev} \union Devices(b),
          flash_kernel : BOOLEAN, flash_rootfs : BOOLEAN, kernel_file : BOOLEAN,
          files : MCFiles, small : MCSmall(b)] :
     /\ a.flash_kernel \/ a.flash_rootfs
     /\ a.user_kernel # NoDev => a.flash_kernel
     /\ a.user_rootfs # NoDev => a.flash_rootfs
     /\ a.user_kernel = NoDev \/ a.user_rootfs = NoDev
     /\ a.rootsubdir_check => a.multi = -1
     /\ a.slotname = "slot" \/ a.force => a.currentslot = 0
     /\ a.slotname = "slot" => ~a.force
     /\ a.small # {} \/ ~a.kernel_file \/ Len(a.files) = 2
          => /\ a.slotname = "linuxrootfs" /\ ~a.force
             /\ a.files \notin {<<>>, <<"rootfs.tar.xz">>}
     /\ \A big \in a.small : big[1] \in {KernelFile(a)} \union {a.files[i] : i \in DOMAIN a.files}}
==============================================================================
