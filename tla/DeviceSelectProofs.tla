-------------------------- MODULE DeviceSelectProofs --------------------------
(***************************************************************************)
(* Proofs about the devices that main() selects, for every box and every   *)
(* command line.                                                           *)
(***************************************************************************)
EXTENDS DeviceSelect, TLAPS

(* The kernel's device: what the mode says of it, whichever source it is   *)
(* from.  A device of /proc/mtd has been measured and was not refused: it  *)
(* is not too small for the kernel file, and for the rootfs not for the    *)
(* file whose size was read last.                                          *)
KernelOk(k, a, kexec, wrong) ==
  /\ DOMAIN k = {"found", "mode", "dev"}
  /\ k.found \in BOOLEAN
  /\ k.mode \in {"unknown", "MTD", "TARBZ2"}
  /\ k.found => k.mode # "unknown"
  /\ k.mode # "unknown" => k.dev # NoDev
  /\ k.mode = "MTD" => <<KernelFile(a), k.dev>> \notin a.small /\ k.dev \notin wrong
  /\ k.mode = "TARBZ2" /\ kexec => k.dev \notin wrong

(* The same of the rootfs; the modes of a box with chkroot are set last.   *)
RootfsOk(r, a, wrong) ==
  /\ DOMAIN r = {"found", "mode", "dev", "sub"}
  /\ r.found \in BOOLEAN
  /\ r.mode \in Modes \union {"MTD", "unknown"}
  /\ r.found => r.mode # "unknown" /\ r.dev # NoDev
  /\ r.mode \in {"MTD", "TARBZ2_MTD"} => /\ <<Measured(a), r.dev>> \notin a.small
                                         /\ r.dev \notin wrong

(* While /proc/mtd is read, all devices are of lines that have been read,  *)
(* and a device of the user is used for nothing else.                      *)
Seen(dev, i) == \E j \in 1 .. i - 1 : dev = <<"mtd", j - 1>>

LinesOk(k, r, a, wrong, i) ==
  /\ k.mode # "unknown" => k.found
  /\ k.found => Seen(k.dev, i) /\ (a.user_kernel # NoDev => k.dev = a.user_kernel)
  /\ r.mode # "unknown" => r.found
  /\ r.found => Seen(r.dev, i) /\ (a.user_rootfs # NoDev => r.dev = a.user_rootfs)
  /\ \A dev \in wrong : Seen(dev, i)

Lens == {Len(box.mtd), Len(box.blkdevparts), Len(box.disks)}

(* What the last checks have made sure of.                                 *)
Checked ==
  /\ args.flash_kernel => kernel.found /\ args.kernel_file
  /\ args.flash_rootfs => rootfs.found /\ args.files # <<>>
  /\ SizesOk

SelectInv ==
  /\ box \in Boxes
  /\ n \in 1 .. Max(Lens) + 1
  /\ KernelOk(kernel, args, box.kexec, wrong_user_mtd)
  /\ RootfsOk(rootfs, args, wrong_user_mtd)
  /\ \A dev \in wrong_user_mtd : dev[1] = "mtd"
  /\ pc = "mtd" => LinesOk(kernel, rootfs, args, wrong_user_mtd, n)
  /\ mtd_kernel_found \in BOOLEAN /\ (mtd_kernel_found => kernel.mode # "unknown")
  /\ pc \notin {"mtd", "cmdline"} /\ box.kexec => cur.root # NoDev
  /\ Flashing => Checked

------------------------------------------------------------------------------
(* The longest of the three lists.                                         *)
LEMMA MaxOfThree ==
  ASSUME NEW a \in Nat, NEW b \in Nat, NEW c \in Nat
  PROVE  /\ Max({a, b, c}) \in Nat
         /\ a <= Max({a, b, c}) /\ b <= Max({a, b, c}) /\ c <= Max({a, b, c})
<1>1. \E x \in {a, b, c} : \A y \in {a, b, c} : x >= y
  OBVIOUS
<1>2. Max({a, b, c}) \in {a, b, c} /\ \A y \in {a, b, c} : Max({a, b, c}) >= y
  BY <1>1 DEF Max
<1> QED
  BY <1>2

(* The lists have lengths.                                                 *)
LEMMA LensType ==
  ASSUME box \in Boxes
  PROVE  /\ Len(box.mtd) \in Nat /\ Len(box.blkdevparts) \in Nat /\ Len(box.disks) \in Nat
         /\ Max(Lens) \in Nat
         /\ Len(box.mtd) <= Max(Lens) /\ Len(box.blkdevparts) <= Max(Lens)
         /\ Len(box.disks) <= Max(Lens)
<1>1. Len(box.mtd) \in Nat /\ Len(box.blkdevparts) \in Nat /\ Len(box.disks) \in Nat
  BY BoxesAssumption
<1> QED
  BY <1>1, MaxOfThree DEF Lens

(* A disk of a table is named, and not like a device of /proc/mtd.         *)
LEMMA DiskName ==
  ASSUME box \in Boxes
  PROVE  /\ \A i \in 1 .. Len(box.disks) : box.disks[i].disk \notin {"", "mtd"}
         /\ \A i \in 1 .. Len(box.blkdevparts) : box.blkdevparts[i].disk \notin {"", "mtd"}
<1>1. \A t \in Tables : t.disk \notin {"", "mtd"}
  BY DEF Tables
<1>2. /\ \A i \in 1 .. Len(box.disks) : box.disks[i] \in Tables
      /\ \A i \in 1 .. Len(box.blkdevparts) : box.blkdevparts[i] \in Tables
  BY BoxesAssumption
<1> QED
  BY <1>1, <1>2

(* A device of a table is not one of /proc/mtd, and it is one.             *)
LEMMA TableDevice ==
  ASSUME NEW disk, disk \notin {"", "mtd"}, NEW i, NEW wrong,
         \A dev \in wrong : dev[1] = "mtd"
  PROVE  <<disk, i>> # NoDev /\ <<disk, i>> \notin wrong
BY DEF NoDev

(* Nor is any other device that has the name of a disk.                    *)
LEMMA OnDisk ==
  ASSUME NEW dev, dev[1] \notin {"", "mtd"}, NEW wrong, \A x \in wrong : x[1] = "mtd"
  PROVE  dev # NoDev /\ dev \notin wrong
<1>1. NoDev[1] = ""
  BY DEF NoDev
<1> QED
  BY <1>1

(* Whatever else the record holds, it is then found on the table.          *)
LEMMA PartOnTable ==
  ASSUME NEW d, d # NoDev, NEW wrong, d \notin wrong, NEW a, NEW kexec
  PROVE  /\ \A k : KernelOk(k, a, kexec, wrong) =>
              KernelOk([k EXCEPT !.found = TRUE, !.mode = "TARBZ2", !.dev = d], a, kexec, wrong)
         /\ \A r : RootfsOk(r, a, wrong) =>
              RootfsOk([r EXCEPT !.found = TRUE, !.mode = "TARBZ2", !.dev = d], a, wrong)
<1>1. ASSUME NEW k, KernelOk(k, a, kexec, wrong),
             NEW x, x = [k EXCEPT !.found = TRUE, !.mode = "TARBZ2", !.dev = d]
      PROVE  KernelOk(x, a, kexec, wrong)
  <2>1. DOMAIN x = DOMAIN k /\ x.found = TRUE /\ x.mode = "TARBZ2" /\ x.dev = d
    BY <1>1 DEF KernelOk
  <2> QED
    BY <1>1, <2>1 DEF KernelOk
<1>2. ASSUME NEW r, RootfsOk(r, a, wrong),
             NEW x, x = [r EXCEPT !.found = TRUE, !.mode = "TARBZ2", !.dev = d]
      PROVE  RootfsOk(x, a, wrong)
  <2>1. DOMAIN x = DOMAIN r /\ x.found = TRUE /\ x.mode = "TARBZ2" /\ x.dev = d
    BY <1>2 DEF RootfsOk
  <2> QED
    BY <1>2, <2>1 DEF RootfsOk, Modes
<1> QED
  BY <1>1, <1>2

(* The last partition with a name, or what was found before.               *)
LEMMA UsesPart ==
  ASSUME NEW table, NEW numbers, table.disk \notin {"", "mtd"}, NEW wrong, NEW a, NEW kexec,
         \A dev \in wrong : dev[1] = "mtd"
  PROVE  /\ \A k : KernelOk(k, a, kexec, wrong) =>
                   /\ KernelOk(Use(k, table, numbers), a, kexec, wrong)
                   /\ k.mode # "unknown" => Use(k, table, numbers).mode # "unknown"
         /\ \A r : RootfsOk(r, a, wrong) => RootfsOk(Use(r, table, numbers), a, wrong)
<1> DEFINE d == <<table.disk, Max(numbers)>>
<1>1. d # NoDev /\ d \notin wrong
  BY TableDevice
<1>2. CASE numbers = {}
  BY <1>2 DEF Use
<1>3. CASE numbers # {}
  <2>1. \A part : Use(part, table, numbers) =
                  [part EXCEPT !.found = TRUE, !.mode = "TARBZ2", !.dev = d]
    BY <1>3 DEF Use
  <2> HIDE DEF d
  <2>2. \A k : KernelOk(k, a, kexec, wrong) =>
          [k EXCEPT !.found = TRUE, !.mode = "TARBZ2", !.dev = d].mode = "TARBZ2"
    BY DEF KernelOk
  <2> QED
    <3>1. \A k : KernelOk(k, a, kexec, wrong) =>
            KernelOk([k EXCEPT !.found = TRUE, !.mode = "TARBZ2", !.dev = d], a, kexec, wrong)
      BY <1>1, PartOnTable
    <3>2. \A r : RootfsOk(r, a, wrong) =>
            RootfsOk([r EXCEPT !.found = TRUE, !.mode = "TARBZ2", !.dev = d], a, wrong)
      BY <1>1, PartOnTable
    <3>3. ASSUME NEW k, KernelOk(k, a, kexec, wrong)
          PROVE  /\ KernelOk(Use(k, table, numbers), a, kexec, wrong)
                 /\ Use(k, table, numbers).mode = "TARBZ2"
      <4> DEFINE u == [k EXCEPT !.found = TRUE, !.mode = "TARBZ2", !.dev = d]
      <4>1. Use(k, table, numbers) = u
        BY <2>1
      <4>2. KernelOk(u, a, kexec, wrong) /\ u.mode = "TARBZ2"
        BY <2>2, <3>1, <3>3
      <4> QED
        BY <4>1, <4>2
    <3>4. ASSUME NEW r, RootfsOk(r, a, wrong)
          PROVE  RootfsOk(Use(r, table, numbers), a, wrong)
      BY <2>1, <3>2, <3>4
    <3> QED
      BY <3>3, <3>4
<1> QED
  BY <1>2, <1>3

(* Changing the directory alone changes nothing else.                      *)
LEMMA SubOk ==
  ASSUME NEW a, NEW wrong, NEW r, RootfsOk(r, a, wrong), NEW sub
  PROVE  RootfsOk([r EXCEPT !.sub = sub], a, wrong)
<1> DEFINE x == [r EXCEPT !.sub = sub]
<1>1. DOMAIN x = DOMAIN r /\ x.found = r.found /\ x.mode = r.mode /\ x.dev = r.dev
  BY DEF RootfsOk
<1> HIDE DEF x
<1>2. RootfsOk(x, a, wrong)
  BY <1>1 DEF RootfsOk
<1> QED
  BY <1>2 DEF x

------------------------------------------------------------------------------
(* Before the first line nothing is found.                                 *)
LEMMA SelectInit == Init => SelectInv
<1> SUFFICES ASSUME Init PROVE SelectInv
  OBVIOUS
<1>1. box \in Boxes /\ n = 1 /\ pc = "mtd" /\ wrong_user_mtd = {} /\ mtd_kernel_found = FALSE
  BY DEF Init
<1>2. /\ DOMAIN kernel = {"found", "mode", "dev"} /\ kernel.found = FALSE
      /\ kernel.mode = "unknown"
  BY DEF Init, NotFound
<1>3. /\ DOMAIN rootfs = {"found", "mode", "dev", "sub"} /\ rootfs.found = FALSE
      /\ rootfs.mode = "unknown"
  BY DEF Init
<1>4. KernelOk(kernel, args, box.kexec, wrong_user_mtd)
  BY <1>2 DEF KernelOk
<1>5. RootfsOk(rootfs, args, wrong_user_mtd)
  BY <1>3 DEF RootfsOk
<1>6. LinesOk(kernel, rootfs, args, wrong_user_mtd, n)
  BY <1>1, <1>2, <1>3 DEF LinesOk
<1>7. n \in 1 .. Max(Lens) + 1
  BY <1>1, LensType
<1>8. ~Flashing /\ \A dev \in wrong_user_mtd : dev[1] = "mtd"
  BY <1>1 DEF Flashing
<1> QED
  BY <1>1, <1>4, <1>5, <1>6, <1>7, <1>8 DEF SelectInv

(* The line read now is none of those read before.                         *)
LEMMA NewLine ==
  ASSUME NEW i \in Nat \ {0}
  PROVE  /\ ~Seen(<<"mtd", i - 1>>, i) /\ Seen(<<"mtd", i - 1>>, i + 1)
         /\ \A dev : Seen(dev, i) => Seen(dev, i + 1)
         /\ <<"mtd", i - 1>> # NoDev /\ <<"mtd", i - 1>>[1] = "mtd"
<1>1. ~Seen(<<"mtd", i - 1>>, i)
  BY DEF Seen
<1>2. Seen(<<"mtd", i - 1>>, i + 1)
  <2>1. i \in 1 .. (i + 1) - 1
    OBVIOUS
  <2> QED
    BY <2>1 DEF Seen
<1>3. \A dev : Seen(dev, i) => Seen(dev, i + 1)
  BY DEF Seen
<1> QED
  BY <1>1, <1>2, <1>3 DEF NoDev

(* A device of the line read now is refused: those found stay found.       *)
LEMMA LineWrong ==
  ASSUME NEW k, NEW r, NEW a, NEW kexec, NEW wrong, NEW i \in Nat, NEW d,
         KernelOk(k, a, kexec, wrong), RootfsOk(r, a, wrong), LinesOk(k, r, a, wrong, i),
         ~Seen(d, i)
  PROVE  KernelOk(k, a, kexec, wrong \union {d}) /\ RootfsOk(r, a, wrong \union {d})
<1>1. (k.mode # "unknown" => k.dev # d) /\ (r.mode # "unknown" => r.dev # d)
  BY DEF LinesOk
<1> QED
  BY <1>1 DEF KernelOk, RootfsOk

(* A line of /proc/mtd.                                                    *)
MtdLine == MtdUserKernel \/ MtdUserRootfs \/ MtdKernel \/ MtdRootfs \/ MtdOther

(* A line in other words: what is found stays, or it is the line's device. *)
LineStep(d) ==
  /\ \/ wrong_user_mtd' = wrong_user_mtd
     \/ wrong_user_mtd' = wrong_user_mtd \union {d}
  /\ \/ kernel' = kernel
     \/ /\ ~kernel.found /\ <<KernelFile(args), d>> \notin args.small
        /\ kernel' = [found |-> TRUE, mode |-> "MTD", dev |-> d]
        /\ user_kernel => d = args.user_kernel
        /\ wrong_user_mtd' = wrong_user_mtd
     \/ ~kernel.found /\ kernel' = [kernel EXCEPT !.dev = d]
  /\ \/ rootfs' = rootfs
     \/ /\ ~rootfs.found /\ <<Measured(args), d>> \notin args.small
        /\ \/ rootfs' = [rootfs EXCEPT !.found = TRUE, !.mode = "MTD", !.dev = d]
           \/ \E sub : rootfs' = [found |-> TRUE, mode |-> "TARBZ2_MTD", dev |-> d, sub |-> sub]
        /\ user_rootfs => d = args.user_rootfs
        /\ wrong_user_mtd' = wrong_user_mtd
     \/ ~rootfs.found /\ rootfs' = [rootfs EXCEPT !.dev = d]

(* Each kind of line is such a step: the user's devices are met once.      *)
LEMMA LinesStep ==
  ASSUME MtdLine, NEW d, d = Dev, ~Seen(d, n),
         LinesOk(kernel, rootfs, args, wrong_user_mtd, n)
  PROVE  LineStep(d)
<1>1. CASE MtdUserKernel
  <2>1. args.user_kernel = d /\ user_kernel
    BY <1>1 DEF MtdUserKernel, UserKernelLine
  <2>2. ~kernel.found
    BY <2>1 DEF LinesOk, user_kernel
  <2> QED
    BY <1>1, <2>1, <2>2 DEF MtdUserKernel, KernelFits, Fits, LineStep
<1>2. CASE MtdUserRootfs
  <2>1. args.user_rootfs = d /\ user_rootfs
    BY <1>2 DEF MtdUserRootfs, UserRootfsLine
  <2>2. ~rootfs.found
    BY <2>1 DEF LinesOk, user_rootfs
  <2> QED
    BY <1>2, <2>1, <2>2 DEF MtdUserRootfs, RootfsFits, Fits, LineStep
<1>3. CASE MtdKernel
  BY <1>3 DEF MtdKernel, KernelLine, KernelFits, Fits, LineStep
<1>4. CASE MtdRootfs
  BY <1>4 DEF MtdRootfs, MtdUse, RootfsLine, RootfsFits, Fits, LineStep
<1>5. CASE MtdOther
  BY <1>5 DEF MtdOther, found, LineStep
<1> QED
  BY <1>1, <1>2, <1>3, <1>4, <1>5 DEF MtdLine

(* Reading a line keeps the invariant.                                     *)
LEMMA LineNext == SelectInv /\ MtdLine => SelectInv'
<1> SUFFICES ASSUME SelectInv, MtdLine PROVE SelectInv'
  OBVIOUS
<1> DEFINE d == <<"mtd", n - 1>>
           w == wrong_user_mtd
<1>1. /\ pc = "mtd" /\ pc' = "mtd" /\ n' = n + 1 /\ n <= Len(box.mtd)
      /\ box' = box /\ args' = args /\ mtd_kernel_found' = mtd_kernel_found
  BY DEF MtdLine, MtdUserKernel, MtdUserRootfs, MtdKernel, MtdRootfs, MtdOther, Reading,
         NextLine, boxVars
<1>2. /\ box \in Boxes /\ n \in 1 .. Max(Lens) + 1
      /\ KernelOk(kernel, args, box.kexec, w) /\ RootfsOk(rootfs, args, w)
      /\ \A dev \in w : dev[1] = "mtd"
      /\ LinesOk(kernel, rootfs, args, w, n)
      /\ mtd_kernel_found \in BOOLEAN /\ (mtd_kernel_found => kernel.mode # "unknown")
  BY <1>1 DEF SelectInv
<1>3. n \in Nat \ {0} /\ Lens' = Lens /\ n' \in 1 .. Max(Lens) + 1
  BY <1>1, <1>2, LensType DEF Lens
<1>4. /\ ~Seen(d, n) /\ Seen(d, n + 1) /\ d # NoDev /\ d[1] = "mtd"
      /\ \A dev : Seen(dev, n) => Seen(dev, n + 1)
  BY <1>3, NewLine
<1>5. LineStep(d)
  BY <1>1, <1>2, <1>4, LinesStep DEF Dev
<1> HIDE DEF d
<1>6. \A dev \in w' : dev[1] = "mtd" /\ Seen(dev, n')
  BY <1>1, <1>2, <1>4, <1>5 DEF LineStep, LinesOk
<1>7. KernelOk(kernel, args, box.kexec, w') /\ RootfsOk(rootfs, args, w')
  BY <1>2, <1>3, <1>4, <1>5, LineWrong DEF LineStep
<1>8. /\ KernelOk(kernel', args, box.kexec, w')
      /\ kernel'.mode # "unknown" => kernel'.found
      /\ kernel'.found => /\ Seen(kernel'.dev, n')
                          /\ args.user_kernel # NoDev => kernel'.dev = args.user_kernel
      /\ kernel.mode # "unknown" => kernel'.mode # "unknown"
  <2>1. CASE kernel' = kernel
    BY <1>1, <1>2, <1>4, <1>7, <2>1 DEF LinesOk
  <2>2. CASE kernel' # kernel
    <3>1. ~kernel.found /\ kernel.mode = "unknown"
      BY <1>2, <1>5, <2>2 DEF LineStep, LinesOk
    <3>2. CASE /\ kernel' = [found |-> TRUE, mode |-> "MTD", dev |-> d]
               /\ <<KernelFile(args), d>> \notin args.small
               /\ user_kernel => d = args.user_kernel
               /\ w' = w
      <4>1. KernelOk(kernel', args, box.kexec, w) /\ kernel'.found = TRUE /\ kernel'.dev = d
        <5>1. /\ DOMAIN kernel' = {"found", "mode", "dev"} /\ kernel'.found = TRUE
              /\ kernel'.mode = "MTD" /\ kernel'.dev = d
          BY <3>2
        <5> QED
          BY <1>2, <1>4, <3>2, <5>1 DEF KernelOk, LinesOk
      <4> QED
        BY <1>1, <1>4, <3>1, <3>2, <4>1 DEF user_kernel
    <3>3. CASE kernel' = [kernel EXCEPT !.dev = d]
      <4>1. kernel'.found = FALSE /\ kernel'.mode = "unknown" /\ DOMAIN kernel' = DOMAIN kernel
        BY <1>2, <3>1, <3>3 DEF KernelOk
      <4>2. KernelOk(kernel', args, box.kexec, w')
        BY <1>2, <4>1 DEF KernelOk
      <4> QED
        BY <3>1, <4>1, <4>2
    <3> QED
      BY <1>5, <2>2, <3>2, <3>3 DEF LineStep
  <2> QED
    BY <2>1, <2>2
<1>9. /\ RootfsOk(rootfs', args, w')
      /\ rootfs'.mode # "unknown" => rootfs'.found
      /\ rootfs'.found => /\ Seen(rootfs'.dev, n')
                          /\ args.user_rootfs # NoDev => rootfs'.dev = args.user_rootfs
  <2>1. CASE rootfs' = rootfs
    BY <1>1, <1>2, <1>4, <1>7, <2>1 DEF LinesOk
  <2>2. CASE rootfs' # rootfs
    <3>1. ~rootfs.found /\ rootfs.mode = "unknown"
      BY <1>2, <1>5, <2>2 DEF LineStep, LinesOk
    <3>2. CASE /\ \/ rootfs' = [rootfs EXCEPT !.found = TRUE, !.mode = "MTD", !.dev = d]
                  \/ \E sub : rootfs' = [found |-> TRUE, mode |-> "TARBZ2_MTD", dev |-> d,
                                         sub |-> sub]
               /\ <<Measured(args), d>> \notin args.small
               /\ user_rootfs => d = args.user_rootfs
               /\ w' = w
      <4>1. RootfsOk(rootfs', args, w) /\ rootfs'.found = TRUE /\ rootfs'.dev = d
        <5>1. CASE rootfs' = [rootfs EXCEPT !.found = TRUE, !.mode = "MTD", !.dev = d]
          <6>1. /\ DOMAIN rootfs' = DOMAIN rootfs /\ rootfs'.found = TRUE
                /\ rootfs'.mode = "MTD" /\ rootfs'.dev = d
            BY <1>2, <5>1 DEF RootfsOk
          <6> QED
            BY <1>2, <1>4, <3>2, <6>1 DEF RootfsOk, LinesOk
        <5>2. CASE \E sub : rootfs' = [found |-> TRUE, mode |-> "TARBZ2_MTD", dev |-> d,
                                      sub |-> sub]
          <6>1. /\ DOMAIN rootfs' = {"found", "mode", "dev", "sub"} /\ rootfs'.found = TRUE
                /\ rootfs'.mode = "TARBZ2_MTD" /\ rootfs'.dev = d
            BY <5>2
          <6> QED
            BY <1>2, <1>4, <3>2, <6>1 DEF RootfsOk, LinesOk, Modes
        <5> QED
          BY <3>2, <5>1, <5>2
      <4> QED
        BY <1>1, <1>4, <3>2, <4>1 DEF user_rootfs
    <3>3. CASE rootfs' = [rootfs EXCEPT !.dev = d]
      <4>1. rootfs'.found = FALSE /\ rootfs'.mode = "unknown" /\ DOMAIN rootfs' = DOMAIN rootfs
        BY <1>2, <3>1, <3>3 DEF RootfsOk
      <4>2. RootfsOk(rootfs', args, w')
        BY <1>2, <4>1 DEF RootfsOk
      <4> QED
        BY <4>1, <4>2
    <3> QED
      BY <1>5, <2>2, <3>2, <3>3 DEF LineStep
  <2> QED
    BY <2>1, <2>2
<1>10. LinesOk(kernel', rootfs', args, w', n')
  BY <1>6, <1>8, <1>9 DEF LinesOk
<1> QED
  BY <1>1, <1>2, <1>3, <1>6, <1>8, <1>9, <1>10 DEF SelectInv, Flashing

------------------------------------------------------------------------------
(* A later step keeps the invariant if it keeps what is known of the       *)
(* kernel and the rootfs, and does not come to the end.                    *)
LEMMA SelectKept ==
  ASSUME SelectInv, UNCHANGED <<boxVars, mtdVars, cur>>,
         pc \notin {"mtd", "cmdline"}, pc' \notin {"mtd", "flash"},
         n' \in 1 .. Max(Lens) + 1,
         KernelOk(kernel', args, box.kexec, wrong_user_mtd),
         kernel.mode # "unknown" => kernel'.mode # "unknown",
         RootfsOk(rootfs', args, wrong_user_mtd)
  PROVE  SelectInv'
<1>1. Lens' = Lens
  BY DEF Lens, boxVars
<1>2. box' = box /\ args' = args /\ wrong_user_mtd' = wrong_user_mtd
      /\ mtd_kernel_found' = mtd_kernel_found /\ cur' = cur
  BY DEF boxVars, mtdVars
<1> QED
  BY <1>1, <1>2 DEF SelectInv, Flashing

(* The steps that only go on.                                              *)
LEMMA GoesOn ==
  SelectInv /\ (MtdEnd \/ NoPartNames \/ TablesEnd \/ GptForbidden \/ FdiskEnd \/ DecideStop)
    => SelectInv'
<1> SUFFICES ASSUME SelectInv,
                    MtdEnd \/ NoPartNames \/ TablesEnd \/ GptForbidden \/ FdiskEnd \/ DecideStop
             PROVE  SelectInv'
  OBVIOUS
<1>0. box \in Boxes /\ n \in 1 .. Max(Lens) + 1
  BY DEF SelectInv
<1>1. CASE MtdEnd
  <2>1. /\ UNCHANGED <<boxVars, kernel, rootfs, wrong_user_mtd, n>> /\ pc' = "cmdline"
        /\ mtd_kernel_found' = kernel.found
    BY <1>1 DEF MtdEnd, found
  <2>2. Lens' = Lens
    BY <2>1 DEF Lens, boxVars
  <2>3. kernel.found \in BOOLEAN /\ (kernel.found => kernel.mode # "unknown")
    BY DEF SelectInv, KernelOk
  <2> QED
    BY <2>1, <2>2, <2>3 DEF SelectInv, Flashing, boxVars
<1>2. CASE NoPartNames \/ TablesEnd \/ GptForbidden \/ FdiskEnd \/ DecideStop
  <2>1. /\ UNCHANGED <<boxVars, mtdVars, cur, kernel, rootfs>>
        /\ pc \notin {"mtd", "cmdline"} /\ pc' \notin {"mtd", "flash"}
        /\ \/ n' \in {n, 1}
           \/ n <= Len(box.blkdevparts) /\ n' = n + 1
    BY <1>2 DEF NoPartNames, TablesEnd, GptForbidden, FdiskEnd, DecideStop, AtTable, AtDisk,
                found, mtdVars
  <2>2. n' \in 1 .. Max(Lens) + 1
    BY <1>0, <2>1, LensType
  <2> QED
    BY <2>1, <2>2, SelectKept DEF SelectInv
<1> QED
  BY <1>1, <1>2

(* The kernel command line tells the root of a box with kexec.             *)
LEMMA CmdlineNext == SelectInv /\ ReadProcCmdline => SelectInv'
<1> SUFFICES ASSUME SelectInv, ReadProcCmdline PROVE SelectInv'
  OBVIOUS
<1>1. /\ UNCHANGED <<boxVars, kernel, rootfs, mtdVars>> /\ pc' = "tables" /\ n' = 1
      /\ \E sub : cur' = [box.cmdline EXCEPT !.sub = sub]
  BY DEF ReadProcCmdline, found
<1>2. Lens' = Lens /\ n' \in 1 .. Max(Lens) + 1
  BY <1>1, LensType DEF Lens, boxVars, SelectInv
<1>3. box.kexec => cur'.root # NoDev
  <2>1. box.cmdline \in [kernel : Names, root : Names, sub : Names]
    BY BoxesAssumption DEF SelectInv
  <2>2. cur'.root = box.cmdline.root
    BY <1>1, <2>1
  <2> QED
    BY <2>2, BoxesAssumption DEF SelectInv
<1> QED
  BY <1>1, <1>2, <1>3 DEF SelectInv, Flashing, boxVars, mtdVars

(* What a table gives for a kernel and for a rootfs, with any directory.   *)
LEMMA TakenFrom ==
  ASSUME NEW table, table.disk \notin {"", "mtd"}, NEW wrong, NEW a, NEW kexec,
         \A dev \in wrong : dev[1] = "mtd",
         NEW k, KernelOk(k, a, kexec, wrong), NEW r, RootfsOk(r, a, wrong),
         NEW ks, NEW rs, NEW sub
  PROVE  /\ KernelOk(Use(k, table, ks), a, kexec, wrong)
         /\ k.mode # "unknown" => Use(k, table, ks).mode # "unknown"
         /\ RootfsOk([Use(r, table, rs) EXCEPT !.sub = sub], a, wrong)
<1>1. \A x : KernelOk(x, a, kexec, wrong) =>
               /\ KernelOk(Use(x, table, ks), a, kexec, wrong)
               /\ x.mode # "unknown" => Use(x, table, ks).mode # "unknown"
  BY UsesPart
<1>2. \A x : RootfsOk(x, a, wrong) => RootfsOk(Use(x, table, rs), a, wrong)
  BY UsesPart
<1> DEFINE u == Use(r, table, rs)
<1>3. RootfsOk(u, a, wrong)
  BY <1>2
<1> HIDE DEF u
<1>4. RootfsOk([u EXCEPT !.sub = sub], a, wrong)
  BY <1>3, SubOk
<1> QED
  BY <1>1, <1>4 DEF u

(* Every table that is read has the name of a disk.                        *)
LEMMA NamedTables ==
  ASSUME SelectInv
  PROVE  /\ AtTable => Table.disk \notin {"", "mtd"}
         /\ AtDisk => Disk.disk \notin {"", "mtd"}
<1>1. box \in Boxes /\ n \in Nat \ {0}
  BY LensType DEF SelectInv
<1>2. AtTable => n \in 1 .. Len(box.blkdevparts)
  BY <1>1, LensType DEF AtTable
<1>3. AtDisk => n \in 1 .. Len(box.disks)
  BY <1>1, LensType DEF AtDisk
<1>4. AtTable => Table.disk \notin {"", "mtd"}
  BY <1>1, <1>2, DiskName DEF Table
<1>5. AtDisk => Disk.disk \notin {"", "mtd"}
  BY <1>1, <1>3, DiskName DEF Disk
<1> QED
  BY <1>4, <1>5

(* The names of a table: what is found then has the name of its disk.      *)
LEMMA NamesNext == SelectInv /\ (SearchViaPartNames \/ GptFound \/ GptFallback) => SelectInv'
<1> SUFFICES ASSUME SelectInv, SearchViaPartNames \/ GptFound \/ GptFallback
             PROVE  SelectInv'
  OBVIOUS
<1> DEFINE w == wrong_user_mtd
<1>1. /\ box \in Boxes /\ n \in 1 .. Max(Lens) + 1
      /\ KernelOk(kernel, args, box.kexec, w) /\ RootfsOk(rootfs, args, w)
      /\ \A dev \in w : dev[1] = "mtd"
  BY DEF SelectInv
<1>2. /\ UNCHANGED <<boxVars, mtdVars, cur>> /\ pc \notin {"mtd", "cmdline"}
      /\ pc' \notin {"mtd", "flash"}
  BY DEF SearchViaPartNames, GptFound, GptFallback, StopReading, NextDisk, AtTable, AtDisk
<1>3. n' \in 1 .. Max(Lens) + 1
  BY <1>1, LensType DEF SearchViaPartNames, GptFound, GptFallback, StopReading, NextDisk,
                        AtTable, AtDisk
<1>4. \/ UNCHANGED found
      \/ \E table, ks, rs, sub : /\ table.disk \notin {"", "mtd"}
                                 /\ kernel' = Use(kernel, table, ks)
                                 /\ rootfs' = [Use(rootfs, table, rs) EXCEPT !.sub = sub]
  <2>1. CASE SearchViaPartNames
    <3>1. Table.disk \notin {"", "mtd"}
      BY <2>1, NamedTables DEF SearchViaPartNames
    <3> QED
      BY <2>1, <3>1 DEF SearchViaPartNames
  <2>2. CASE GptFound
    <3>1. Disk.disk \notin {"", "mtd"}
      BY <2>2, NamedTables DEF GptFound
    <3> QED
      BY <2>2, <3>1 DEF GptFound
  <2>3. CASE GptFallback
    <3>1. Disk.disk \notin {"", "mtd"}
      BY <2>3, NamedTables DEF GptFallback
    <3> QED
      BY <2>3, <3>1 DEF GptFallback, found
  <2> QED
    BY <2>1, <2>2, <2>3
<1>5. /\ KernelOk(kernel', args, box.kexec, w)
      /\ kernel.mode # "unknown" => kernel'.mode # "unknown"
      /\ RootfsOk(rootfs', args, w)
  <2>1. CASE UNCHANGED found
    BY <1>1, <2>1 DEF found
  <2>2. ASSUME NEW table, NEW ks, NEW rs, NEW sub, table.disk \notin {"", "mtd"},
               kernel' = Use(kernel, table, ks),
               rootfs' = [Use(rootfs, table, rs) EXCEPT !.sub = sub]
        PROVE  /\ KernelOk(kernel', args, box.kexec, w)
               /\ kernel.mode # "unknown" => kernel'.mode # "unknown"
               /\ RootfsOk(rootfs', args, w)
    <3>1. /\ KernelOk(Use(kernel, table, ks), args, box.kexec, w)
          /\ kernel.mode # "unknown" => Use(kernel, table, ks).mode # "unknown"
          /\ RootfsOk([Use(rootfs, table, rs) EXCEPT !.sub = sub], args, w)
      BY <1>1, <2>2, TakenFrom
    <3> QED
      BY <2>2, <3>1
  <2> QED
    BY <1>4, <2>1, <2>2
<1> QED
  BY <1>2, <1>3, <1>5, SelectKept

(* The devices of the running image: they are taken if they are on a disk. *)
LEMMA CurrentNext == SelectInv /\ SearchCurrentUsed => SelectInv'
<1> SUFFICES ASSUME SelectInv, SearchCurrentUsed PROVE SelectInv'
  OBVIOUS
<1> DEFINE w == wrong_user_mtd
<1>1. /\ box \in Boxes /\ n \in 1 .. Max(Lens) + 1
      /\ KernelOk(kernel, args, box.kexec, w) /\ RootfsOk(rootfs, args, w)
      /\ \A dev \in w : dev[1] = "mtd"
  BY DEF SelectInv
<1>2. /\ UNCHANGED <<boxVars, mtdVars, cur>> /\ pc = "tables" /\ pc' = "tables"
  BY DEF SearchCurrentUsed, StopReading, AtTable
<1>3. n' \in 1 .. Max(Lens) + 1
  BY <1>1, LensType DEF SearchCurrentUsed, StopReading, AtTable
<1>4. CASE UNCHANGED found
  BY <1>1, <1>2, <1>3, <1>4, SelectKept DEF found
<1>5. CASE cur.root[1] = Table.disk /\ cur.kernel[1] = Table.disk
  <2>1. Table.disk \notin {"", "mtd"}
    BY NamedTables DEF SearchCurrentUsed
  <2>2. /\ cur.root # NoDev /\ cur.root \notin w
        /\ cur.kernel # NoDev /\ cur.kernel \notin w
    <3>1. cur.root[1] \notin {"", "mtd"} /\ cur.kernel[1] \notin {"", "mtd"}
      BY <1>5, <2>1
    <3> QED
      BY <1>1, <3>1, OnDisk
  <2> DEFINE onKernel == [found |-> TRUE, mode |-> "TARBZ2", dev |-> cur.kernel]
             onRootfs == [rootfs EXCEPT !.found = TRUE, !.mode = "TARBZ2", !.dev = cur.root]
  <2>3. /\ kernel' \in {onKernel, kernel}
        /\ \E r \in {onRootfs, rootfs} : rootfs' = r \/ rootfs' = [r EXCEPT !.sub = cur.sub]
    BY <1>5 DEF SearchCurrentUsed
  <2>4. KernelOk(onKernel, args, box.kexec, w) /\ onKernel.mode = "TARBZ2"
    BY <2>2 DEF KernelOk
  <2>5. RootfsOk(onRootfs, args, w)
    <3>1. \A r : RootfsOk(r, args, w) =>
            RootfsOk([r EXCEPT !.found = TRUE, !.mode = "TARBZ2", !.dev = cur.root], args, w)
      BY <2>2, PartOnTable
    <3> QED
      BY <1>1, <3>1
  <2> HIDE DEF onKernel, onRootfs
  <2>6. RootfsOk(rootfs', args, w)
    <3>1. PICK r \in {onRootfs, rootfs} : rootfs' = r \/ rootfs' = [r EXCEPT !.sub = cur.sub]
      BY <2>3
    <3>2. RootfsOk(r, args, w)
      BY <1>1, <2>5, <3>1
    <3>3. RootfsOk([r EXCEPT !.sub = cur.sub], args, w)
      BY <3>2, SubOk
    <3> QED
      BY <3>1, <3>2, <3>3
  <2>7. /\ KernelOk(kernel', args, box.kexec, w)
        /\ kernel.mode # "unknown" => kernel'.mode # "unknown"
    BY <1>1, <2>3, <2>4
  <2> QED
    BY <1>2, <1>3, <2>6, <2>7, SelectKept
<1> QED
  BY <1>4, <1>5 DEF SearchCurrentUsed

------------------------------------------------------------------------------
(* What is left of the search, the user's devices and the box's modes: the *)
(* found devices of main() may change, what is known of them may not.      *)
LEMMA LaterNext ==
  SelectInv /\ (StartFdisk \/ RestoreMtdKernel \/ UserRootfs \/ UserKernel
                  \/ UseChkroot \/ UseKexec)
    => SelectInv'
<1> SUFFICES ASSUME SelectInv,
                    StartFdisk \/ RestoreMtdKernel \/ UserRootfs \/ UserKernel
                      \/ UseChkroot \/ UseKexec
             PROVE  SelectInv'
  OBVIOUS
<1> DEFINE w == wrong_user_mtd
<1>1. /\ box \in Boxes /\ n \in 1 .. Max(Lens) + 1
      /\ KernelOk(kernel, args, box.kexec, w) /\ RootfsOk(rootfs, args, w)
      /\ \A dev \in w : dev[1] = "mtd"
      /\ mtd_kernel_found \in BOOLEAN /\ (mtd_kernel_found => kernel.mode # "unknown")
  BY DEF SelectInv
<1>2. /\ UNCHANGED <<boxVars, mtdVars, cur, n>> /\ pc \notin {"mtd", "cmdline"}
      /\ pc' \notin {"mtd", "flash"}
  BY DEF StartFdisk, RestoreMtdKernel, UserRootfs, UserKernel, UseChkroot, UseKexec
<1>3. n' \in 1 .. Max(Lens) + 1
  BY <1>1, <1>2
<1>4. box.kexec => cur.root # NoDev
  BY <1>2 DEF SelectInv
<1>5. (* The kernel. *)
      /\ KernelOk(kernel', args, box.kexec, w)
      /\ kernel.mode # "unknown" => kernel'.mode # "unknown"
  <2>1. CASE kernel' = kernel
    BY <1>1, <2>1
  <2>2. CASE \E b \in BOOLEAN : /\ kernel' = [kernel EXCEPT !.found = b]
                                /\ b => kernel.mode # "unknown"
    <3>1. PICK b \in BOOLEAN : /\ kernel' = [kernel EXCEPT !.found = b]
                               /\ b => kernel.mode # "unknown"
      BY <2>2
    <3>2. /\ DOMAIN kernel' = DOMAIN kernel /\ kernel'.found = b
          /\ kernel'.mode = kernel.mode /\ kernel'.dev = kernel.dev
      BY <1>1, <3>1 DEF KernelOk
    <3> QED
      BY <1>1, <3>1, <3>2 DEF KernelOk
  <2>3. CASE \E dev : /\ kernel' = [found |-> TRUE, mode |-> "TARBZ2", dev |-> dev]
                      /\ dev # NoDev /\ (box.kexec => dev \notin w)
    <3>1. PICK dev : /\ kernel' = [found |-> TRUE, mode |-> "TARBZ2", dev |-> dev]
                     /\ dev # NoDev /\ (box.kexec => dev \notin w)
      BY <2>3
    <3>2. /\ DOMAIN kernel' = {"found", "mode", "dev"} /\ kernel'.found = TRUE
          /\ kernel'.mode = "TARBZ2" /\ kernel'.dev = dev
      BY <3>1
    <3> QED
      BY <3>1, <3>2 DEF KernelOk
  <2>4. SlotKernel # NoDev /\ SlotKernel \notin w
    <3>1. SlotKernel[1] \notin {"", "mtd"}
      BY DEF SlotKernel
    <3> QED
      BY <1>1, <3>1, OnDisk
  <2>5. CASE StartFdisk
    BY <2>1, <2>2, <2>5 DEF StartFdisk, found
  <2>6. CASE RestoreMtdKernel
    <3>1. kernel.found \in BOOLEAN /\ (kernel.found => kernel.mode # "unknown")
      BY <1>1 DEF KernelOk
    <3>2. kernel' = [kernel EXCEPT !.found = kernel.found \/ mtd_kernel_found]
      BY <2>6 DEF RestoreMtdKernel
    <3>3. (kernel.found \/ mtd_kernel_found) \in BOOLEAN
      OBVIOUS
    <3> QED
      BY <1>1, <2>2, <3>1, <3>2, <3>3
  <2>7. CASE UserKernel
    <3>1. \/ kernel' = kernel
          \/ /\ args.user_kernel # NoDev
             /\ kernel' = [found |-> TRUE, mode |-> "TARBZ2",
                           dev |-> IF box.kexec THEN SlotKernel ELSE args.user_kernel]
      BY <2>7 DEF UserKernel, user_kernel
    <3> QED
      BY <2>1, <2>3, <2>4, <3>1
  <2>8. CASE UseKexec
    BY <2>1, <2>3, <2>4, <2>8 DEF UseKexec, found
  <2>9. CASE UserRootfs \/ UseChkroot
    BY <2>1, <2>9 DEF UserRootfs, UseChkroot
  <2> QED
    BY <2>5, <2>6, <2>7, <2>8, <2>9
<1>6. (* The rootfs. *)
      RootfsOk(rootfs', args, w)
  <2>1. CASE rootfs' = rootfs
    BY <1>1, <2>1
  <2>2. CASE rootfs' = [rootfs EXCEPT !.found = FALSE]
    <3>1. /\ DOMAIN rootfs' = DOMAIN rootfs /\ rootfs'.found = FALSE
          /\ rootfs'.mode = rootfs.mode /\ rootfs'.dev = rootfs.dev
      BY <1>1, <2>2 DEF RootfsOk
    <3> QED
      BY <1>1, <3>1 DEF RootfsOk
  <2>3. CASE \E dev, sub : /\ rootfs' = [found |-> TRUE, mode |-> "TARBZ2", dev |-> dev,
                                         sub |-> sub]
                           /\ dev # NoDev
    <3>1. PICK dev, sub : /\ rootfs' = [found |-> TRUE, mode |-> "TARBZ2", dev |-> dev,
                                        sub |-> sub]
                          /\ dev # NoDev
      BY <2>3
    <3>2. /\ DOMAIN rootfs' = {"found", "mode", "dev", "sub"} /\ rootfs'.found = TRUE
          /\ rootfs'.mode = "TARBZ2" /\ rootfs'.dev = dev
      BY <3>1
    <3> QED
      BY <3>1, <3>2 DEF RootfsOk, Modes
  <2>4. CASE \E mode \in {"TARBZ2", "TARXZ_UBI", "UBI_LOOP_SUBDIR"} : \E sub :
               rootfs' = [rootfs EXCEPT !.mode = mode, !.sub = sub]
    <3>1. PICK mode \in {"TARBZ2", "TARXZ_UBI", "UBI_LOOP_SUBDIR"} :
                 \E sub : rootfs' = [rootfs EXCEPT !.mode = mode, !.sub = sub]
      BY <2>4
    <3>2. /\ DOMAIN rootfs' = DOMAIN rootfs /\ rootfs'.found = rootfs.found
          /\ rootfs'.mode = mode /\ rootfs'.dev = rootfs.dev
      BY <1>1, <3>1 DEF RootfsOk
    <3> QED
      BY <1>1, <3>2 DEF RootfsOk, Modes
  <2>5. CASE StartFdisk
    BY <2>1, <2>2, <2>5 DEF StartFdisk, found
  <2>6. CASE UserRootfs
    BY <2>1, <2>2, <2>3, <2>6 DEF UserRootfs, user_rootfs
  <2>7. CASE UseChkroot
    <3>1. ModeOf \in {"TARBZ2", "TARXZ_UBI", "UBI_LOOP_SUBDIR"}
      BY DEF ModeOf
    <3>2. \/ rootfs' = rootfs
          \/ rootfs' = [rootfs EXCEPT !.mode = ModeOf, !.sub = Slot(multiboot_partition)]
      BY <2>7 DEF UseChkroot
    <3> QED
      BY <2>1, <2>4, <3>1, <3>2
  <2>8. CASE UseKexec
    BY <1>4, <2>1, <2>3, <2>8 DEF UseKexec, found
  <2>9. CASE RestoreMtdKernel \/ UserKernel
    BY <2>1, <2>9 DEF RestoreMtdKernel, UserKernel
  <2> QED
    BY <2>5, <2>6, <2>7, <2>8, <2>9
<1> QED
  BY <1>2, <1>3, <1>5, <1>6, SelectKept

(* The last checks: only what has passed them is flashed.                  *)
LEMMA CheckNext == SelectInv /\ Check => SelectInv'
<1> SUFFICES ASSUME SelectInv, Check PROVE SelectInv'
  OBVIOUS
<1>1. /\ UNCHANGED <<boxVars, cur, kernel, rootfs, mtdVars, n>>
      /\ pc = "check" /\ pc' = IF Checked THEN "flash" ELSE "abort"
  BY DEF Check, Checked, found
<1>2. Checked' = Checked /\ Lens' = Lens
  BY <1>1 DEF Checked, SizesOk, Asks, Device, KernelFits, RootfsFits, Fits,
              rootfs_filename, Lens, boxVars
<1>3. pc' # "mtd" /\ (pc' = "flash" => Checked)
  BY <1>1
<1> QED
  BY <1>1, <1>2, <1>3 DEF SelectInv, Flashing, boxVars, mtdVars

(* Every step keeps the invariant.                                         *)
LEMMA SelectNext == SelectInv /\ [Next]_vars => SelectInv'
<1> SUFFICES ASSUME SelectInv, [Next]_vars PROVE SelectInv'
  OBVIOUS
<1>1. CASE Next
  BY <1>1, LineNext, GoesOn, CmdlineNext, NamesNext, CurrentNext, LaterNext, CheckNext
     DEF Next, MtdLine
<1>2. CASE UNCHANGED vars
  <2>1. UNCHANGED <<box, args, cur, kernel, rootfs, wrong_user_mtd, mtd_kernel_found, n, pc>>
    BY <1>2 DEF vars, boxVars, found, mtdVars
  <2>2. Checked' = Checked /\ Lens' = Lens
    BY <2>1 DEF Checked, SizesOk, Asks, Device, KernelFits, RootfsFits, Fits,
                rootfs_filename, Lens
  <2> QED
    BY <2>1, <2>2 DEF SelectInv, Flashing
<1> QED
  BY <1>1, <1>2

(***************************************************************************)
(* What main() knows of the devices, from the options to the flash job: a  *)
(* device that is found has a mode; one of /proc/mtd fits and has not been *)
(* refused; what is flashed has passed the checks.                         *)
(***************************************************************************)
THEOREM SelectInductive == Spec => []SelectInv
<1> QED
  BY SelectInit, SelectNext, PTL DEF Spec

(***************************************************************************)
(* What is found has a device and a mode, lists are read to their ends,    *)
(* and what passes the checks was found, for every box and command line.   *)
(***************************************************************************)
THEOREM TypeCorrect == Spec => []TypeOK
<1>1. SelectInv => TypeOK
  <2> SUFFICES ASSUME SelectInv PROVE TypeOK
    OBVIOUS
  <2>1. kernel.found => kernel.dev # NoDev /\ kernel.mode \in {"MTD", "TARBZ2"}
    BY DEF SelectInv, KernelOk
  <2>2. rootfs.found => rootfs.dev # NoDev /\ rootfs.mode \in Modes \union {"MTD"}
    BY DEF SelectInv, RootfsOk
  <2>3. n \in 1 .. Max({Len(box.mtd), Len(box.blkdevparts), Len(box.disks)}) + 1
    BY DEF SelectInv, Lens
  <2>4. Flashing => /\ args.flash_kernel => kernel.found
                    /\ args.flash_rootfs => rootfs.found
    BY DEF SelectInv, Checked
  <2> QED
    BY <2>1, <2>2, <2>3, <2>4 DEF TypeOK
<1> QED
  BY <1>1, SelectInductive, PTL

(***************************************************************************)
(* The kernel file fits on its device, and so does the rootfs file if its  *)
(* size is the one that was compared, whichever source has given them:     *)
(* either /proc/mtd was read when they were taken, or check_device_size()  *)
(* has asked the block device at the end.  With an NFI file that readdir() *)
(* gives after the rootfs file nothing is known of the latter.             *)
(***************************************************************************)
THEOREM FilesMeasured == Spec => []FilesFit
<1>1. SelectInv => FilesFit
  <2> SUFFICES ASSUME SelectInv, Flashing PROVE FilesFit
    BY DEF FilesFit
  <2>1. Checked /\ KernelOk(kernel, args, box.kexec, wrong_user_mtd)
                /\ RootfsOk(rootfs, args, wrong_user_mtd)
    BY DEF SelectInv
  <2>2. ASSUME args.flash_kernel, ~box.kexec PROVE KernelFits(kernel.dev)
    <3>1. kernel.found /\ args.kernel_file /\ kernel.mode \in {"MTD", "TARBZ2"}
      BY <2>1, <2>2 DEF Checked, KernelOk
    <3>2. CASE kernel.mode = "MTD"
      BY <2>1, <3>2 DEF KernelOk, KernelFits, Fits
    <3>3. CASE kernel.mode = "TARBZ2"
      BY <2>1, <2>2, <3>1, <3>3 DEF Checked, SizesOk, Asks
    <3> QED
      BY <3>1, <3>2, <3>3
  <2>3. ASSUME RootfsMeasured PROVE RootfsFits(rootfs.dev)
    <3>1. /\ args.flash_rootfs /\ rootfs_filename
          /\ rootfs.mode \in {"MTD", "TARBZ2", "TARBZ2_MTD"}
      BY <2>3 DEF RootfsMeasured
    <3>2. rootfs.found
      BY <2>1, <3>1 DEF Checked
    <3>3. CASE rootfs.mode \in {"MTD", "TARBZ2_MTD"}
      BY <2>1, <3>3 DEF RootfsOk, RootfsFits, Fits
    <3>4. CASE rootfs.mode = "TARBZ2"
      BY <2>1, <3>1, <3>2, <3>4 DEF Checked, SizesOk, Asks
    <3> QED
      BY <3>1, <3>3, <3>4
  <2> QED
    BY <2>2, <2>3 DEF FilesFit, RootfsFits
<1> QED
  BY <1>1, SelectInductive, PTL

(***************************************************************************)
(* A device of the user that /proc/mtd has shown to be unfit is not        *)
(* flashed: it keeps no mode of /proc/mtd, and as a block device it has no *)
(* size.                                                                   *)
(***************************************************************************)
THEOREM WrongMtd == Spec => []WrongMtdRefused
<1>1. SelectInv => WrongMtdRefused
  <2> SUFFICES ASSUME SelectInv, Flashing, rootfs_filename PROVE WrongMtdRefused
    BY DEF WrongMtdRefused
  <2>1. /\ Checked /\ KernelOk(kernel, args, box.kexec, wrong_user_mtd)
        /\ RootfsOk(rootfs, args, wrong_user_mtd) /\ box \in Boxes
        /\ \A dev \in wrong_user_mtd : dev[1] = "mtd"
    BY DEF SelectInv
  <2>2. ASSUME NEW dev, Device(dev) PROVE dev \notin wrong_user_mtd
    <3>1. dev[1] \notin {"", "mtd"}
      <4>1. CASE \E d \in DOMAIN box.disks : dev[1] = box.disks[d].disk
        <5>1. DOMAIN box.disks = 1 .. Len(box.disks)
          BY <2>1, BoxesAssumption
        <5> QED
          BY <2>1, <4>1, <5>1, DiskName
      <4>2. CASE \E d \in DOMAIN box.blkdevparts : dev[1] = box.blkdevparts[d].disk
        <5>1. DOMAIN box.blkdevparts = 1 .. Len(box.blkdevparts)
          BY <2>1, BoxesAssumption
        <5> QED
          BY <2>1, <4>2, <5>1, DiskName
      <4> QED
        BY <2>2, <4>1, <4>2 DEF Device
    <3> QED
      BY <2>1, <3>1
  <2>3. ASSUME args.flash_kernel PROVE kernel.dev \notin wrong_user_mtd
    <3>1. kernel.found /\ args.kernel_file /\ kernel.mode \in {"MTD", "TARBZ2"}
      BY <2>1, <2>3 DEF Checked, KernelOk
    <3>2. CASE kernel.mode = "MTD" \/ box.kexec
      BY <2>1, <3>1, <3>2 DEF KernelOk
    <3>3. CASE kernel.mode = "TARBZ2" /\ ~box.kexec
      BY <2>1, <2>2, <3>1, <3>3 DEF Checked, SizesOk, Asks
    <3> QED
      BY <3>1, <3>2, <3>3
  <2>4. ASSUME args.flash_rootfs, rootfs.mode \notin {"TARXZ_UBI", "UBI_LOOP_SUBDIR"}
        PROVE  rootfs.dev \notin wrong_user_mtd
    <3>1. rootfs.found /\ rootfs.mode \in {"TARBZ2", "TARBZ2_MTD", "MTD"}
      BY <2>1, <2>4 DEF Checked, RootfsOk, Modes
    <3>2. CASE rootfs.mode \in {"MTD", "TARBZ2_MTD"}
      BY <2>1, <3>2 DEF RootfsOk
    <3>3. CASE rootfs.mode = "TARBZ2"
      BY <2>1, <2>2, <3>1, <3>3 DEF Checked, SizesOk, Asks
    <3> QED
      BY <3>1, <3>2, <3>3
  <2> QED
    BY <2>3, <2>4 DEF WrongMtdRefused
<1> QED
  BY <1>1, SelectInductive, PTL
------------------------------------------------------------------------------
(***************************************************************************)
(* Enigma2 is stopped.  At the end main() compares devices and directories *)
(* that six sources have given, and the modes say what the comparison is   *)
(* worth: what each of the sources leaves behind is the invariant.         *)
(***************************************************************************)
Early == {"mtd", "cmdline", "tables", "fdisk?"}

(* -m is overwritten only when it was not given, and only by fdisk, which  *)
(* a box with kexec does not use.                                          *)
MultiInv ==
  /\ args.multi # -1 \/ pc \in Early => multiboot_partition = args.multi
  /\ pc = "fdisk" => ~box.kexec

(* What is running, and when the slot is not known, Enigma2 is stopped.    *)
CurInv ==
  pc \notin {"mtd", "cmdline"} =>
    /\ cur = [box.cmdline EXCEPT !.sub = IF chkroot_mode THEN Slot(CurrentSlot) ELSE @]
    /\ chkroot_mode => /\ args.multi # -1
                       /\ args.currentslot \in {0, args.multi} => force_e2_stop

(* A mode of /proc/mtd tells the name of the partition.                    *)
NamedFor(mode) == IF mode = "MTD" THEN MtdRootNames ELSE {<<"userdata", 0>>}

MtdInv ==
  rootfs.mode \in {"MTD", "TARBZ2_MTD"} =>
    \E k \in DOMAIN box.mtd : /\ rootfs.dev = <<"mtd", k - 1>>
                              /\ box.mtd[k] \in NamedFor(rootfs.mode)

(* On a box with slot directories a partition is found with a directory,   *)
(* but for one found without its kernel, which fdisk drops again.          *)
SubInv ==
  /\ ~args.rootsubdir_check /\ box.cmdline.sub # NoSub
  /\ rootfs.found /\ rootfs.mode # "MTD"
  /\ kernel.found \/ box.kexec \/ pc \notin {"tables", "fdisk?"}
  => rootfs.sub # NoSub

UnpackModes == {"TARBZ2", "TARXZ_UBI", "UBI_LOOP_SUBDIR"}
AfterChkroot == {"kexec", "stop?", "check", "flash"}

(* With chkroot it is the directory of -m, whoever has given the device.   *)
ChkrootInv ==
  pc \in AfterChkroot /\ chkroot_mode /\ rootfs.found /\ ~args.rootsubdir_check =>
    rootfs.mode \in UnpackModes /\ rootfs.sub = Slot(multiboot_partition)

Decided == {"check", "flash", "abort"}

DecisionInv ==
  /\ pc \notin Decided => stop_e2_needed
  /\ pc \in {"check", "flash"} /\ (force_e2_stop \/ ~NotRunning) => stop_e2_needed

StopInv ==
  /\ args \in ArgsOf(box)
  /\ MultiInv /\ CurInv /\ MtdInv /\ SubInv /\ ChkrootInv /\ DecisionInv

(* The actions that leave the rootfs alone, and those that do not.         *)
RootfsLeft ==
  \/ MtdUserKernel \/ MtdKernel \/ MtdOther \/ MtdEnd
  \/ ReadProcCmdline \/ NoPartNames \/ TablesEnd
  \/ GptForbidden \/ FdiskEnd \/ RestoreMtdKernel
  \/ UserKernel \/ DecideStop \/ Check

RootfsTouched ==
  \/ MtdUserRootfs \/ MtdRootfs
  \/ SearchViaPartNames \/ SearchCurrentUsed
  \/ StartFdisk \/ GptFound \/ GptFallback
  \/ UserRootfs \/ UseChkroot \/ UseKexec

LEMMA NextKinds == Next => RootfsLeft \/ RootfsTouched
BY DEF Next, RootfsLeft, RootfsTouched

(* The order of the steps.                                                 *)
LEMMA Frame ==
  ASSUME Next
  PROVE  /\ box' = box /\ args' = args
         /\ pc = "mtd" => pc' \in {"mtd", "cmdline"}
         /\ pc' = "mtd" => pc = "mtd"
         /\ pc' = "cmdline" => pc = "mtd"
         /\ pc' \in Early => pc \in Early
         /\ pc = "cmdline" => ReadProcCmdline
         /\ pc' = "fdisk" => pc = "fdisk" \/ StartFdisk
         /\ pc' \notin Decided => pc \notin Decided
<1>1. CASE RootfsLeft
  BY <1>1 DEF RootfsLeft, MtdUserKernel, MtdKernel, MtdOther, MtdEnd, ReadProcCmdline,
       NoPartNames, TablesEnd, GptForbidden, FdiskEnd, RestoreMtdKernel, UserKernel,
       DecideStop, Check, Reading, NextLine, AtTable, AtDisk, boxVars, Early, Decided
<1>2. CASE RootfsTouched
  BY <1>2 DEF RootfsTouched, MtdUserRootfs, MtdRootfs, SearchViaPartNames, SearchCurrentUsed,
       StartFdisk, GptFound, GptFallback, UserRootfs, UseChkroot, UseKexec, Reading,
       NextLine, AtTable, AtDisk, StopReading, NextDisk, boxVars, Early, Decided
<1> QED
  BY <1>1, <1>2, NextKinds

(* The only steps that change the slot, the knowledge of what runs, and    *)
(* the decision.                                                           *)
LEMMA Setters ==
  ASSUME Next
  PROVE  /\ GptFallback \/ multiboot_partition' = multiboot_partition
         /\ ReadProcCmdline \/ UNCHANGED <<cur, chkroot_mode, force_e2_stop>>
         /\ DecideStop \/ stop_e2_needed' = stop_e2_needed
<1>1. CASE RootfsLeft
  BY <1>1 DEF RootfsLeft, MtdUserKernel, MtdKernel, MtdOther, MtdEnd, ReadProcCmdline,
       NoPartNames, TablesEnd, GptForbidden, FdiskEnd, RestoreMtdKernel, UserKernel,
       DecideStop, Check, NextLine, modeVars
<1>2. CASE RootfsTouched
  BY <1>2 DEF RootfsTouched, MtdUserRootfs, MtdRootfs, SearchViaPartNames, SearchCurrentUsed,
       StartFdisk, GptFound, GptFallback, UserRootfs, UseChkroot, UseKexec,
       NextLine, StopReading, NextDisk, modeVars
<1> QED
  BY <1>1, <1>2, NextKinds

(* Before the first line.                                                  *)
LEMMA StopInit == Init => StopInv
<1> SUFFICES ASSUME Init PROVE StopInv
  OBVIOUS
<1>1. /\ args \in ArgsOf(box) /\ multiboot_partition = args.multi /\ pc = "mtd"
      /\ rootfs.found = FALSE /\ rootfs.mode = "unknown" /\ stop_e2_needed = TRUE
  BY DEF Init
<1> QED
  BY <1>1 DEF StopInv, MultiInv, CurInv, MtdInv, SubInv, ChkrootInv, DecisionInv, Early,
              AfterChkroot, Decided

(* The slot.                                                               *)
LEMMA MultiNext == MultiInv /\ Next => MultiInv'
<1> SUFFICES ASSUME MultiInv, Next PROVE MultiInv'
  OBVIOUS
<1>1. /\ box' = box /\ args' = args /\ (pc' \in Early => pc \in Early)
      /\ pc' = "fdisk" => pc = "fdisk" \/ StartFdisk
  BY Frame
<1>2. StartFdisk /\ pc' = "fdisk" => ~box.kexec
  BY DEF StartFdisk
<1>3. CASE multiboot_partition' = multiboot_partition
  BY <1>1, <1>2, <1>3 DEF MultiInv
<1>4. CASE GptFallback
  <2>1. multiboot_partition = -1 /\ pc = "fdisk" /\ pc' = "fdisk"
    BY <1>4 DEF GptFallback, AtDisk, NextDisk
  <2>2. args.multi = -1
    BY <2>1 DEF MultiInv
  <2> QED
    BY <1>1, <1>2, <2>1, <2>2 DEF MultiInv, Early
<1> QED
  BY <1>3, <1>4, Setters

(* What is running.                                                        *)
LEMMA CurNext == MultiInv /\ CurInv /\ Next => CurInv'
<1> SUFFICES ASSUME MultiInv, CurInv, Next PROVE CurInv'
  OBVIOUS
<1>1. /\ box' = box /\ args' = args
      /\ pc = "mtd" => pc' \in {"mtd", "cmdline"}
      /\ pc = "cmdline" => ReadProcCmdline
  BY Frame
<1>2. CASE ReadProcCmdline
  <2>1. /\ pc = "cmdline"
        /\ cur' = [box.cmdline EXCEPT !.sub = IF chkroot_mode' THEN Slot(CurrentSlot) ELSE @]
        /\ chkroot_mode' => /\ multiboot_partition # -1
                            /\ args.currentslot \in {0, multiboot_partition} => force_e2_stop'
    BY <1>2 DEF ReadProcCmdline, Chkroot
  <2>2. multiboot_partition = args.multi
    BY <2>1 DEF MultiInv, Early
  <2>3. \A i : Slot(i)' = Slot(i)
    BY <1>1 DEF Slot
  <2>4. CurrentSlot' = CurrentSlot
    BY <1>1 DEF CurrentSlot
  <2> QED
    BY <1>1, <2>1, <2>2, <2>3, <2>4 DEF CurInv
<1>3. CASE UNCHANGED <<cur, chkroot_mode, force_e2_stop>>
  <2>1. \A i : Slot(i)' = Slot(i)
    BY <1>1 DEF Slot
  <2>2. CurrentSlot' = CurrentSlot
    BY <1>1 DEF CurrentSlot
  <2> QED
    BY <1>1, <1>2, <1>3, <2>1, <2>2 DEF CurInv
<1> QED
  BY <1>2, <1>3, Setters
(* A directory has a name, so that a slot is always one.                   *)
LEMMA SlotNamed ==
  ASSUME box \in Boxes, args \in ArgsOf(box)
  PROVE  \A i : Slot(i) # NoSub
<1>1. args.slotname # ""
  BY ArgsAssumption, Zenon
<1>2. ASSUME NEW i PROVE Slot(i) # NoSub
  BY <1>1, Zenon DEF Slot, NoSub
<1> QED
  BY <1>2

(* What is known of the running image, in the terms of the box.            *)
LEMMA CurKnown ==
  ASSUME SelectInv, StopInv, pc \notin {"mtd", "cmdline"}
  PROVE  /\ cur.root = box.cmdline.root
         /\ cur.sub = IF chkroot_mode THEN Slot(CurrentSlot) ELSE box.cmdline.sub
         /\ box.cmdline.sub # NoSub => cur.sub # NoSub
<1>1. cur = [box.cmdline EXCEPT !.sub = IF chkroot_mode THEN Slot(CurrentSlot) ELSE @]
  BY DEF StopInv, CurInv
<1>2. box \in Boxes /\ box.cmdline \in [kernel : Names, root : Names, sub : Names]
  BY BoxesAssumption DEF SelectInv
<1>3. /\ cur.root = box.cmdline.root
      /\ cur.sub = IF chkroot_mode THEN Slot(CurrentSlot) ELSE box.cmdline.sub
  BY <1>1, <1>2
<1>4. Slot(CurrentSlot) # NoSub
  BY <1>2, SlotNamed DEF StopInv
<1> QED
  BY <1>3, <1>4

(* Every table that is read is one of the box.                             *)
LEMMA ReadTables ==
  ASSUME SelectInv
  PROVE  /\ AtTable => n \in DOMAIN box.blkdevparts
         /\ AtDisk => n \in DOMAIN box.disks
         /\ Reading => n \in DOMAIN box.mtd
<1>1. /\ box \in Boxes /\ n \in Nat \ {0}
      /\ Len(box.mtd) \in Nat /\ Len(box.blkdevparts) \in Nat /\ Len(box.disks) \in Nat
  BY LensType DEF SelectInv
<1>2. /\ DOMAIN box.mtd = 1 .. Len(box.mtd)
      /\ DOMAIN box.blkdevparts = 1 .. Len(box.blkdevparts)
      /\ DOMAIN box.disks = 1 .. Len(box.disks)
  BY <1>1, BoxesAssumption
<1> QED
  BY <1>1, <1>2 DEF AtTable, AtDisk, Reading

(* A rootfs of a table: what is not found there stays as it was.           *)
FromTable(u, r, numbers, sub) ==
  /\ u.sub = sub
  /\ numbers = {} => u.found = r.found /\ u.mode = r.mode /\ u.dev = r.dev
  /\ numbers # {} => u.found = TRUE /\ u.mode = "TARBZ2"

LEMMA UsesRoot ==
  ASSUME NEW r, NEW a, NEW wrong, RootfsOk(r, a, wrong), NEW table, NEW numbers, NEW sub
  PROVE  FromTable([Use(r, table, numbers) EXCEPT !.sub = sub], r, numbers, sub)
<1> DEFINE u == [Use(r, table, numbers) EXCEPT !.sub = sub]
<1>1. DOMAIN r = {"found", "mode", "dev", "sub"}
  BY DEF RootfsOk
<1>2. CASE numbers = {}
  <2>1. Use(r, table, numbers) = r
    BY <1>2 DEF Use
  <2>2. u.sub = sub /\ u.found = r.found /\ u.mode = r.mode /\ u.dev = r.dev
    BY <1>1, <2>1
  <2> QED
    BY <1>2, <2>2 DEF FromTable
<1>3. CASE numbers # {}
  <2> DEFINE d == <<table.disk, Max(numbers)>>
             x == [r EXCEPT !.found = TRUE, !.mode = "TARBZ2", !.dev = d]
  <2>1. Use(r, table, numbers) = x
    BY <1>3 DEF Use
  <2> HIDE DEF d
  <2>2. DOMAIN x = DOMAIN r /\ x.found = TRUE /\ x.mode = "TARBZ2"
    BY <1>1
  <2> HIDE DEF x
  <2>3. u.sub = sub /\ u.found = x.found /\ u.mode = x.mode
    BY <1>1, <2>1, <2>2
  <2> QED
    BY <1>3, <2>2, <2>3 DEF FromTable
<1> QED
  BY <1>2, <1>3

(* A step that touches the rootfs keeps its mode and its device, or it     *)
(* comes from another source than /proc/mtd, or it is a line of it.        *)
LEMMA RootfsSteps ==
  ASSUME SelectInv, RootfsTouched, ~MtdUserRootfs, ~MtdRootfs
  PROVE  \/ rootfs'.mode = rootfs.mode /\ rootfs'.dev = rootfs.dev
         \/ rootfs'.mode \in UnpackModes
<1>1. /\ RootfsOk(rootfs, args, wrong_user_mtd)
      /\ DOMAIN rootfs = {"found", "mode", "dev", "sub"}
  BY DEF SelectInv, RootfsOk
<1>2. CASE rootfs' = rootfs
  BY <1>2
<1>3. ASSUME NEW table, NEW numbers, NEW sub,
             rootfs' = [Use(rootfs, table, numbers) EXCEPT !.sub = sub]
      PROVE  \/ rootfs'.mode = rootfs.mode /\ rootfs'.dev = rootfs.dev
             \/ rootfs'.mode = "TARBZ2"
  <2>1. FromTable([Use(rootfs, table, numbers) EXCEPT !.sub = sub], rootfs, numbers, sub)
    BY <1>1, UsesRoot
  <2>2. FromTable(rootfs', rootfs, numbers, sub)
    BY <1>3, <2>1
  <2> QED
    BY <2>2 DEF FromTable
<1>4. CASE SearchViaPartNames
  BY <1>3, <1>4 DEF SearchViaPartNames, UnpackModes
<1>5. CASE GptFound
  BY <1>3, <1>5 DEF GptFound, UnpackModes
<1>6. CASE GptFallback
  BY <1>2, <1>3, <1>6 DEF GptFallback, UnpackModes, found
<1>7. CASE SearchCurrentUsed
  <2> DEFINE r == [rootfs EXCEPT !.found = TRUE, !.mode = "TARBZ2", !.dev = cur.root]
  <2>1. \E x \in {r, rootfs} : rootfs' = x \/ rootfs' = [x EXCEPT !.sub = cur.sub]
    BY <1>7 DEF SearchCurrentUsed, found
  <2>2. DOMAIN r = DOMAIN rootfs /\ r.mode = "TARBZ2"
    BY <1>1
  <2> HIDE DEF r
  <2>3. \A x \in {r, rootfs} : /\ [x EXCEPT !.sub = cur.sub].mode = x.mode
                               /\ [x EXCEPT !.sub = cur.sub].dev = x.dev
    BY <1>1, <2>2
  <2> QED
    BY <2>1, <2>2, <2>3 DEF UnpackModes
<1>8. CASE StartFdisk
  BY <1>1, <1>2, <1>8 DEF StartFdisk, found
<1>9. CASE UserRootfs
  BY <1>1, <1>9 DEF UserRootfs, UnpackModes
<1>10. CASE UseChkroot
  BY <1>1, <1>10 DEF UseChkroot, ModeOf, UnpackModes
<1>11. CASE UseKexec
  BY <1>2, <1>11 DEF UseKexec, UnpackModes, found
<1> QED
  BY <1>4, <1>5, <1>6, <1>7, <1>8, <1>9, <1>10, <1>11 DEF RootfsTouched

(* The partition whose mode is of /proc/mtd.                               *)
LEMMA MtdNext == SelectInv /\ MtdInv /\ Next => MtdInv'
<1> SUFFICES ASSUME SelectInv, MtdInv, Next PROVE MtdInv'
  OBVIOUS
<1>1. box' = box /\ DOMAIN rootfs = {"found", "mode", "dev", "sub"}
  BY Frame DEF SelectInv, RootfsOk
<1>2. CASE rootfs'.mode = rootfs.mode /\ rootfs'.dev = rootfs.dev
  BY <1>1, <1>2 DEF MtdInv
<1>3. CASE rootfs'.mode \in UnpackModes
  BY <1>3 DEF MtdInv, UnpackModes
<1>4. CASE MtdUserRootfs \/ MtdRootfs
  <2>1. n \in DOMAIN box.mtd /\ pc = "mtd"
    BY <1>4, ReadTables DEF MtdUserRootfs, MtdRootfs, Reading
  <2>2. rootfs.mode # "unknown" => rootfs.found /\ (user_rootfs => rootfs.dev = args.user_rootfs)
    BY <2>1 DEF SelectInv, LinesOk, user_rootfs
  <2>3. ASSUME NEW mode \in {"MTD", "TARBZ2_MTD"}, rootfs'.mode = mode, rootfs'.dev = Dev,
               Name \in NamedFor(mode)
        PROVE  MtdInv'
    BY <1>1, <2>1, <2>3 DEF MtdInv, Dev, Name
  <2>4. CASE MtdUserRootfs
    <3>1. CASE /\ Name \in {<<"rootfs", 0>>, <<"rootfs", 2>>, <<"dreambox-rootfs", 0>>}
               /\ rootfs' = [rootfs EXCEPT !.found = TRUE, !.mode = "MTD", !.dev = Dev]
      <4>1. Name \in NamedFor("MTD")
        BY <3>1 DEF NamedFor, MtdRootNames
      <4> QED
        BY <1>1, <2>3, <3>1, <4>1
    <3>2. CASE rootfs' = [rootfs EXCEPT !.dev = Dev]
      <4>1. rootfs'.mode = rootfs.mode /\ rootfs'.dev = Dev
        BY <1>1, <3>2
      <4>2. user_rootfs /\ args.user_rootfs = Dev
        BY <2>4 DEF MtdUserRootfs, UserRootfsLine
      <4> QED
        BY <1>2, <2>2, <4>1, <4>2 DEF MtdInv
    <3> QED
      BY <2>4, <3>1, <3>2 DEF MtdUserRootfs
  <2>5. CASE MtdRootfs
    <3>1. CASE rootfs' = rootfs
      BY <1>2, <3>1
    <3>2. CASE rootfs' = MtdUse(Dev)
      <4>1. CASE Name = <<"userdata", 0>>
        BY <2>3, <3>2, <4>1 DEF MtdUse, NamedFor
      <4>2. CASE Name # <<"userdata", 0>>
        <5>1. Name \in NamedFor("MTD")
          BY <2>5, <4>2 DEF MtdRootfs, RootfsLine, NamedFor, MtdRootNames
        <5> QED
          BY <1>1, <2>3, <3>2, <4>2, <5>1 DEF MtdUse
      <4> QED
        BY <4>1, <4>2
    <3>3. CASE ~rootfs.found /\ rootfs' = [rootfs EXCEPT !.dev = Dev]
      <4>1. rootfs'.mode = "unknown"
        BY <1>1, <2>2, <3>3
      <4> QED
        BY <4>1 DEF MtdInv
    <3> QED
      BY <2>5, <3>1, <3>2, <3>3 DEF MtdRootfs
  <2> QED
    BY <1>4, <2>4, <2>5
<1>5. CASE RootfsLeft
  <2>1. rootfs' = rootfs
    BY <1>5 DEF RootfsLeft, MtdUserKernel, MtdKernel, MtdOther, MtdEnd, ReadProcCmdline,
       NoPartNames, TablesEnd, GptForbidden, FdiskEnd, RestoreMtdKernel, UserKernel,
       DecideStop, Check, found
  <2> QED
    BY <1>2, <2>1
<1> QED
  BY <1>2, <1>3, <1>4, <1>5, RootfsSteps, NextKinds
(* On a box with slot directories a rootfs is found with a directory.      *)
LEMMA SubNext == SelectInv /\ StopInv /\ Next => SubInv'
<1> SUFFICES ASSUME SelectInv, StopInv, Next,
                    ~args.rootsubdir_check, box.cmdline.sub # NoSub,
                    rootfs'.found, rootfs'.mode # "MTD",
                    kernel'.found \/ box.kexec \/ pc' \notin {"tables", "fdisk?"}
             PROVE  rootfs'.sub # NoSub
  BY Frame DEF SubInv
<1>1. /\ box' = box /\ args' = args /\ box \in Boxes
      /\ RootfsOk(rootfs, args, wrong_user_mtd)
      /\ DOMAIN rootfs = {"found", "mode", "dev", "sub"}
  BY Frame DEF SelectInv, RootfsOk
<1>2. \A i : Slot(i) # NoSub /\ <<"linuxrootfs", i>> # NoSub
  <2>1. \A i : Slot(i) # NoSub
    BY <1>1, SlotNamed DEF StopInv
  <2>2. ASSUME NEW i PROVE <<"linuxrootfs", i>> # NoSub
    BY Zenon DEF NoSub
  <2> QED
    BY <2>1, <2>2
<1>3. /\ rootfs.found /\ rootfs.mode # "MTD"
      /\ kernel.found \/ box.kexec \/ pc \notin {"tables", "fdisk?"}
      => rootfs.sub # NoSub
  BY DEF StopInv, SubInv
<1>4. pc \notin {"mtd", "cmdline"} =>
        /\ cur.root = box.cmdline.root /\ cur.sub # NoSub
        /\ SlotDirs
  BY CurKnown DEF SlotDirs
<1>5. CASE RootfsLeft
  <2>1. rootfs' = rootfs
    BY <1>5 DEF RootfsLeft, MtdUserKernel, MtdKernel, MtdOther, MtdEnd, ReadProcCmdline,
       NoPartNames, TablesEnd, GptForbidden, FdiskEnd, RestoreMtdKernel, UserKernel,
       DecideStop, Check, found
  <2>2. CASE pc \notin {"tables", "fdisk?"}
    BY <1>3, <2>1, <2>2
  <2>3. CASE pc \in {"tables", "fdisk?"}
    <3>1. kernel' = kernel /\ pc' \in {"tables", "fdisk?"}
      BY <1>5, <2>3 DEF RootfsLeft, MtdUserKernel, MtdKernel, MtdOther, MtdEnd,
         ReadProcCmdline, NoPartNames, TablesEnd, GptForbidden, FdiskEnd, RestoreMtdKernel,
         UserKernel, DecideStop, Check, Reading, AtTable, AtDisk, found
    <3> QED
      BY <1>3, <2>1, <3>1
  <2> QED
    BY <2>2, <2>3
<1>6. CASE MtdUserRootfs
  <2>1. pc = "mtd"
    BY <1>6 DEF MtdUserRootfs, Reading
  <2>2. rootfs' = [rootfs EXCEPT !.dev = Dev]
    <3>1. CASE rootfs' = [rootfs EXCEPT !.found = TRUE, !.mode = "MTD", !.dev = Dev]
      <4>1. rootfs'.mode = "MTD"
        BY <1>1, <3>1
      <4> QED
        BY <4>1
    <3> QED
      BY <1>6, <3>1 DEF MtdUserRootfs
  <2> QED
    BY <1>1, <1>3, <2>1, <2>2
<1>7. CASE MtdRootfs
  <2>1. pc = "mtd"
    BY <1>7 DEF MtdRootfs, Reading
  <2>2. CASE rootfs' = rootfs
    BY <1>3, <2>1, <2>2
  <2>3. CASE rootfs' = MtdUse(Dev)
    <3>1. CASE Name = <<"userdata", 0>>
      BY <1>2, <2>3, <3>1 DEF MtdUse
    <3>2. CASE Name # <<"userdata", 0>>
      <4>1. rootfs' = [rootfs EXCEPT !.found = TRUE, !.mode = "MTD", !.dev = Dev]
        BY <2>3, <3>2 DEF MtdUse
      <4>2. rootfs'.mode = "MTD"
        BY <1>1, <4>1
      <4> QED
        BY <4>2
    <3> QED
      BY <3>1, <3>2
  <2>4. CASE rootfs' = [rootfs EXCEPT !.dev = Dev]
    BY <1>1, <1>3, <2>1, <2>4
  <2> QED
    BY <1>7, <2>2, <2>3, <2>4 DEF MtdRootfs
<1>8. CASE SearchViaPartNames
  <2>1. Matching = {}
    <3>1. n \in DOMAIN box.blkdevparts
      BY <1>8, ReadTables DEF SearchViaPartNames
    <3>2. \A p \in DOMAIN NamePairs : \/ ~Has(Table, NamePairs[p][1])
                                      \/ ~Has(Table, NamePairs[p][2])
      BY <1>1, <3>1, SlotBoxesAssumption DEF Table
    <3> HIDE DEF NamePairs
    <3> QED
      BY <3>2 DEF Matching
  <2>2. WantedNames.sub = <<"linuxrootfs", multiboot_partition>>
    BY <2>1 DEF WantedNames, SlotNames
  <2> DEFINE numbers == Numbers(Table, WantedNames.rootfs)
  <2>3. rootfs' = [Use(rootfs, Table, numbers) EXCEPT !.sub = WantedNames.sub]
    BY <1>8 DEF SearchViaPartNames
  <2> HIDE DEF numbers
  <2>4. FromTable([Use(rootfs, Table, numbers) EXCEPT !.sub = WantedNames.sub],
                  rootfs, numbers, WantedNames.sub)
    BY <1>1, UsesRoot
  <2> QED
    BY <1>2, <2>2, <2>3, <2>4 DEF FromTable
<1>9. CASE SearchCurrentUsed
  <2> DEFINE onRoot == [rootfs EXCEPT !.found = TRUE, !.mode = "TARBZ2", !.dev = cur.root]
  <2>1. pc = "tables" /\ pc' = "tables" /\ n \in DOMAIN box.blkdevparts
    BY <1>9, ReadTables DEF SearchCurrentUsed, StopReading, AtTable
  <2>2. kernel'.found \/ box.kexec
    BY <2>1
  <2>3. CASE UNCHANGED found
    BY <1>3, <2>2, <2>3 DEF found
  <2>4. CASE cur.root[1] = Table.disk /\ cur.kernel[1] = Table.disk
    <3> DEFINE r == IF Like(cur.root, "userdata") THEN onRoot ELSE rootfs
    <3>1. rootfs' = IF kernel'.found /\ r.found THEN [r EXCEPT !.sub = cur.sub] ELSE r
      BY <1>9, <2>4 DEF SearchCurrentUsed
    <3>2. DOMAIN onRoot = DOMAIN rootfs
      OBVIOUS
    <3>3. CASE kernel'.found /\ r.found
      <4>1. DOMAIN r = {"found", "mode", "dev", "sub"}
        BY <1>1, <3>2
      <4> HIDE DEF r
      <4>2. rootfs'.sub = cur.sub
        BY <3>1, <3>3, <4>1
      <4> QED
        BY <1>4, <2>1, <4>2
    <3>4. CASE ~(kernel'.found /\ r.found)
      <4>1. rootfs' = r
        BY <3>1, <3>4
      <4>2. box.kexec
        BY <2>2, <3>4, <4>1
      <4>3. ~Like(cur.root, "userdata")
        BY <1>1, <2>1, <4>2, SlotBoxesAssumption DEF Like, Table
      <4> QED
        BY <1>3, <4>1, <4>2, <4>3
    <3> QED
      BY <3>3, <3>4
  <2> QED
    BY <1>9, <2>3, <2>4 DEF SearchCurrentUsed
<1>10. CASE StartFdisk
  <2>1. CASE BothFound \/ box.kexec
    BY <1>3, <1>10, <2>1 DEF StartFdisk, BothFound, found
  <2>2. CASE ~(BothFound \/ box.kexec)
    BY <1>1, <1>10, <2>2 DEF StartFdisk
  <2> QED
    BY <2>1, <2>2
<1>11. CASE GptFound
  <2>1. n \in DOMAIN box.disks /\ pc = "fdisk" /\ ~box.kexec
    BY <1>11, ReadTables DEF GptFound, AtDisk, StopInv, MultiInv
  <2> DEFINE numbers == GptSearch.roots
  <2>2. rootfs' = [Use(rootfs, Disk, numbers) EXCEPT !.sub = GptSub]
    BY <1>11 DEF GptFound
  <2>3. multiboot_partition = -1 => numbers = {}
    <3> SUFFICES ASSUME multiboot_partition = -1 PROVE numbers = {}
      OBVIOUS
    <3>1. ~Has(Disk, <<"rootfs", 0>>)
      BY <1>1, <2>1, SlotBoxesAssumption DEF Disk
    <3>2. GptRootfs = {<<"rootfs", 0>>}
      BY DEF GptRootfs
    <3>3. Named(GptRootfs) = {}
      BY <3>1, <3>2 DEF Named, Has
    <3> QED
      BY <3>3 DEF GptSearch, UpTo
  <2> HIDE DEF numbers
  <2>4. FromTable([Use(rootfs, Disk, numbers) EXCEPT !.sub = GptSub], rootfs, numbers, GptSub)
    BY <1>1, UsesRoot
  <2>5. FromTable(rootfs', rootfs, numbers, GptSub)
    BY <2>2, <2>4
  <2>6. CASE multiboot_partition # -1
    <3>1. GptSub = <<"linuxrootfs", multiboot_partition>>
      BY <1>4, <2>1, <2>6 DEF GptSub
    <3> QED
      BY <1>2, <2>5, <3>1 DEF FromTable
  <2>7. CASE multiboot_partition = -1
    <3>1. GptSub = rootfs.sub
      BY <2>7 DEF GptSub
    <3> QED
      BY <1>3, <2>1, <2>3, <2>5, <2>7, <3>1 DEF FromTable
  <2> QED
    BY <2>6, <2>7
<1>12. CASE GptFallback
  <2>1. pc = "fdisk"
    BY <1>12 DEF GptFallback, AtDisk
  <2>2. CASE UNCHANGED found
    BY <1>3, <2>1, <2>2 DEF found
  <2>3. CASE ~UNCHANGED found
    <3> DEFINE numbers == Named(FallbackRootfs)
    <3>1. rootfs' = [Use(rootfs, Disk, numbers)
                       EXCEPT !.sub = IF cur.sub = NoSub THEN @ ELSE cur.sub]
      BY <1>12, <2>3 DEF GptFallback
    <3>2. rootfs' = [Use(rootfs, Disk, numbers) EXCEPT !.sub = cur.sub]
      BY <1>4, <2>1, <3>1
    <3> HIDE DEF numbers
    <3>3. FromTable([Use(rootfs, Disk, numbers) EXCEPT !.sub = cur.sub],
                    rootfs, numbers, cur.sub)
      BY <1>1, UsesRoot
    <3> QED
      BY <1>4, <2>1, <3>2, <3>3 DEF FromTable
  <2> QED
    BY <2>2, <2>3
<1>13. CASE UserRootfs
  <2>1. pc = "user_rootfs"
    BY <1>13 DEF UserRootfs
  <2>2. CASE rootfs' = rootfs
    BY <1>3, <2>1, <2>2
  <2>3. CASE rootfs' = [rootfs EXCEPT !.found = FALSE]
    BY <1>1, <2>3
  <2>4. CASE rootfs' = [found |-> TRUE, mode |-> "TARBZ2", dev |-> args.user_rootfs,
                        sub |-> IF SlotDirs THEN Slot(multiboot_partition) ELSE rootfs.sub]
    BY <1>2, <1>4, <2>1, <2>4
  <2> QED
    BY <1>13, <2>2, <2>3, <2>4 DEF UserRootfs
<1>14. CASE UseChkroot
  <2>1. pc = "chkroot"
    BY <1>14 DEF UseChkroot
  <2>2. CASE rootfs' = rootfs
    BY <1>3, <2>1, <2>2
  <2>3. CASE rootfs' = [rootfs EXCEPT !.mode = ModeOf, !.sub = Slot(multiboot_partition)]
    BY <1>1, <1>2, <2>3
  <2> QED
    BY <1>14, <2>2, <2>3 DEF UseChkroot
<1>15. CASE UseKexec
  <2>1. pc = "kexec"
    BY <1>15 DEF UseKexec
  <2>2. CASE rootfs' = rootfs
    BY <1>3, <2>1, <2>2
  <2>3. CASE rootfs' = [found |-> TRUE, mode |-> "TARBZ2", dev |-> cur.root,
                        sub |-> IF SlotDirs THEN Slot(multiboot_partition) ELSE rootfs.sub]
    BY <1>2, <1>4, <2>1, <2>3
  <2> QED
    BY <1>15, <2>2, <2>3 DEF UseKexec, found
<1> QED
  BY <1>5, <1>6, <1>7, <1>8, <1>9, <1>10, <1>11, <1>12, <1>13, <1>14, <1>15, NextKinds
     DEF RootfsTouched
(* With chkroot the mode and the directory are set behind all sources.     *)
LEMMA ChkrootNext == SelectInv /\ StopInv /\ Next => ChkrootInv'
<1> SUFFICES ASSUME SelectInv, StopInv, Next PROVE ChkrootInv'
  OBVIOUS
<1> SUFFICES ASSUME pc' \in AfterChkroot, chkroot_mode', rootfs'.found,
                    ~args.rootsubdir_check
             PROVE  rootfs'.mode \in UnpackModes
                    /\ rootfs'.sub = Slot(multiboot_partition')
  <2>1. args' = args /\ (\A i : Slot(i)' = Slot(i))
    BY Frame DEF Slot
  <2> QED
    BY <2>1 DEF ChkrootInv
<1>1. /\ args' = args /\ box' = box /\ box \in Boxes
      /\ DOMAIN rootfs = {"found", "mode", "dev", "sub"}
  BY Frame DEF SelectInv, RootfsOk
<1>2. /\ UseChkroot \/ UseKexec \/ DecideStop \/ Check \/ UserRootfs
      /\ multiboot_partition' = multiboot_partition /\ chkroot_mode' = chkroot_mode
  <2>1. CASE RootfsLeft
    BY <2>1 DEF RootfsLeft, MtdUserKernel, MtdKernel, MtdOther, MtdEnd, ReadProcCmdline,
       NoPartNames, TablesEnd, GptForbidden, FdiskEnd, RestoreMtdKernel, UserKernel,
       DecideStop, Check, Reading, NextLine, AtTable, AtDisk, modeVars, AfterChkroot
  <2>2. CASE RootfsTouched
    BY <2>2 DEF RootfsTouched, MtdUserRootfs, MtdRootfs, SearchViaPartNames,
       SearchCurrentUsed, StartFdisk, GptFound, GptFallback, UserRootfs, UseChkroot,
       UseKexec, Reading, NextLine, StopReading, NextDisk, AtTable, AtDisk, modeVars,
       AfterChkroot
  <2> QED
    BY <2>1, <2>2, NextKinds
<1>3. pc \in AfterChkroot /\ rootfs.found =>
        rootfs.mode \in UnpackModes /\ rootfs.sub = Slot(multiboot_partition)
  BY <1>2 DEF StopInv, ChkrootInv
<1>4. CASE UseChkroot
  <2>1. rootfs' = [rootfs EXCEPT !.mode = ModeOf, !.sub = Slot(multiboot_partition)]
    BY <1>2, <1>4 DEF UseChkroot
  <2>2. ModeOf \in UnpackModes
    BY DEF ModeOf, UnpackModes
  <2> HIDE DEF ModeOf
  <2> QED
    BY <1>1, <1>2, <2>1, <2>2
<1>5. CASE UseKexec
  <2>1. pc = "kexec"
    BY <1>5 DEF UseKexec
  <2>2. CASE rootfs' = rootfs
    BY <1>2, <1>3, <2>1, <2>2 DEF AfterChkroot
  <2>3. CASE rootfs' = [found |-> TRUE, mode |-> "TARBZ2", dev |-> cur.root,
                        sub |-> IF SlotDirs THEN Slot(multiboot_partition) ELSE rootfs.sub]
    <3>1. cur.sub = Slot(CurrentSlot)
      BY <1>2, <2>1, CurKnown
    <3>2. SlotDirs
      BY <1>1, <3>1, SlotNamed DEF SlotDirs, StopInv
    <3> QED
      BY <1>2, <2>3, <3>2 DEF UnpackModes
  <2> QED
    BY <1>5, <2>2, <2>3 DEF UseKexec, found
<1>6. CASE DecideStop \/ Check
  <2>1. rootfs' = rootfs /\ pc \in AfterChkroot
    BY <1>6 DEF DecideStop, Check, AfterChkroot, found
  <2> QED
    BY <1>2, <1>3, <2>1
<1>7. CASE UserRootfs
  <2>1. rootfs' = [rootfs EXCEPT !.found = FALSE]
    BY <1>7 DEF UserRootfs, AfterChkroot
  <2> QED
    BY <1>1, <2>1
<1> QED
  BY <1>2, <1>4, <1>5, <1>6, <1>7

(* The decision is made once, and nothing it rests on changes behind it.   *)
LEMMA DecisionNext == DecisionInv /\ Next => DecisionInv'
<1> SUFFICES ASSUME DecisionInv, Next PROVE DecisionInv'
  OBVIOUS
<1>1. CASE DecideStop
  <2>1. /\ pc = "stop?" /\ pc' = "check" /\ UNCHANGED <<cur, rootfs, force_e2_stop>>
        /\ stop_e2_needed' = (stop_e2_needed /\ ~(NotRunning /\ ~force_e2_stop))
    BY <1>1 DEF DecideStop, found
  <2>2. NotRunning' = NotRunning
    BY <2>1 DEF NotRunning
  <2>3. stop_e2_needed
    BY <2>1 DEF DecisionInv, Decided
  <2>4. pc' \in Decided
    BY <2>1 DEF Decided
  <2>5. (force_e2_stop \/ ~NotRunning)' => stop_e2_needed'
    BY <2>1, <2>2, <2>3, Zenon
  <2> QED
    BY <2>4, <2>5 DEF DecisionInv
<1>2. CASE Check
  <2>1. /\ pc = "check" /\ pc' \in Decided
        /\ UNCHANGED <<cur, rootfs, force_e2_stop, stop_e2_needed>>
    BY <1>2 DEF Check, found, modeVars, Decided
  <2>2. NotRunning' = NotRunning
    BY <2>1 DEF NotRunning
  <2> QED
    BY <2>1, <2>2 DEF DecisionInv, Decided
<1>3. CASE ~DecideStop /\ ~Check
  <2>1. stop_e2_needed' = stop_e2_needed /\ (pc' \notin Decided => pc \notin Decided)
    BY <1>3, Setters, Frame
  <2>2. pc \notin Decided \/ pc' = "abort"
    <3>1. CASE RootfsLeft
      BY <1>3, <3>1 DEF RootfsLeft, MtdUserKernel, MtdKernel, MtdOther, MtdEnd,
         ReadProcCmdline, NoPartNames, TablesEnd, GptForbidden, FdiskEnd, RestoreMtdKernel,
         UserKernel, Reading, AtTable, AtDisk, Decided
    <3>2. CASE RootfsTouched
      BY <3>2 DEF RootfsTouched, MtdUserRootfs, MtdRootfs, SearchViaPartNames,
         SearchCurrentUsed, StartFdisk, GptFound, GptFallback, UserRootfs, UseChkroot,
         UseKexec, Reading, AtTable, AtDisk, Decided
    <3> QED
      BY <3>1, <3>2, NextKinds
  <2> QED
    BY <2>1, <2>2 DEF DecisionInv, Decided
<1> QED
  BY <1>1, <1>2, <1>3

(* Every step keeps the invariant.                                         *)
LEMMA StopNext == SelectInv /\ StopInv /\ [Next]_vars => StopInv'
<1> SUFFICES ASSUME SelectInv, StopInv, [Next]_vars PROVE StopInv'
  OBVIOUS
<1>1. CASE Next
  <2>1. /\ args \in ArgsOf(box) /\ MultiInv /\ CurInv /\ MtdInv /\ SubInv /\ ChkrootInv
        /\ DecisionInv
    BY DEF StopInv
  <2>2. args' \in ArgsOf(box')
    BY <1>1, <2>1, Frame
  <2>3. MultiInv' /\ CurInv' /\ MtdInv' /\ DecisionInv'
    BY <1>1, <2>1, MultiNext, CurNext, MtdNext, DecisionNext
  <2>4. SubInv' /\ ChkrootInv'
    BY <1>1, SubNext, ChkrootNext
  <2> QED
    BY <2>2, <2>3, <2>4 DEF StopInv
<1>2. CASE UNCHANGED vars
  <2>1. UNCHANGED <<box, args, multiboot_partition, cur, kernel, rootfs, chkroot_mode,
                    force_e2_stop, stop_e2_needed, pc>>
    BY <1>2 DEF vars, boxVars, found, modeVars
  <2>2. /\ args' \in ArgsOf(box') /\ MultiInv' /\ MtdInv' /\ SubInv'
    BY <2>1 DEF StopInv, MultiInv, MtdInv, SubInv
  <2>3. CurInv' /\ ChkrootInv' /\ DecisionInv'
    BY <2>1 DEF StopInv, CurInv, ChkrootInv, DecisionInv, Slot, CurrentSlot, NotRunning
  <2> QED
    BY <2>2, <2>3 DEF StopInv
<1> QED
  BY <1>1, <1>2

(***************************************************************************)
(* What the sources leave behind of the slot, the modes and the directory, *)
(* up to the decision to stop Enigma2.                                     *)
(***************************************************************************)
THEOREM StopInductive == Spec => []StopInv
<1> QED
  BY StopInit, StopNext, SelectInductive, PTL DEF Spec

(* An image that is erased, as the box and the command line name it.       *)
LEMMA ErasedImage ==
  ASSUME Flashing, ~args.rootsubdir_check, SelectInv, StopInv,
         NEW i \in Running \intersect Erased
  PROVE  /\ box \in Boxes /\ i \in box.images /\ i.slot = box.running /\ i.root = rootfs.dev
         /\ rootfs.found /\ pc = "flash" /\ Mountable
         /\ Whole \/ i.sub = rootfs.sub
BY DEF Running, Erased, SelectInv, Checked, Flashing

(***************************************************************************)
(* The running image is erased only after Enigma2 has been stopped, on     *)
(* every box whose command line tells the running image, for every command *)
(* line of a user who knows the current slot if he gives it.               *)
(***************************************************************************)
THEOREM RunningStopped == Spec => []RunningImageStopped
<1>1. SelectInv /\ StopInv => RunningImageStopped
  <2> SUFFICES ASSUME SelectInv, StopInv, Flashing, ~args.rootsubdir_check,
                      NEW i \in Running \intersect Erased
               PROVE  stop_e2_needed
    BY DEF RunningImageStopped
  <2>1. /\ box \in Boxes /\ i \in box.images /\ i.slot = box.running /\ i.root = rootfs.dev
        /\ rootfs.found /\ pc = "flash" /\ Mountable
        /\ Whole \/ i.sub = rootfs.sub
    BY ErasedImage
  <2>2. /\ args \in ArgsOf(box) /\ MultiInv /\ CurInv /\ MtdInv /\ SubInv /\ ChkrootInv
        /\ DecisionInv
    BY DEF StopInv
  <2>3. SUFFICES force_e2_stop \/ ~NotRunning
    BY <2>1, <2>2 DEF DecisionInv
  <2>4. /\ cur.root = box.cmdline.root
        /\ cur.sub = IF chkroot_mode THEN Slot(CurrentSlot) ELSE box.cmdline.sub
    BY <2>1, CurKnown
  <2>5. /\ i.sub = NoSub \/ i.sub[2] = i.slot
        /\ IF box.cmdline.sub = NoSub THEN i.root = box.cmdline.root \/ i.root[1] = "mtd"
                                      ELSE i.sub = box.cmdline.sub
    BY <2>1, RunningAssumption
  <2>6. rootfs.mode \in {"MTD", "TARBZ2_MTD"} =>
          \E k \in DOMAIN box.mtd : /\ i.root = <<"mtd", k - 1>>
                                    /\ box.mtd[k] \in NamedFor(rootfs.mode)
    BY <2>1, <2>2 DEF MtdInv
  <2>7. \A k \in DOMAIN box.mtd : i.root = <<"mtd", k - 1>> =>
          IF box.cmdline.sub = NoSub THEN box.mtd[k] # <<"userdata", 0>>
                                     ELSE box.mtd[k] \notin MtdRootNames
    BY <2>1, MtdAssumption
  <2>8. CASE chkroot_mode
    (* The slot of -m is erased, which is the current one or is not running. *)
    <3>1. /\ rootfs.mode \in UnpackModes /\ rootfs.sub = Slot(args.multi)
          /\ args.multi # -1 /\ (args.currentslot \in {0, args.multi} => force_e2_stop)
      BY <2>1, <2>2, <2>8 DEF ChkrootInv, CurInv, MultiInv, AfterChkroot
    <3>2. rootfs.sub # NoSub /\ cur.sub # NoSub
      BY <2>1, <2>2, <2>4, <2>8, <3>1, SlotNamed
    <3>3. i.sub = rootfs.sub
      BY <2>1, <3>1, <3>2 DEF Whole, SlotDirs, UnpackModes
    <3>4. box.running = args.multi
      BY <2>1, <2>5, <3>1, <3>2, <3>3 DEF Slot
    <3>5. args.currentslot \in {0, box.running}
      BY <2>1, <2>2, ArgsAssumption, Zenon
    <3> QED
      BY <3>1, <3>4, <3>5
  <2>9. CASE ~chkroot_mode /\ box.cmdline.sub = NoSub
    (* The partition is the root of the command line, or it is raw flash.    *)
    <3>1. CASE i.root = box.cmdline.root
      BY <2>1, <2>4, <2>9, <3>1 DEF NotRunning
    <3>2. CASE i.root[1] = "mtd"
      <4>1. rootfs.mode \in {"MTD", "TARBZ2_MTD"}
        BY <2>1, <3>2 DEF Mountable
      <4>2. rootfs.mode = "MTD"
        BY <2>6, <2>7, <2>9, <4>1 DEF NamedFor
      <4> QED
        BY <2>4, <2>9, <4>2 DEF NotRunning
    <3> QED
      BY <2>5, <2>9, <3>1, <3>2
  <2>10. CASE ~chkroot_mode /\ box.cmdline.sub # NoSub
    (* The directory is that of the command line.                            *)
    <3>1. rootfs.mode # "MTD"
      BY <2>6, <2>7, <2>10 DEF NamedFor
    <3>2. rootfs.sub # NoSub
      BY <2>1, <2>2, <2>10, <3>1 DEF SubInv
    <3>3. i.sub = rootfs.sub
      BY <2>1, <2>4, <2>10, <3>1, <3>2 DEF Whole, SlotDirs
    <3> QED
      BY <2>4, <2>5, <2>10, <3>3 DEF NotRunning
  <2> QED
    BY <2>8, <2>9, <2>10
<1> QED
  BY <1>1, SelectInductive, StopInductive, PTL
==============================================================================
